---------------------------- MODULE CommitProofs ----------------------------
(***************************************************************************)
(* Proofs about what the commits of Booking leave in the tables beside the *)
(* appointments, for any instance: history and audit log explain the rows, *)
(* a waitlist entry is matched when its slot is released, and a match buys *)
(* one appointment; and a proof that nobody waits in a circle, which needs *)
(* the same invariant.                                                     *)
(***************************************************************************)
EXTENDS BookingProofs, SequenceTheorems, FiniteSetTheorems

-----------------------------------------------------------------------------
(***************************************************************************)
(* History and audit log.                                                  *)
(*                                                                         *)
(* The tables and the trail change together, in Commit alone (OnlyCommit); *)
(* a commit appends at most one row to each log (Appends), and what that   *)
(* row says of the appointment before is so because the transaction holds  *)
(* the row it loaded (CommitsOneOperation).                                *)
(***************************************************************************)

trail == <<appts, history, audit>>

\* What TrailExplainsRow says of one appointment.
Explained(row, h, log) ==
  IF row = None
  THEN h = <<>> /\ log = <<>>
  ELSE /\ h # <<>> /\ h[1] = [old |-> None, new |-> "BOOKED"]
       /\ \A i \in 2 .. Len(h) : h[i].old = h[i-1].new /\ h[i].new \in Allowed[h[i].old]
       /\ h[Len(h)].new = row.status
       /\ log # <<>>
       /\ log[1] = [action |-> "CREATED", from |-> None, to |-> row.print.start]
       /\ \A i \in 2 .. Len(log) :
            /\ log[i].action # "CREATED"
            /\ log[i].action \in {"RESCHEDULED", "CANCELLED"} =>
                 log[i].from # None /\ Leaves(log, i - 1, log[i].from)
       /\ Leaves(log, Len(log), row.start)
       /\ \A i \in 1 .. Len(log) : log[i].action = "CANCELLED" <=>
            i = Len(log) /\ row.status = "CANCELLED"

LEMMA ExplainedAll == TrailExplainsRow <=> \A id \in Ids : Explained(appts[id], history[id], audit[id])
  BY DEF TrailExplainsRow, Explained

\* Whatever changes the appointments or their trail is a commit.
LEMMA OnlyCommit ==
  ASSUME [Next]_vars, trail' # trail
  PROVE  \E r \in Requests : Commit(r)
<1>1. /\ \A r \in Requests : \A t : Proceed(r, t) => trail' = trail
      /\ \A r \in Requests : \A code : Answer(r, code) => trail' = trail
  BY DEF Proceed, Answer, trail
<1>2. ASSUME NEW r \in Requests
      PROVE  /\ Submit(r) => trail' = trail
             /\ LockEntry(r) => trail' = trail
             /\ Lookup(r) => trail' = trail
             /\ LoadMove(r) => trail' = trail
             /\ Validate(r) => trail' = trail
             /\ Flush(r) \/ Exclude(r) => trail' = trail
             /\ Cancel(r) => trail' = trail
             /\ ChangeStatus(r) => trail' = trail
             /\ Match(r) \/ LockMatches(r) => trail' = trail
             /\ Fail(r) => trail' = trail
  <2>1. Submit(r) => trail' = trail
    BY <1>1 DEF Submit
  <2>2. LockEntry(r) => trail' = trail
    BY <1>1 DEF LockEntry
  <2>3. Lookup(r) => trail' = trail
    BY <1>1 DEF Lookup
  <2>4. LoadMove(r) => trail' = trail
    BY <1>1 DEF LoadMove
  <2>5. (Validate(r) => trail' = trail) /\ (Flush(r) \/ Exclude(r) => trail' = trail)
    BY <1>1 DEF Validate, Flush, Exclude
  <2>6. Cancel(r) => trail' = trail
    BY <1>1 DEF Cancel
  <2>7. ChangeStatus(r) => trail' = trail
    BY <1>1 DEF ChangeStatus
  <2>8. (Match(r) \/ LockMatches(r) => trail' = trail) /\ (Fail(r) => trail' = trail)
    BY <1>1 DEF Match, LockMatches, Fail
  <2> QED
    BY <2>1, <2>2, <2>3, <2>4, <2>5, <2>6, <2>7, <2>8
<1>3. (Join => trail' = trail) /\ (Tick => trail' = trail) /\ (UNCHANGED vars => trail' = trail)
  BY DEF Join, Tick, vars, trail
<1> QED
  BY <1>2, <1>3 DEF Next, Handle

\* The trail of a new appointment.
LEMMA ExplainNew ==
  ASSUME NEW row \in Row, row.status = "BOOKED", row.print.start = row.start
  PROVE  Explained(row, <<[old |-> None, new |-> "BOOKED"]>>,
                   <<[action |-> "CREATED", from |-> None, to |-> row.start]>>)
<1> DEFINE h == <<[old |-> None, new |-> "BOOKED"]>>
           log == <<[action |-> "CREATED", from |-> None, to |-> row.start]>>
<1>1. Len(h) = 1 /\ h[1] = [old |-> None, new |-> "BOOKED"] /\ h # <<>>
  OBVIOUS
<1>2. /\ Len(log) = 1 /\ log # <<>>
      /\ log[1] = [action |-> "CREATED", from |-> None, to |-> row.start]
  OBVIOUS
<1>3. row # None
  BY NoneAssumption
<1> HIDE DEF h, log
<1>4. Leaves(log, Len(log), row.start)
  BY <1>2 DEF Leaves
<1>5. Explained(row, h, log)
  BY <1>1, <1>2, <1>3, <1>4 DEF Explained
<1> QED
  BY <1>5 DEF h, log

\* A longer log tells of its beginning what the shorter one does.
LEMMA LeavesMore ==
  ASSUME NEW log \in Seq(AuditRow), NEW a \in AuditRow, NEW n \in 0 .. Len(log), NEW start
  PROVE  Leaves(Append(log, a), n, start) <=> Leaves(log, n, start)
<1>1. \A i \in 1 .. n : Append(log, a)[i] = log[i]
  BY AppendProperties, LenProperties
<1> DEFINE more == Append(log, a)
<1> HIDE DEF more
<1>2. \A i \in 1 .. n : more[i] = log[i]
  BY <1>1 DEF more
<1>3. Leaves(more, n, start) <=> Leaves(log, n, start)
  BY <1>2, LenProperties DEF Leaves
<1> QED
  BY <1>3 DEF more

\* A row of the log that moves nothing leaves the appointment where it was; one that does,
\* where it says.
LEMMA LeavesNext ==
  ASSUME NEW log \in Seq(AuditRow), NEW a \in AuditRow, NEW start
  PROVE  /\ a.to = start => Leaves(Append(log, a), Len(log) + 1, start)
         /\ a.to = None /\ Leaves(log, Len(log), start) => Leaves(Append(log, a), Len(log) + 1, start)
<1> DEFINE more == Append(log, a)
           n == Len(log)
<1>1. n \in Nat /\ more[n + 1] = a /\ \A i \in 1 .. n : more[i] = log[i]
  BY AppendProperties, LenProperties
<1> HIDE DEF more, n
<1>2. ASSUME a.to = start
      PROVE  Leaves(more, n + 1, start)
  BY <1>1, <1>2 DEF Leaves
<1>3. ASSUME a.to = None, Leaves(log, n, start)
      PROVE  Leaves(more, n + 1, start)
  <2>1. PICK i \in 1 .. n : log[i].to = start /\ \A k \in i + 1 .. n : log[k].to = None
    BY <1>3 DEF Leaves
  <2>2. ASSUME NEW k \in i + 1 .. n + 1
        PROVE  more[k].to = None
    BY <1>1, <1>3, <2>1, <2>2
  <2> QED
    BY <1>1, <2>1, <2>2 DEF Leaves
<1> QED
  BY <1>2, <1>3 DEF more, n

\* A status change appends to the history, and to the audit log the row of a change that does
\* not move: the cancellation, or another one.
LEMMA ExplainStatus ==
  ASSUME NEW row \in Row, NEW h \in Seq(HistoryRow), NEW log \in Seq(AuditRow),
         Explained(row, h, log), NEW status \in Allowed[row.status], NEW a \in AuditRow,
         a.to = None, a.action \in {"CANCELLED", "STATUS_CHANGED"},
         a.action = "CANCELLED" <=> status = "CANCELLED",
         a.action = "CANCELLED" => a.from = row.start
  PROVE  Explained([row EXCEPT !.status = status],
                   Append(h, [old |-> row.status, new |-> status]), Append(log, a))
<1> DEFINE entry == [old |-> row.status, new |-> status]
           h2 == Append(h, entry)
           log2 == Append(log, a)
           new == [row EXCEPT !.status = status]
<1>1. row # None /\ row.start \in Times /\ row.status \in Statuses /\ status \in Statuses
      /\ row.status # "CANCELLED" /\ entry \in HistoryRow
  BY NoneAssumption DEF Row, Allowed, Statuses, HistoryRow
<1>2. new \in Row /\ new # None /\ new.status = status /\ new.start = row.start
      /\ new.print = row.print
  BY <1>1, NoneAssumption DEF Row
<1>3. /\ Len(h) \in Nat /\ Len(h2) = Len(h) + 1 /\ h2 # <<>> /\ h2[Len(h) + 1] = entry
      /\ \A i \in 1 .. Len(h) : h2[i] = h[i]
  BY <1>1, AppendProperties, LenProperties
<1>4. /\ Len(log) \in Nat /\ Len(log2) = Len(log) + 1 /\ log2 # <<>>
      /\ log2[Len(log) + 1] = a /\ \A i \in 1 .. Len(log) : log2[i] = log[i]
  BY AppendProperties, LenProperties
<1>5. Len(h) >= 1 /\ Len(log) >= 1
  BY <1>1, EmptySeq DEF Explained
<1>6. \A n \in 0 .. Len(log), start \in Times : Leaves(log2, n, start) <=> Leaves(log, n, start)
  BY LeavesMore
<1>7. Leaves(log2, Len(log) + 1, row.start)
  BY <1>1, LeavesNext DEF Explained
<1>8. \A i \in 2 .. Len(log) : log[i].action \in {"RESCHEDULED", "CANCELLED"} =>
                                log[i].from \in Times
  <2>1. \A i \in 2 .. Len(log) : log[i] \in AuditRow
    BY ElementOfSeq, LenProperties
  <2>2. \A i \in 2 .. Len(log) : log[i].from \in Times \cup {None}
    BY <2>1 DEF AuditRow
  <2> QED
    BY <1>1, <2>2 DEF Explained
<1> HIDE DEF entry, h2, log2, new
<1>9. /\ h2[1] = [old |-> None, new |-> "BOOKED"]
      /\ \A i \in 2 .. Len(h2) : h2[i].old = h2[i-1].new /\ h2[i].new \in Allowed[h2[i].old]
      /\ h2[Len(h2)].new = status
  <2>1. entry.old = row.status /\ entry.new = status
    BY DEF entry
  <2>2. ASSUME NEW i \in 2 .. Len(h2)
        PROVE  h2[i].old = h2[i-1].new /\ h2[i].new \in Allowed[h2[i].old]
    <3>1. CASE i = Len(h) + 1
      BY <1>1, <1>3, <1>5, <2>1, <3>1 DEF Explained
    <3>2. CASE i \in 2 .. Len(h)
      BY <1>1, <1>3, <1>5, <3>2 DEF Explained
    <3> QED
      BY <1>3, <3>1, <3>2
  <2>3. h2[1] = h[1] /\ h[1] = [old |-> None, new |-> "BOOKED"]
    BY <1>1, <1>3, <1>5 DEF Explained
  <2> QED
    BY <1>3, <2>1, <2>2, <2>3
<1>10. \A i \in 2 .. Len(log2) :
         /\ log2[i].action # "CREATED"
         /\ log2[i].action \in {"RESCHEDULED", "CANCELLED"} =>
              log2[i].from # None /\ Leaves(log2, i - 1, log2[i].from)
  <2>1. ASSUME NEW i \in 2 .. Len(log)
        PROVE  /\ log2[i].action # "CREATED"
               /\ log2[i].action \in {"RESCHEDULED", "CANCELLED"} =>
                    log2[i].from # None /\ Leaves(log2, i - 1, log2[i].from)
    <3>1. log2[i] = log[i] /\ i - 1 \in 0 .. Len(log)
      BY <1>4, <2>1
    <3> QED
      BY <1>1, <1>6, <1>8, <3>1 DEF Explained
  <2>2. a.action # "CREATED"
    OBVIOUS
  <2>3. a.action \in {"RESCHEDULED", "CANCELLED"} =>
          a.from # None /\ Leaves(log2, Len(log), a.from)
    <3>1. Leaves(log2, Len(log), row.start)
      BY <1>1, <1>4, <1>6 DEF Explained
    <3> QED
      BY <1>1, <3>1, NoneAssumption
  <2> QED
    BY <1>4, <1>5, <2>1, <2>2, <2>3
<1>11. \A i \in 1 .. Len(log2) : log2[i].action = "CANCELLED" <=>
         i = Len(log2) /\ status = "CANCELLED"
  <2>1. ASSUME NEW i \in 1 .. Len(log)
        PROVE  log2[i].action # "CANCELLED"
    BY <1>1, <1>4, <2>1 DEF Explained
  <2> QED
    BY <1>4, <2>1
<1>12. log2[1] = [action |-> "CREATED", from |-> None, to |-> row.print.start]
  BY <1>1, <1>4, <1>5 DEF Explained
<1>13. Explained(new, h2, log2)
  BY <1>2, <1>3, <1>4, <1>7, <1>9, <1>10, <1>11, <1>12 DEF Explained
<1> QED
  BY <1>13 DEF new, h2, log2, entry

\* A move leaves the history alone, and appends to the audit log where it came from.
LEMMA ExplainMove ==
  ASSUME NEW row \in Row, NEW h \in Seq(HistoryRow), NEW log \in Seq(AuditRow),
         Explained(row, h, log), row.status # "CANCELLED", NEW start \in Times
  PROVE  Explained([row EXCEPT !.start = start], h,
                   Append(log, [action |-> "RESCHEDULED", from |-> row.start, to |-> start]))
<1> DEFINE a == [action |-> "RESCHEDULED", from |-> row.start, to |-> start]
           log2 == Append(log, a)
           new == [row EXCEPT !.start = start]
<1>1. row # None /\ row.start \in Times /\ row.start # None
  BY NoneAssumption DEF Row
<1>2. new # None /\ new.status = row.status /\ new.start = start /\ new.print = row.print
  BY NoneAssumption DEF Row
<1>3. a \in AuditRow /\ a.action = "RESCHEDULED" /\ a.from = row.start /\ a.to = start
  BY <1>1 DEF AuditRow
<1> HIDE DEF a, new
<1>4. /\ Len(log) \in Nat /\ Len(log2) = Len(log) + 1 /\ log2 # <<>>
      /\ log2[Len(log) + 1] = a /\ \A i \in 1 .. Len(log) : log2[i] = log[i]
  BY <1>3, AppendProperties, LenProperties
<1>5. Len(log) >= 1
  BY <1>1, EmptySeq DEF Explained
<1>6. \A n \in 0 .. Len(log), s \in Times : Leaves(log2, n, s) <=> Leaves(log, n, s)
  BY <1>3, LeavesMore
<1>7. Leaves(log2, Len(log) + 1, start)
  BY <1>3, LeavesNext
<1>8. \A i \in 2 .. Len(log) : log[i].action \in {"RESCHEDULED", "CANCELLED"} =>
                                log[i].from \in Times
  <2>1. \A i \in 2 .. Len(log) : log[i] \in AuditRow
    BY ElementOfSeq, LenProperties
  <2>2. \A i \in 2 .. Len(log) : log[i].from \in Times \cup {None}
    BY <2>1 DEF AuditRow
  <2> QED
    BY <1>1, <2>2 DEF Explained
<1> HIDE DEF log2
<1>9. \A i \in 2 .. Len(log2) :
        /\ log2[i].action # "CREATED"
        /\ log2[i].action \in {"RESCHEDULED", "CANCELLED"} =>
             log2[i].from # None /\ Leaves(log2, i - 1, log2[i].from)
  <2>1. ASSUME NEW i \in 2 .. Len(log)
        PROVE  /\ log2[i].action # "CREATED"
               /\ log2[i].action \in {"RESCHEDULED", "CANCELLED"} =>
                    log2[i].from # None /\ Leaves(log2, i - 1, log2[i].from)
    <3>1. log2[i] = log[i] /\ i - 1 \in 0 .. Len(log)
      BY <1>4, <2>1
    <3> QED
      BY <1>1, <1>6, <1>8, <3>1 DEF Explained
  <2>2. Leaves(log2, Len(log), row.start)
    BY <1>1, <1>4, <1>6 DEF Explained
  <2> QED
    BY <1>1, <1>3, <1>4, <1>5, <2>1, <2>2
<1>10. \A i \in 1 .. Len(log2) : log2[i].action # "CANCELLED"
  <2>1. ASSUME NEW i \in 1 .. Len(log)
        PROVE  log2[i].action # "CANCELLED"
    BY <1>1, <1>4, <2>1 DEF Explained
  <2> QED
    BY <1>3, <1>4, <2>1
<1>11. log2[1] = [action |-> "CREATED", from |-> None, to |-> row.print.start]
  BY <1>1, <1>4, <1>5 DEF Explained
<1>12. Explained(new, h, log2)
  BY <1>1, <1>2, <1>4, <1>7, <1>9, <1>10, <1>11 DEF Explained
<1> QED
  BY <1>12 DEF new, log2, a

\* What a commit with a row version writes is explained by what it appends.
LEMMA CommitExplained ==
  ASSUME TypeOK, Consistent, NEW r \in Requests, tx[r].pc = "commit", tx[r].draft # None,
         LET id == tx[r].target IN Explained(appts[id], history[id], audit[id])
  PROVE  LET t == tx[r]
         IN Explained(t.draft, history[t.target] \o HistoryOf(t), audit[t.target] \o AuditOf(t))
<1> DEFINE t == tx[r]
           row == appts[t.target]
           h == history[t.target]
           log == audit[t.target]
<1>1. t.target \in Ids /\ t.req \in Request /\ t.draft \in Row
  BY CommitForm
<1>2. h \in Seq(HistoryRow) /\ log \in Seq(AuditRow) /\ Explained(row, h, log)
  BY <1>1 DEF TypeOK
<1>3. CASE Books(t.req)
  <2>1. BookingForm(t)
    BY <1>3, CommitForm
  <2>2. row = None
    BY <1>1, <2>1, Before, NoneAssumption DEF FitsTables, BookingForm
  <2>3. h = <<>> /\ log = <<>>
    BY <1>2, <2>2 DEF Explained
  <2>4. t.draft.status = "BOOKED" /\ t.draft.print.start = t.draft.start
    <3>1. PICK employee \in Employees, service \in Services, start \in Times, note \in Notes :
            t.draft = NewRow(t.req.actor, employee, service, start, t.req.key, note)
      BY <2>1 DEF BookingForm
    <3> QED
      BY <3>1 DEF NewRow
  <2>5. /\ HistoryOf(t) = <<[old |-> None, new |-> "BOOKED"]>>
        /\ AuditOf(t) = <<[action |-> "CREATED", from |-> None, to |-> t.draft.start]>>
    BY <1>3, <2>4 DEF HistoryOf, AuditOf, Books
  <2>6. h \o HistoryOf(t) = HistoryOf(t) /\ log \o AuditOf(t) = AuditOf(t)
    BY <2>3, ConcatEmptySeq, HistoryType
  <2> QED
    BY <1>1, <2>4, <2>5, <2>6, ExplainNew
<1>4. CASE ~Books(t.req)
  <2>1. ChangeForm(t) /\ t.seen \in Row
    BY <1>4, CommitForm
  <2>2. row = t.seen /\ t.seen # None
    BY <1>1, <2>1, Before, NoneAssumption DEF FitsTables, ChangeForm
  <2>3. CASE t.req.kind = "reschedule"
    <3>1. /\ t.seen.status \in {"BOOKED", "CONFIRMED"} /\ t.req.start \in Times
          /\ t.draft = [t.seen EXCEPT !.start = t.req.start] /\ t.draft.start = t.req.start
      BY <1>1, <2>1, <2>3 DEF ChangeForm, Row, Request, CreateRequest, AcceptRequest, CancelRequest,
                              RescheduleRequest, StatusRequest
    <3> DEFINE a == [action |-> "RESCHEDULED", from |-> t.seen.start, to |-> t.req.start]
    <3>2. HistoryOf(t) = <<>> /\ AuditOf(t) = <<a>>
      BY <2>3, <3>1 DEF HistoryOf, AuditOf, Books
    <3>3. a \in AuditRow
      BY <2>1, <3>1 DEF AuditRow, Row
    <3>4. h \o HistoryOf(t) = h /\ log \o AuditOf(t) = Append(log, a)
      BY <1>2, <3>2, <3>3, ConcatEmptySeq, AppendIsConcat
    <3>5. Explained([t.seen EXCEPT !.start = t.req.start], h, Append(log, a))
      BY <1>2, <2>1, <2>2, <3>1, ExplainMove
    <3> QED
      BY <3>1, <3>4, <3>5
  <2>4. CASE t.req.kind \in {"cancel", "status"}
    <3>1. PICK status \in Allowed[t.seen.status] :
            /\ t.draft = [t.seen EXCEPT !.status = status] /\ t.draft.status = status
            /\ t.draft.start = t.seen.start
            /\ status = "CANCELLED" <=> t.req.kind = "cancel"
      <4>1. CASE t.req.kind = "cancel"
        BY <2>1, <4>1 DEF ChangeForm, Row
      <4>2. CASE t.req.kind = "status"
        <5>1. t.req.to # "CANCELLED" /\ t.req.to \in Allowed[t.seen.status]
          BY <1>1, <2>1, <4>2 DEF ChangeForm, Request, CreateRequest, AcceptRequest, CancelRequest,
                                  RescheduleRequest, StatusRequest
        <5> QED
          BY <2>1, <4>2, <5>1 DEF ChangeForm, Row
      <4> QED
        BY <2>4, <4>1, <4>2
    <3> DEFINE entry == [old |-> t.seen.status, new |-> status]
               a == IF t.req.kind = "cancel"
                    THEN [action |-> "CANCELLED", from |-> t.seen.start, to |-> None]
                    ELSE [action |-> "STATUS_CHANGED", from |-> None, to |-> None]
    <3>2. HistoryOf(t) = <<entry>> /\ AuditOf(t) = <<a>>
      BY <2>4, <3>1 DEF HistoryOf, AuditOf, Books
    <3>3. /\ entry \in HistoryRow /\ a \in AuditRow /\ a.to = None
          /\ a.action \in {"CANCELLED", "STATUS_CHANGED"}
          /\ a.action = "CANCELLED" <=> status = "CANCELLED"
          /\ a.action = "CANCELLED" => a.from = t.seen.start
      BY <2>1, <2>4, <3>1 DEF HistoryRow, AuditRow, Row, Allowed, Statuses
    <3> HIDE DEF a
    <3>4. h \o HistoryOf(t) = Append(h, entry) /\ log \o AuditOf(t) = Append(log, a)
      BY <1>2, <3>2, <3>3, AppendIsConcat
    <3>5. Explained([t.seen EXCEPT !.status = status], Append(h, entry), Append(log, a))
      BY <1>2, <2>1, <2>2, <3>3, ExplainStatus
    <3> QED
      BY <3>1, <3>4, <3>5
  <2> QED
    BY <2>1, <2>3, <2>4 DEF ChangeForm
<1> QED
  BY <1>3, <1>4

\* History and audit log tell the whole story of every row, for any number of racing requests.
THEOREM TrailExplains == Spec => []TrailExplainsRow
<1>1. Init => TrailExplainsRow
  BY ExplainedAll DEF Init, Explained
<1>2. TypeOK /\ Consistent /\ TrailExplainsRow /\ [Next]_vars => TrailExplainsRow'
  <2> SUFFICES ASSUME TypeOK, Consistent, TrailExplainsRow, [Next]_vars
               PROVE  TrailExplainsRow'
    OBVIOUS
  <2>1. CASE trail' = trail
    BY <2>1 DEF trail, TrailExplainsRow
  <2>2. CASE trail' # trail
    <3>1. PICK r \in Requests : Commit(r)
      BY <2>2, OnlyCommit
    <3> DEFINE t == tx[r]
    <3>2. t.pc = "commit" /\ t.target \in Ids
      BY <3>1, CommitForm DEF Commit
    <3>3. \A id \in Ids : Explained(appts[id], history[id], audit[id])
      BY ExplainedAll
    <3>4. /\ \A id \in Ids \ {t.target} : /\ appts'[id] = appts[id] /\ history'[id] = history[id]
                                           /\ audit'[id] = audit[id]
          /\ appts'[t.target] = IF t.draft = None THEN appts[t.target] ELSE t.draft
          /\ history'[t.target] = history[t.target] \o HistoryOf(t)
          /\ audit'[t.target] = audit[t.target] \o AuditOf(t)
      BY <3>1, <3>2 DEF Commit, TypeOK
    <3>5. Explained(appts'[t.target], history'[t.target], audit'[t.target])
      <4>1. CASE t.draft = None
        <5>1. HistoryOf(t) = <<>> /\ AuditOf(t) = <<>>
          BY <4>1 DEF HistoryOf, AuditOf
        <5>2. history'[t.target] = history[t.target] /\ audit'[t.target] = audit[t.target]
          BY <3>2, <3>4, <5>1, ConcatEmptySeq DEF TypeOK
        <5> QED
          BY <3>2, <3>3, <3>4, <4>1, <5>2
      <4>2. CASE t.draft # None
        BY <3>2, <3>3, <3>4, <4>2, CommitExplained
      <4> QED
        BY <4>1, <4>2
    <3>6. \A id \in Ids : Explained(appts'[id], history'[id], audit'[id])
      BY <3>2, <3>3, <3>4, <3>5
    <3>7. \A id \in Ids : Explained(appts[id], history[id], audit[id])'
      BY <3>6 DEF Explained, Leaves
    <3> QED
      BY <3>7 DEF TrailExplainsRow, Explained
  <2> QED
    BY <2>1, <2>2
<1> QED
  BY <1>1, <1>2, Invariance, PTL DEF Spec

-----------------------------------------------------------------------------
(***************************************************************************)
(* The waitlist.                                                           *)
(*                                                                         *)
(* Consistent says nothing of the entries a transaction has locked.  What  *)
(* is needed besides is Held: what a transaction has read of its entries   *)
(* is still so, for as long as it holds them, since nobody else does.      *)
(***************************************************************************)

\* The print of the booking that a matched entry buys.
Offer(entry) == [employee |-> entry.matchedEmployee, service |-> entry.service,
                 start |-> entry.matchedStart, note |-> "Waitlist match"]

\* The client has an appointment that was booked with the print.
HasBooked(client, print) ==
  \E id \in Ids : appts[id] # None /\ appts[id].client = client /\ appts[id].print = print

\* An acceptance holds the matched entry of its client whose offer it books, or whose offer
\* is booked already.
HeldByAcceptance(t, e) ==
  /\ t.claimed = {e} /\ waitlist[e] # None
  /\ waitlist[e].client = t.req.actor /\ Matched(waitlist[e])
  /\ t.draft # None => t.draft.print = Offer(waitlist[e])
  /\ t.draft = None => HasBooked(t.req.actor, Offer(waitlist[e]))

\* The window of an entry has the slot that t releases.
Suits(t, e) ==
  /\ waitlist[e] # None /\ waitlist[e].service = t.seen.service
  /\ waitlist[e].from <= t.seen.start /\ t.seen.start < waitlist[e].until

HeldByRelease(t, e) == t.pc \in {"lock", "commit"} /\ Suits(t, e)

\* What a matched entry is offered lies beside the row that t changes, before and after.
Slot(entry) == [employee |-> entry.matchedEmployee, service |-> entry.service,
                start |-> entry.matchedStart, status |-> "BOOKED"]

Beside(t, e) ==
  Matched(waitlist[e]) =>
    ~Clash(Slot(waitlist[e]), t.seen) /\ ~Clash(Slot(waitlist[e]), t.draft)

\* The entries that a release has found and not locked yet may be matched meanwhile, but by
\* another release, of another slot.
Found(t, e) == Suits(t, e) /\ Beside(t, e)

Held(t) ==
  /\ \A e \in t.claimed : IF t.req.kind = "accept" THEN HeldByAcceptance(t, e)
                                                   ELSE HeldByRelease(t, e)
  /\ t.pc = "lock" => \A e \in t.wanted : Found(t, e)
  /\ t.pc \notin {"idle", "received"} /\ t.req.kind = "accept" => t.claimed # {}
  /\ t.pc # "idle" /\ t.req.kind = "create" => t.draft.print.note = "own"
  /\ t.pc \notin {"idle", "received"} /\ t.req.kind = "reschedule" => t.draft.start # t.seen.start

\* No entry is held twice.
HeldOnce == \A r, s \in Requests : r # s => tx[r].claimed \cap tx[s].claimed = {}

EntriesHeld == HeldOnce /\ \A r \in Requests : Held(tx[r])

-----------------------------------------------------------------------------
(***************************************************************************)
(* The entries stay held.                                                  *)
(***************************************************************************)

\* A step that changes only one transaction.
LEMMA LocalHeld ==
  ASSUME TypeOK, EntriesHeld, NEW r \in Requests, NEW t,
         tx' = [tx EXCEPT ![r] = t], UNCHANGED <<appts, waitlist>>,
         Held(t), \A s \in Requests \ {r} : t.claimed \cap tx[s].claimed = {}
  PROVE  EntriesHeld'
<1>1. \A s \in Requests : tx'[s] = IF s = r THEN t ELSE tx[s]
  BY DEF TypeOK
<1>2. ASSUME NEW s \in Requests
      PROVE  Held(tx[s])'
  <2>1. Held(tx'[s])
    BY <1>1 DEF EntriesHeld
  <2> QED
    BY <2>1 DEF Held, HeldByAcceptance, HeldByRelease, HasBooked, Suits, Found, Beside
<1>3. HeldOnce'
  BY <1>1 DEF EntriesHeld, HeldOnce
<1> QED
  BY <1>2, <1>3 DEF EntriesHeld

\* A transaction that ends holds nothing.
LEMMA AnswerHeld ==
  ASSUME TypeOK, EntriesHeld, NEW r \in Requests, NEW code, Answer(r, code)
  PROVE  EntriesHeld'
<1>1. Held(Idle) /\ Idle.claimed = {}
  BY DEF Idle, Held
<1> QED
  BY <1>1, LocalHeld DEF Answer

\* A transaction that goes on with the entries it has, or with free ones.
LEMMA ProceedHeld ==
  ASSUME TypeOK, EntriesHeld, NEW r \in Requests, NEW t, Proceed(r, t), Held(t),
         \A s \in Requests \ {r} : t.claimed \cap tx[s].claimed = {}
  PROVE  EntriesHeld'
  BY LocalHeld DEF Proceed

\* A booking that goes on to its next statement keeps what it holds, and so does a change that
\* holds nothing yet.
LEMMA NextStatement ==
  ASSUME TypeOK, Consistent, EntriesHeld, NEW r \in Requests,
         tx[r].pc \in {"key", "validate", "flush", "exclude"},
         NEW pc \in {"validate", "flush", "exclude", "match", "commit"},
         Proceed(r, [tx[r] EXCEPT !.pc = pc])
  PROVE  EntriesHeld'
<1> DEFINE t == [tx[r] EXCEPT !.pc = pc]
<1>1. /\ t.pc = pc /\ t.req = tx[r].req /\ t.draft = tx[r].draft /\ t.seen = tx[r].seen
      /\ t.claimed = tx[r].claimed
  BY DEF TypeOK, Tx
<1>2. Held(tx[r]) /\ Form(tx[r])
  BY Before DEF EntriesHeld
<1>3. tx[r].req.kind # "accept" => tx[r].claimed = {}
  BY <1>2 DEF Form, BookingForm, ChangeForm, Books, Request, CreateRequest, AcceptRequest,
              CancelRequest, RescheduleRequest, StatusRequest
<1> HIDE DEF t
<1>4. Held(t)
  BY <1>1, <1>2, <1>3 DEF Held, HeldByAcceptance
<1>5. \A s \in Requests \ {r} : t.claimed \cap tx[s].claimed = {}
  BY <1>1 DEF EntriesHeld, HeldOnce
<1> QED
  BY <1>4, <1>5, ProceedHeld DEF t

\* A request arrives with nothing.
LEMMA SubmitHeld ==
  ASSUME TypeOK, EntriesHeld, NEW r \in Requests, Submit(r)
  PROVE  EntriesHeld'
<1>1. PICK q \in Inputs :
       CASE q.kind = "create" ->
              \E id \in Ids :
                /\ Fresh(id)
                /\ Proceed(r, [Idle EXCEPT !.pc = "key", !.req = q, !.target = id,
                     !.draft = NewRow(q.actor, q.employee, q.service, q.start, q.key, "own")])
         [] q.kind = "accept" ->
              \E id \in Ids :
                /\ Fresh(id)
                /\ Proceed(r, [Idle EXCEPT !.pc = "received", !.req = q, !.target = id])
         [] OTHER ->
              /\ q.kind = "reschedule" => Len(MovesOf(q.id)) < MaxMoves
              /\ Proceed(r, [Idle EXCEPT !.pc = "received", !.req = q])
  BY DEF Submit
<1>2. CASE q.kind = "create"
  <2>1. PICK id \in Ids :
          Proceed(r, [Idle EXCEPT !.pc = "key", !.req = q, !.target = id,
                     !.draft = NewRow(q.actor, q.employee, q.service, q.start, q.key, "own")])
    BY <1>1, <1>2
  <2> DEFINE row == NewRow(q.actor, q.employee, q.service, q.start, q.key, "own")
             t == [Idle EXCEPT !.pc = "key", !.req = q, !.target = id, !.draft = row]
  <2>2. row.print.note = "own"
    BY DEF NewRow
  <2> HIDE DEF row
  <2>3. t.pc = "key" /\ t.req = q /\ t.draft = row /\ t.claimed = {}
    BY DEF Idle
  <2> HIDE DEF t
  <2>4. Held(t)
    BY <1>2, <2>2, <2>3 DEF Held
  <2> QED
    BY <2>1, <2>3, <2>4, ProceedHeld DEF t, row
<1>3. CASE q.kind # "create"
  <2>1. PICK t : Proceed(r, t) /\ t.pc = "received" /\ t.req = q /\ t.claimed = {}
    <3>1. CASE q.kind = "accept"
      <4>1. PICK id \in Ids :
              Proceed(r, [Idle EXCEPT !.pc = "received", !.req = q, !.target = id])
        BY <1>1, <3>1
      <4> DEFINE u == [Idle EXCEPT !.pc = "received", !.req = q, !.target = id]
      <4>2. u.pc = "received" /\ u.req = q /\ u.claimed = {}
        BY DEF Idle
      <4> HIDE DEF u
      <4> QED
        BY <4>1, <4>2 DEF u
    <3>2. CASE q.kind # "accept"
      <4> DEFINE u == [Idle EXCEPT !.pc = "received", !.req = q]
      <4>1. Proceed(r, u)
        BY <1>1, <1>3, <3>2
      <4>2. u.pc = "received" /\ u.req = q /\ u.claimed = {}
        BY DEF Idle
      <4> HIDE DEF u
      <4> QED
        BY <4>1, <4>2
    <3> QED
      BY <3>1, <3>2
  <2>2. Held(t)
    BY <1>3, <2>1 DEF Held
  <2> QED
    BY <2>1, <2>2, ProceedHeld
<1> QED
  BY <1>2, <1>3

\* accept_waitlist takes hold of a free entry that is matched.
LEMMA LockEntryHeld ==
  ASSUME TypeOK, Consistent, EntriesHeld, NEW r \in Requests, LockEntry(r)
  PROVE  EntriesHeld'
<1> DEFINE q == tx[r].req
           entry == waitlist[q.entry]
           row == NewRow(q.actor, entry.matchedEmployee, entry.service, entry.matchedStart,
                         q.key, "Waitlist match")
           t == [tx[r] EXCEPT !.pc = "key", !.claimed = {q.entry}, !.draft = row]
<1>1. CASE \E code \in Codes : Answer(r, code)
  BY <1>1, AnswerHeld
<1>2. CASE /\ entry # None /\ entry.client = q.actor /\ EntryFree(r, q.entry) /\ Matched(entry)
           /\ Proceed(r, t)
  <2>1. t.pc = "key" /\ t.req = q /\ t.draft = row /\ t.claimed = {q.entry}
    BY DEF TypeOK, Tx
  <2>2. row.print = Offer(entry)
    BY DEF NewRow, Offer
  <2>3. row # None /\ q.kind = "accept"
    <3>1. q.kind = "accept" /\ q \in Request
      BY Before DEF LockEntry, Form
    <3>2. q \in AcceptRequest
      BY <3>1 DEF Request, CreateRequest, AcceptRequest, CancelRequest, RescheduleRequest,
                  StatusRequest
    <3>3. entry \in Entry /\ q.actor \in Clients /\ q.key \in Keys
      BY <1>2, <3>2 DEF AcceptRequest, TypeOK
    <3>4. entry.matchedEmployee \in Employees /\ entry.matchedStart \in Times
          /\ entry.service \in Services
      BY <1>2, <3>3 DEF Entry, Matched
    <3> QED
      BY <3>1, <3>3, <3>4, NewRowType, NoneAssumption DEF Notes
  <2> HIDE DEF row, t
  <2>4. Held(t)
    BY <1>2, <2>1, <2>2, <2>3 DEF Held, HeldByAcceptance
  <2>5. \A s \in Requests \ {r} : t.claimed \cap tx[s].claimed = {}
    BY <1>2, <2>1 DEF EntryFree, HoldsEntry
  <2> QED
    BY <1>2, <2>4, <2>5, ProceedHeld
<1> QED
  BY <1>1, <1>2 DEF LockEntry, Codes

\* create: a replayed acceptance goes on without a draft, its booking being there.
LEMMA LookupHeld ==
  ASSUME TypeOK, Consistent, EntriesHeld, NEW r \in Requests, Lookup(r)
  PROVE  EntriesHeld'
<1> DEFINE q == tx[r].req
           draft == tx[r].draft
           twins == {id \in Ids : appts[id] # None /\ appts[id].client = q.actor
                                                   /\ appts[id].key = q.key}
           t == [tx[r] EXCEPT !.pc = "commit", !.draft = None]
<1>1. CASE \E code \in Codes : Answer(r, code)
  BY <1>1, AnswerHeld
<1>2. CASE Proceed(r, [tx[r] EXCEPT !.pc = "validate"])
  BY <1>2, NextStatement DEF Lookup
<1>3. CASE /\ \E id \in twins : appts[id].print = draft.print
           /\ q.kind = "accept"
           /\ Proceed(r, t)
  <2>1. t.pc = "commit" /\ t.req = q /\ t.draft = None /\ t.claimed = tx[r].claimed
    BY DEF TypeOK, Tx
  <2>2. Held(tx[r]) /\ tx[r].pc = "key"
    BY DEF EntriesHeld, Lookup
  <2>3. draft # None
    BY <1>3, <2>2, Before DEF Form, BookingForm, Books
  <2> HIDE DEF t
  <2>4. \A e \in tx[r].claimed : HasBooked(q.actor, Offer(waitlist[e]))
    BY <1>3, <2>2, <2>3 DEF Held, HeldByAcceptance, HasBooked
  <2>5. Held(t)
    BY <1>3, <2>1, <2>2, <2>4 DEF Held, HeldByAcceptance
  <2>6. \A s \in Requests \ {r} : t.claimed \cap tx[s].claimed = {}
    BY <2>1 DEF EntriesHeld, HeldOnce
  <2> QED
    BY <1>3, <2>5, <2>6, ProceedHeld
<1> QED
  BY <1>1, <1>2, <1>3 DEF Lookup, Codes

\* reschedule locks a row; the new start is another.
LEMMA LoadMoveHeld ==
  ASSUME TypeOK, Consistent, EntriesHeld, NEW r \in Requests, LoadMove(r)
  PROVE  EntriesHeld'
<1> DEFINE q == tx[r].req
           row == appts[q.id]
           draft == [row EXCEPT !.start = q.start]
           t == [tx[r] EXCEPT !.pc = "validate", !.target = q.id, !.seen = row, !.draft = draft]
<1>1. CASE \E code \in Codes : Answer(r, code)
  BY <1>1, AnswerHeld
<1>2. CASE row # None /\ q.start # row.start /\ Proceed(r, t)
  <2>1. q.kind = "reschedule" /\ tx[r].claimed = {} /\ q \in Request
    BY Before DEF LoadMove, Form, ReceivedForm
  <2>2. row \in Row
    BY <1>2, <2>1 DEF TypeOK, Request, CreateRequest, AcceptRequest, CancelRequest,
                      RescheduleRequest, StatusRequest
  <2>3. draft.start = q.start
    BY <2>2 DEF Row
  <2> HIDE DEF draft
  <2>4. /\ t.pc = "validate" /\ t.req = q /\ t.draft = draft /\ t.seen = row
        /\ t.claimed = {}
    BY <2>1 DEF TypeOK, Tx
  <2> HIDE DEF t
  <2>5. Held(t)
    BY <1>2, <2>1, <2>3, <2>4 DEF Held
  <2> QED
    BY <1>2, <2>4, <2>5, ProceedHeld
<1> QED
  BY <1>1, <1>2 DEF LoadMove, Codes

\* cancel and change_status lock a row, and no entry yet.
LEMMA LoadChangeHeld ==
  ASSUME TypeOK, Consistent, EntriesHeld, NEW r \in Requests, Cancel(r) \/ ChangeStatus(r)
  PROVE  EntriesHeld'
<1>1. CASE \E code \in Codes : Answer(r, code)
  BY <1>1, AnswerHeld
<1>2. ASSUME NEW pc \in {"match", "exclude"}, NEW row, NEW draft,
             Proceed(r, [tx[r] EXCEPT !.pc = pc, !.target = tx[r].req.id, !.seen = row,
                                      !.draft = draft])
      PROVE  EntriesHeld'
  <2> DEFINE t == [tx[r] EXCEPT !.pc = pc, !.target = tx[r].req.id, !.seen = row,
                                !.draft = draft]
  <2>1. tx[r].req.kind \in {"cancel", "status"} /\ tx[r].claimed = {}
    BY Before DEF Cancel, ChangeStatus, Form, ReceivedForm
  <2>2. t.pc = pc /\ t.req = tx[r].req /\ t.claimed = {}
    BY <2>1 DEF TypeOK, Tx
  <2> HIDE DEF t
  <2>3. Held(t)
    BY <1>2, <2>1, <2>2 DEF Held
  <2> QED
    BY <1>2, <2>2, <2>3, ProceedHeld DEF t
<1>3. CASE Cancel(r)
  <2>1. \/ \E code \in Codes : Answer(r, code)
        \/ Proceed(r, [tx[r] EXCEPT !.pc = "match", !.target = tx[r].req.id,
                         !.seen = appts[tx[r].req.id],
                         !.draft = [appts[tx[r].req.id] EXCEPT !.status = "CANCELLED"]])
    BY <1>3 DEF Cancel, Codes
  <2> QED
    BY <1>1, <1>2, <2>1
<1>4. CASE ChangeStatus(r)
  <2>1. \/ \E code \in Codes : Answer(r, code)
        \/ Proceed(r, [tx[r] EXCEPT !.pc = "exclude", !.target = tx[r].req.id,
                         !.seen = appts[tx[r].req.id],
                         !.draft = [appts[tx[r].req.id] EXCEPT !.status = tx[r].req.to]])
    BY <1>4 DEF ChangeStatus, Codes
  <2> QED
    BY <1>1, <1>2, <2>1
<1> QED
  BY <1>3, <1>4

\* match_released_slot finds entries that wait for the slot.
LEMMA MatchHeld ==
  ASSUME TypeOK, Consistent, EntriesHeld, NEW r \in Requests, Match(r)
  PROVE  EntriesHeld'
<1> DEFINE seen == tx[r].seen
           candidates == Candidates(seen)
           t == [tx[r] EXCEPT !.pc = "lock", !.wanted = candidates]
<1>1. /\ t.pc = "lock" /\ t.req = tx[r].req /\ t.draft = tx[r].draft /\ t.seen = seen
      /\ t.wanted = candidates /\ t.claimed = tx[r].claimed
  BY DEF TypeOK, Tx
<1>2. tx[r].pc = "match" /\ Proceed(r, t)
  BY DEF Match
<1>3. tx[r].req.kind \in {"cancel", "reschedule"} /\ tx[r].claimed = {} /\ Held(tx[r])
  BY <1>2, Before DEF EntriesHeld, Form, BookingForm, ChangeForm
<1>4. \A e \in candidates : waitlist[e].status = "WAITING" /\ Suits(t, e)
  BY <1>1 DEF Candidates, Suits
<1> HIDE DEF t, candidates
<1>5. \A e \in t.wanted : Found(t, e)
  BY <1>1, <1>4 DEF Found, Beside, Matched
<1>6. Held(t)
  BY <1>1, <1>2, <1>3, <1>5 DEF Held
<1>7. \A s \in Requests \ {r} : t.claimed \cap tx[s].claimed = {}
  BY <1>1, <1>3
<1> QED
  BY <1>2, <1>6, <1>7, ProceedHeld

\* It takes hold of one that is free, or goes on with those it has.
LEMMA LockMatchesHeld ==
  ASSUME TypeOK, Consistent, EntriesHeld, NEW r \in Requests, LockMatches(r)
  PROVE  EntriesHeld'
<1>1. tx[r].pc = "lock" /\ Held(tx[r])
  BY DEF LockMatches, EntriesHeld
<1>2. tx[r].req.kind \in {"cancel", "reschedule"}
  BY <1>1, Before DEF Form, BookingForm, ChangeForm
<1>3. ASSUME NEW e \in tx[r].wanted, EntryFree(r, e),
             Proceed(r, [tx[r] EXCEPT !.wanted = @ \ {e}, !.claimed = @ \cup {e}])
      PROVE  EntriesHeld'
  <2> DEFINE t == [tx[r] EXCEPT !.wanted = @ \ {e}, !.claimed = @ \cup {e}]
  <2>1. /\ t.pc = "lock" /\ t.req = tx[r].req /\ t.draft = tx[r].draft
        /\ t.seen = tx[r].seen /\ t.wanted = tx[r].wanted \ {e}
        /\ t.claimed = tx[r].claimed \cup {e}
    BY <1>1 DEF TypeOK, Tx
  <2> HIDE DEF t
  <2>2. \A f \in t.wanted : Found(t, f)
    BY <1>1, <2>1 DEF Held, Found, Suits, Beside
  <2>3. \A f \in t.claimed : HeldByRelease(t, f)
    BY <1>1, <1>2, <1>3, <2>1 DEF Held, HeldByRelease, Found, Suits
  <2>4. Held(t)
    BY <1>1, <1>2, <2>1, <2>2, <2>3 DEF Held
  <2>5. \A s \in Requests \ {r} : t.claimed \cap tx[s].claimed = {}
    BY <1>3, <2>1 DEF EntryFree, HoldsEntry, EntriesHeld, HeldOnce
  <2> QED
    BY <1>3, <2>4, <2>5, ProceedHeld DEF t
<1>4. CASE Proceed(r, [tx[r] EXCEPT !.pc = "commit"])
  <2> DEFINE t == [tx[r] EXCEPT !.pc = "commit"]
  <2>1. /\ t.pc = "commit" /\ t.req = tx[r].req /\ t.draft = tx[r].draft
        /\ t.seen = tx[r].seen /\ t.claimed = tx[r].claimed
    BY DEF TypeOK, Tx
  <2> HIDE DEF t
  <2>2. Held(t)
    BY <1>1, <1>2, <2>1 DEF Held, HeldByRelease, Suits
  <2>3. \A s \in Requests \ {r} : t.claimed \cap tx[s].claimed = {}
    BY <2>1 DEF EntriesHeld, HeldOnce
  <2> QED
    BY <1>4, <2>2, <2>3, ProceedHeld DEF t
<1> QED
  BY <1>3, <1>4 DEF LockMatches

\* A commit keeps whose appointments there are, and how they were booked.
LEMMA CommitKeepsBookings ==
  ASSUME TypeOK, Consistent, NEW r \in Requests, Commit(r), NEW id \in Ids, appts[id] # None
  PROVE  /\ appts'[id] # None /\ appts'[id].client = appts[id].client
         /\ appts'[id].print = appts[id].print
<1> DEFINE t == tx[r]
<1>1. t.pc = "commit" /\ t.target \in Ids
  BY CommitForm DEF Commit
<1>2. appts'[id] = IF t.draft # None /\ id = t.target THEN t.draft ELSE appts[id]
  BY DEF Commit, TypeOK
<1>3. CASE t.draft # None /\ id = t.target
  <2>1. ~Books(t.req)
    BY <1>1, <1>3, CommitForm, Before, NoneAssumption DEF BookingForm, FitsTables
  <2>2. /\ appts[id] \in Row
        /\ \/ \E start \in Times : t.draft = [appts[id] EXCEPT !.start = start]
           \/ \E status \in Allowed[appts[id].status] :
                t.draft = [appts[id] EXCEPT !.status = status]
    BY <1>1, <1>3, <2>1, CommitsOneOperation
  <2> QED
    BY <1>2, <1>3, <2>2 DEF Row
<1> QED
  BY <1>2, <1>3

\* What a transaction that commits a release leaves behind: an occupied slot, for another one
\* or for none.
LEMMA Releases ==
  ASSUME TypeOK, Consistent, EntriesHeld, NEW r \in Requests, Commit(r),
         tx[r].req.kind # "accept", tx[r].claimed # {}
  PROVE  LET t == tx[r]
         IN /\ t.target \in Ids /\ t.seen \in Row /\ appts[t.target] = t.seen
            /\ Occupies(t.seen) /\ appts'[t.target] = t.draft
            /\ Occupies(t.draft) => t.draft.start # t.seen.start
<1> DEFINE t == tx[r]
<1>1. t.pc = "commit" /\ t.target \in Ids /\ t.req \in Request
  BY CommitForm DEF Commit
<1>2. t.req.kind # "create"
  BY <1>1, CommitForm DEF BookingForm, Books
<1>3. ChangeForm(t) /\ t.seen \in Row /\ t.draft # None
  BY <1>1, <1>2, CommitForm DEF Books, ChangeForm
<1>4. appts[t.target] = t.seen
  BY <1>1, <1>3, Before, NoneAssumption DEF FitsTables
<1>5. appts'[t.target] = t.draft
  BY <1>1, <1>3 DEF Commit, TypeOK
<1>6. CASE t.req.kind = "reschedule"
  <2>1. t.draft.start # t.seen.start
    BY <1>1, <1>6 DEF EntriesHeld, Held
  <2> QED
    BY <1>1, <1>3, <1>4, <1>5, <1>6, <2>1 DEF ChangeForm, Occupies, Occupying
<1>7. CASE t.req.kind = "cancel"
  <2>1. t.seen.status \in {"BOOKED", "CONFIRMED"}
    BY <1>3, <1>7 DEF ChangeForm, Allowed, Row, Statuses
  <2>2. t.draft.status = "CANCELLED"
    BY <1>3, <1>7 DEF ChangeForm, Row
  <2> QED
    BY <1>1, <1>3, <1>4, <1>5, <2>1, <2>2 DEF Occupies, Occupying
<1> QED
  BY <1>2, <1>3, <1>6, <1>7 DEF ChangeForm

\* A commit changes an entry only as a release matches it, or an acceptance accepts it.
LEMMA CommitResolves ==
  ASSUME TypeOK, Consistent, EntriesHeld, NEW r \in Requests, Commit(r), NEW e \in Entries,
         waitlist[e] # None
  PROVE  /\ waitlist'[e] # None /\ waitlist'[e].service = waitlist[e].service
         /\ waitlist'[e].from = waitlist[e].from /\ waitlist'[e].until = waitlist[e].until
         /\ waitlist'[e] # waitlist[e] =>
              \/ waitlist'[e].status = "ACCEPTED"
              \/ /\ e \in tx[r].claimed /\ tx[r].req.kind # "accept"
                 /\ waitlist'[e].matchedEmployee = tx[r].seen.employee
                 /\ waitlist'[e].matchedStart = tx[r].seen.start
                 /\ waitlist[e].service = tx[r].seen.service
<1> DEFINE t == tx[r]
           old == waitlist[e]
<1>1. /\ waitlist'[e] = IF e \in t.claimed THEN Resolved(old, t) ELSE old
      /\ t.pc = "commit"
  BY DEF Commit
<1>2. old \in Entry /\ (e \in t.claimed => Resolved(old, t) \in Entry)
  BY <1>1, ResolvedType DEF TypeOK
<1>3. old # None /\ (e \in t.claimed => Resolved(old, t) # None)
  BY <1>2, NullAssumption
<1>4. CASE t.req.kind = "accept"
  BY <1>1, <1>2, <1>3, <1>4 DEF Resolved, Entry
<1>5. CASE t.req.kind # "accept" /\ e \in t.claimed
  <2>1. old.service = t.seen.service
    BY <1>5 DEF EntriesHeld, Held, HeldByRelease, Suits
  <2> QED
    BY <1>1, <1>2, <1>3, <1>5, <2>1 DEF Resolved, Entry
<1> QED
  BY <1>1, <1>3, <1>4, <1>5

\* What a release matches an entry to lies beside the rows that others change.
LEMMA StillFound ==
  ASSUME TypeOK, Consistent, EntriesHeld, NEW r \in Requests, Commit(r),
         NEW s \in Requests \ {r}, tx[s].pc = "lock", NEW e \in tx[s].wanted
  PROVE  Suits(tx[s], e)' /\ Beside(tx[s], e)'
<1> DEFINE t == tx[r]
           u == tx[s]
           new == waitlist'[e]
<1>1. tx'[s] = u
  BY DEF Commit, TypeOK
<1>2. Suits(u, e) /\ Beside(u, e) /\ e \in Entries
  BY DEF EntriesHeld, Held, Found, TypeOK, Tx
<1>3. Suits(u, e)'
  BY <1>1, <1>2, CommitResolves DEF Suits
<1>4. CASE new = waitlist[e] \/ new.status = "ACCEPTED"
  BY <1>1, <1>2, <1>3, <1>4 DEF Beside, Matched
<1>5. CASE /\ e \in t.claimed /\ t.req.kind # "accept"
           /\ new.matchedEmployee = t.seen.employee /\ new.matchedStart = t.seen.start
           /\ new.service = t.seen.service
  <2>1. /\ t.target \in Ids /\ t.seen \in Row /\ appts[t.target] = t.seen
        /\ Occupies(t.seen)
    BY <1>5, Releases
  <2>2. u.target \in Ids /\ u.seen # None /\ u.draft # None /\ Passed(u)
    <3>1. Form(u) /\ u \in Tx
      BY Before
    <3>2. ChangeForm(u)
      BY <3>1 DEF Form, BookingForm
    <3> QED
      BY <3>1, <3>2, NoneAssumption DEF Tx, ChangeForm, Passed, Form, Request, CreateRequest,
         AcceptRequest, CancelRequest, RescheduleRequest, StatusRequest
  <2>3. u.target # t.target /\ appts[u.target] = u.seen
    BY <2>1, <2>2, Before, NoneAssumption DEF Apart, FitsTables
  <2>4. ~Clash(t.seen, u.draft)
    BY <2>1, <2>2, <2>3, Before, NoneAssumption DEF FitsTables, Taken
  <2>5. ~Clash(t.seen, u.seen)
    BY <2>1, <2>2, <2>3, NoneAssumption DEF Consistent, NoDoubleBooking
  <2>6. \A row : Clash(Slot(new), row) => Clash(t.seen, row)
    BY <1>5, <2>1 DEF Slot, Clash, Overlap, End
  <2> QED
    BY <1>1, <1>3, <2>4, <2>5, <2>6 DEF Beside
<1> QED
  BY <1>2, <1>4, <1>5, CommitResolves DEF Suits

\* A commit leaves the entries that others hold.
LEMMA CommitHeld ==
  ASSUME TypeOK, Consistent, EntriesHeld, NEW r \in Requests, Commit(r)
  PROVE  EntriesHeld'
<1>1. \A s \in Requests : tx'[s] = IF s = r THEN Idle ELSE tx[s]
  BY DEF Commit, TypeOK
<1>2. ASSUME NEW s \in Requests \ {r}, NEW e \in tx[s].claimed
      PROVE  waitlist'[e] = waitlist[e]
  <2>1. e \in Entries /\ e \notin tx[r].claimed
    BY <1>2 DEF TypeOK, Tx, EntriesHeld, HeldOnce
  <2> QED
    BY <2>1 DEF Commit
<1>3. \A client, print : HasBooked(client, print) => HasBooked(client, print)'
  BY CommitKeepsBookings DEF HasBooked
<1>4. ASSUME NEW s \in Requests
      PROVE  Held(tx[s])'
  <2>1. CASE s = r
    BY <1>1, <2>1 DEF Held, Idle
  <2>2. CASE s # r
    <3>1. Held(tx[s]) /\ tx'[s] = tx[s]
      BY <1>1, <2>2 DEF EntriesHeld
    <3>2. ASSUME NEW e \in tx[s].claimed, tx[s].req.kind = "accept"
          PROVE  HeldByAcceptance(tx[s], e)'
      <4>1. HeldByAcceptance(tx[s], e) /\ waitlist'[e] = waitlist[e]
        BY <1>2, <2>2, <3>1, <3>2 DEF Held
      <4> QED
        BY <1>3, <3>1, <4>1 DEF HeldByAcceptance
    <3>3. ASSUME NEW e \in tx[s].claimed, tx[s].req.kind # "accept"
          PROVE  HeldByRelease(tx[s], e)'
      <4>1. HeldByRelease(tx[s], e) /\ waitlist'[e] = waitlist[e]
        BY <1>2, <2>2, <3>1, <3>3 DEF Held
      <4> QED
        BY <3>1, <4>1 DEF HeldByRelease, Suits
    <3>4. ASSUME tx[s].pc = "lock", NEW e \in tx[s].wanted
          PROVE  Found(tx[s], e)'
      BY <2>2, <3>4, StillFound DEF Found
    <3> QED
      BY <3>1, <3>2, <3>3, <3>4 DEF Held
  <2> QED
    BY <2>1, <2>2
<1>5. HeldOnce'
  BY <1>1 DEF EntriesHeld, HeldOnce, Idle
<1> QED
  BY <1>4, <1>5 DEF EntriesHeld

\* A new entry was held by nobody.
LEMMA JoinHeld ==
  ASSUME TypeOK, EntriesHeld, Join
  PROVE  EntriesHeld'
<1>1. PICK e \in Entries : /\ waitlist[e] = None
                           /\ \A f \in Entries \ {e} : waitlist'[f] = waitlist[f]
  BY DEF Join, TypeOK
<1>2. UNCHANGED <<appts, tx>>
  BY DEF Join
<1>3. ASSUME NEW s \in Requests
      PROVE  Held(tx[s])'
  <2> DEFINE own == tx[s].claimed \cup IF tx[s].pc = "lock" THEN tx[s].wanted ELSE {}
  <2>1. \A f \in own : f \in Entries /\ waitlist[f] # None
    BY DEF EntriesHeld, Held, HeldByAcceptance, HeldByRelease, Found, Suits, TypeOK, Tx
  <2>2. \A f \in own : waitlist'[f] = waitlist[f]
    BY <1>1, <2>1
  <2> QED
    BY <1>2, <2>2 DEF EntriesHeld, Held, HeldByAcceptance, HeldByRelease, HasBooked, Found,
                      Suits, Beside
<1> QED
  BY <1>2, <1>3 DEF EntriesHeld, HeldOnce

\* Whatever happens, entries stay held.
LEMMA StillHeld ==
  ASSUME TypeOK, Consistent, EntriesHeld, [Next]_vars
  PROVE  EntriesHeld'
<1>1. ASSUME NEW r \in Requests, Submit(r) \/ Handle(r) \/ Fail(r)
      PROVE  EntriesHeld'
  <2>1. CASE Submit(r)
    BY <2>1, SubmitHeld
  <2>2. CASE LockEntry(r)
    BY <2>2, LockEntryHeld
  <2>3. CASE Lookup(r)
    BY <2>3, LookupHeld
  <2>4. CASE LoadMove(r)
    BY <2>4, LoadMoveHeld
  <2>5. CASE Validate(r)
    <3>1. CASE Answer(r, 409)
      BY <3>1, AnswerHeld
    <3>2. CASE Proceed(r, [tx[r] EXCEPT !.pc = "flush"])
      BY <2>5, <3>2, NextStatement DEF Validate
    <3> QED
      BY <2>5, <3>1, <3>2 DEF Validate
  <2>6. CASE Flush(r)
    BY <2>6, NextStatement DEF Flush
  <2>12. CASE Exclude(r)
    <3>1. CASE Answer(r, 409)
      BY <3>1, AnswerHeld
    <3>2. CASE Proceed(r, [tx[r] EXCEPT !.pc = AfterExclude(tx[r].req)])
      BY <2>12, <3>2, NextStatement DEF Exclude, AfterExclude
    <3> QED
      BY <2>12, <3>1, <3>2 DEF Exclude
  <2>7. CASE Cancel(r) \/ ChangeStatus(r)
    BY <2>7, LoadChangeHeld
  <2>8. CASE Match(r)
    BY <2>8, MatchHeld
  <2>11. CASE LockMatches(r)
    BY <2>11, LockMatchesHeld
  <2>9. CASE Commit(r)
    BY <2>9, CommitHeld
  <2>10. CASE Fail(r)
    BY <2>10, AnswerHeld DEF Fail
  <2> QED
    BY <1>1, <2>1, <2>2, <2>3, <2>4, <2>5, <2>6, <2>7, <2>8, <2>9, <2>10,
       <2>11, <2>12 DEF Handle
<1>2. CASE Join
  BY <1>2, JoinHeld
<1>3. CASE Tick \/ UNCHANGED vars
  <2>1. UNCHANGED <<appts, waitlist, tx>>
    BY <1>3 DEF Tick, vars
  <2> QED
    BY <2>1 DEF EntriesHeld, HeldOnce, Held, HeldByAcceptance, HeldByRelease, HasBooked, Found,
                Suits, Beside
<1> QED
  BY <1>1, <1>2, <1>3 DEF Next

LEMMA InitiallyHeld == Init => EntriesHeld
  BY DEF Init, Idle, EntriesHeld, HeldOnce, Held

-----------------------------------------------------------------------------
(***************************************************************************)
(* The properties.                                                         *)
(***************************************************************************)

\* The clients' entries and rows are the tables: what changes them is a commit or a new entry.
LEMMA OnlyCommitOrJoin ==
  ASSUME [Next]_vars, <<appts, waitlist>>' # <<appts, waitlist>>
  PROVE  Join \/ \E r \in Requests : Commit(r)
<1> DEFINE both == <<appts, waitlist>>
<1>1. /\ \A r \in Requests : \A t : Proceed(r, t) => both' = both
      /\ \A r \in Requests : \A code : Answer(r, code) => both' = both
  BY DEF Proceed, Answer
<1> HIDE DEF both
<1>2. ASSUME NEW r \in Requests
      PROVE  /\ Submit(r) => both' = both
             /\ LockEntry(r) => both' = both
             /\ Lookup(r) => both' = both
             /\ LoadMove(r) => both' = both
             /\ Validate(r) \/ Flush(r) \/ Exclude(r) => both' = both
             /\ Cancel(r) \/ ChangeStatus(r) => both' = both
             /\ Match(r) \/ LockMatches(r) \/ Fail(r) => both' = both
  <2>1. Submit(r) => both' = both
    BY <1>1 DEF Submit
  <2>2. LockEntry(r) => both' = both
    BY <1>1 DEF LockEntry
  <2>3. Lookup(r) => both' = both
    BY <1>1 DEF Lookup
  <2>4. LoadMove(r) => both' = both
    BY <1>1 DEF LoadMove
  <2>5. Validate(r) \/ Flush(r) \/ Exclude(r) => both' = both
    BY <1>1 DEF Validate, Flush, Exclude
  <2>6. Cancel(r) \/ ChangeStatus(r) => both' = both
    BY <1>1 DEF Cancel, ChangeStatus
  <2>7. Match(r) \/ LockMatches(r) \/ Fail(r) => both' = both
    BY <1>1 DEF Match, LockMatches, Fail
  <2> QED
    BY <2>1, <2>2, <2>3, <2>4, <2>5, <2>6, <2>7
<1>3. Tick \/ UNCHANGED vars => both' = both
  BY DEF Tick, vars, both
<1>4. both' # both
  BY DEF both
<1> QED
  BY <1>2, <1>3, <1>4 DEF Next, Handle

\* What a step makes of the entry it matches, if it matches one.
MatchesReleased(e) ==
  (waitlist'[e] # None /\ waitlist'[e].status = "MATCHED" /\ waitlist'[e] # waitlist[e]) =>
    LET offer == waitlist'[e] IN
    /\ waitlist[e].status = "WAITING"
    /\ offer.from <= offer.matchedStart /\ offer.matchedStart < offer.until
    /\ offer.employee \in {None, offer.matchedEmployee}
    /\ \E id \in Ids :
         /\ appts[id] # None /\ Occupies(appts[id]) /\ appts[id].service = offer.service
         /\ appts[id].employee = offer.matchedEmployee
         /\ appts[id].start = offer.matchedStart
         /\ Occupies(appts'[id]) => appts'[id].start # offer.matchedStart

\* A step matches entries to nothing but what it releases.
LEMMA MatchStepIsRelease ==
  ASSUME TypeOK, Consistent, EntriesHeld, [Next]_vars, NEW e \in Entries
  PROVE  MatchesReleased(e)
<1>1. CASE Join
  BY <1>1, NoneAssumption DEF Join, MatchesReleased, TypeOK
<1>2. ASSUME NEW r \in Requests, Commit(r)
      PROVE  MatchesReleased(e)
  <2> DEFINE t == tx[r]
             old == waitlist[e]
             new == waitlist'[e]
  <2>1. new = IF e \in t.claimed THEN Resolved(old, t) ELSE old
    BY <1>2 DEF Commit
  <2>2. CASE e \notin t.claimed
    BY <2>1, <2>2 DEF MatchesReleased
  <2>3. CASE e \in t.claimed /\ t.req.kind = "accept"
    <3>1. old \in Entry
      BY <2>3 DEF EntriesHeld, Held, HeldByAcceptance, TypeOK
    <3>2. new.status = "ACCEPTED"
      BY <2>1, <2>3, <3>1 DEF Resolved, Entry
    <3> QED
      BY <3>2 DEF MatchesReleased
  <2>4. CASE e \in t.claimed /\ t.req.kind # "accept"
    <3>1. /\ HeldByRelease(t, e) /\ old \in Entry
      BY <2>4 DEF EntriesHeld, Held, HeldByRelease, Suits, TypeOK
    <3>2. CASE old.status # "WAITING" \/ old.employee \notin {None, t.seen.employee}
      BY <2>1, <2>4, <3>2 DEF Resolved, MatchesReleased
    <3>3. CASE old.status = "WAITING" /\ old.employee \in {None, t.seen.employee}
      <4>1. new = [old EXCEPT !.status = "MATCHED", !.matchedEmployee = t.seen.employee,
                              !.matchedStart = t.seen.start]
        BY <2>1, <2>4, <3>3 DEF Resolved
      <4>2. /\ new.matchedEmployee = t.seen.employee /\ new.matchedStart = t.seen.start
            /\ new.from = old.from /\ new.until = old.until /\ new.service = old.service
            /\ new.employee = old.employee
        BY <3>1, <4>1 DEF Entry
      <4>3. /\ t.target \in Ids /\ t.seen \in Row /\ appts[t.target] = t.seen
            /\ Occupies(t.seen) /\ appts'[t.target] = t.draft
            /\ Occupies(t.draft) => t.draft.start # t.seen.start
        BY <1>2, <2>4, Releases
      <4> HIDE DEF new
      <4>4. old.status = "WAITING" /\ new.from <= new.matchedStart /\ new.matchedStart < new.until
        BY <3>1, <3>3, <4>2 DEF HeldByRelease, Suits
      <4>5. \E id \in Ids :
              /\ appts[id] # None /\ Occupies(appts[id]) /\ appts[id].service = new.service
              /\ appts[id].employee = new.matchedEmployee
              /\ appts[id].start = new.matchedStart
              /\ Occupies(appts'[id]) => appts'[id].start # new.matchedStart
        BY <3>1, <4>2, <4>3, NoneAssumption DEF HeldByRelease, Suits
      <4> QED
        BY <3>3, <4>2, <4>4, <4>5 DEF MatchesReleased, new
    <3> QED
      BY <3>2, <3>3
  <2> QED
    BY <2>2, <2>3, <2>4
<1>3. CASE UNCHANGED <<appts, waitlist>>
  BY <1>3 DEF MatchesReleased
<1> QED
  BY <1>1, <1>2, <1>3, OnlyCommitOrJoin

\* The invariant of this module, with that of BookingProofs.
LEMMA AlwaysHeld == Spec => [](TypeOK /\ Consistent /\ EntriesHeld)
<1>1. TypeOK /\ Consistent /\ EntriesHeld /\ [Next]_vars => EntriesHeld'
  BY StillHeld
<1> QED
  BY <1>1, InitiallyHeld, Invariance, PTL DEF Spec

\* An entry is matched exactly in the step in which an appointment leaves the slot it is
\* offered, however many releases and acceptances race for it.
THEOREM MatchedOnRelease == Spec => MatchOnlyOnRelease
<1> DEFINE Right ==
      \A e \in Entries :
        (waitlist'[e] # None /\ waitlist'[e].status = "MATCHED" /\ waitlist'[e] # waitlist[e]) =>
          LET offer == waitlist'[e] IN
          /\ waitlist[e].status = "WAITING"
          /\ offer.from <= offer.matchedStart /\ offer.matchedStart < offer.until
          /\ offer.employee \in {None, offer.matchedEmployee}
          /\ \E id \in Ids :
               /\ appts[id] # None /\ Occupies(appts[id]) /\ appts[id].service = offer.service
               /\ appts[id].employee = offer.matchedEmployee
               /\ appts[id].start = offer.matchedStart
               /\ Occupies(appts'[id]) => appts'[id].start # offer.matchedStart
<1>1. TypeOK /\ Consistent /\ EntriesHeld /\ [Next]_vars => Right
  <2>1. ASSUME TypeOK, Consistent, EntriesHeld, [Next]_vars
        PROVE  \A e \in Entries : MatchesReleased(e)
    BY <2>1, MatchStepIsRelease
  <2> QED
    BY <2>1 DEF MatchesReleased
<1> HIDE DEF Right
<1>2. [](TypeOK /\ Consistent /\ EntriesHeld) /\ [][Next]_vars => [][Right]_vars
  BY <1>1, PTL
<1>3. Spec => [][Right]_vars
  BY <1>2, AlwaysHeld, PTL DEF Spec
<1> QED
  BY <1>3 DEF Right, MatchOnlyOnRelease

\* The appointments a client booked with a print, and the entries it has spent on them.
Booked(client, print) ==
  {id \in Ids : /\ appts[id] # None /\ appts[id].client = client
                /\ appts[id].print = print}

SpentOn(entry, client, print) ==
  /\ entry # None /\ entry.status = "ACCEPTED"
  /\ entry.client = client /\ entry.service = print.service
  /\ entry.matchedEmployee = print.employee
  /\ entry.matchedStart = print.start

Spent(client, print) == {e \in Entries : SpentOn(waitlist[e], client, print)}

Proportionate(client, print) ==
  /\ IsFiniteSet(Booked(client, print)) /\ IsFiniteSet(Spent(client, print))
  /\ Cardinality(Booked(client, print)) <= Cardinality(Spent(client, print))
  /\ Spent(client, print) # {} => Booked(client, print) # {}

MatchPrints == {print \in Prints : print.note = "Waitlist match"}

AllProportionate == \A client \in Clients, print \in MatchPrints : Proportionate(client, print)

\* The same appointments and the same entries are as proportionate as before.
LEMMA SameIsProportionate ==
  ASSUME NEW client, NEW print, Proportionate(client, print),
         Booked(client, print)' = Booked(client, print), Spent(client, print)' = Spent(client, print)
  PROVE  Proportionate(client, print)'
  BY DEF Proportionate

\* An appointment more for an entry more.
LEMMA OneForOne ==
  ASSUME NEW client, NEW print, Proportionate(client, print), NEW id, NEW e,
         Booked(client, print)' = Booked(client, print) \cup {id}, id \notin Booked(client, print),
         Spent(client, print)' = Spent(client, print) \cup {e}, e \notin Spent(client, print)
  PROVE  Proportionate(client, print)'
<1> DEFINE b == Booked(client, print)
           s == Spent(client, print)
<1>1. IsFiniteSet(b) /\ IsFiniteSet(s) /\ Cardinality(b) <= Cardinality(s)
  BY DEF Proportionate
<1>2. Cardinality(b) \in Nat /\ Cardinality(s) \in Nat
  BY <1>1, FS_CardinalityType
<1>3. /\ IsFiniteSet(b \cup {id}) /\ Cardinality(b \cup {id}) = Cardinality(b) + 1
      /\ IsFiniteSet(s \cup {e}) /\ Cardinality(s \cup {e}) = Cardinality(s) + 1
  BY <1>1, FS_AddElement
<1> QED
  BY <1>1, <1>2, <1>3 DEF Proportionate

\* An entry more for an appointment that is there.
LEMMA SpentForNothing ==
  ASSUME NEW client, NEW print, Proportionate(client, print), NEW e,
         Booked(client, print)' = Booked(client, print), Booked(client, print) # {},
         Spent(client, print)' = Spent(client, print) \cup {e}, e \notin Spent(client, print)
  PROVE  Proportionate(client, print)'
<1> DEFINE s == Spent(client, print)
<1>1. IsFiniteSet(s) /\ Cardinality(Booked(client, print)) <= Cardinality(s)
      /\ IsFiniteSet(Booked(client, print))
  BY DEF Proportionate
<1>2. Cardinality(Booked(client, print)) \in Nat /\ Cardinality(s) \in Nat
  BY <1>1, FS_CardinalityType
<1>3. IsFiniteSet(s \cup {e}) /\ Cardinality(s \cup {e}) = Cardinality(s) + 1
  BY <1>1, FS_AddElement
<1> QED
  BY <1>1, <1>2, <1>3 DEF Proportionate

\* The appointments a commit adds to those booked with a print: its own new one, if that is it.
LEMMA CommitBooks ==
  ASSUME TypeOK, Consistent, NEW r \in Requests, Commit(r), NEW client, NEW print
  PROVE  LET t == tx[r]
             new == Books(t.req) /\ t.draft # None /\ t.req.actor = client
                      /\ t.draft.print = print
         IN /\ Booked(client, print)' = IF new THEN Booked(client, print) \cup {t.target}
                                                ELSE Booked(client, print)
            /\ new => t.target \notin Booked(client, print)
<1> DEFINE t == tx[r]
           new == Books(t.req) /\ t.draft # None /\ t.req.actor = client
                    /\ t.draft.print = print
<1>1. t.pc = "commit" /\ t.target \in Ids
  BY CommitForm DEF Commit
<1>2. \A id \in Ids : appts'[id] = IF t.draft # None /\ id = t.target THEN t.draft ELSE appts[id]
  BY DEF Commit, TypeOK
<1>3. CASE Books(t.req) /\ t.draft # None
  <2>1. BookingForm(t) /\ t.draft.client = t.req.actor
    BY <1>1, <1>3, CommitForm, BookingOwner
  <2>2. appts[t.target] = None
    BY <1>1, <2>1, Before, NoneAssumption DEF FitsTables, BookingForm
  <2> QED
    BY <1>1, <1>2, <1>3, <2>1, <2>2 DEF Booked
<1>4. CASE ~(Books(t.req) /\ t.draft # None)
  <2>1. \A id \in Ids : appts[id] = None => appts'[id] = None
    <3>1. ~Books(t.req) => appts[t.target] # None
      BY <1>1, ChangeKeepsOwner
    <3> QED
      BY <1>2, <1>4, <3>1
  <2>2. \A id \in Ids : appts[id] # None =>
          /\ appts'[id] # None /\ appts'[id].client = appts[id].client
          /\ appts'[id].print = appts[id].print
    BY CommitKeepsBookings
  <2> QED
    BY <1>4, <2>1, <2>2 DEF Booked
<1> QED
  BY <1>3, <1>4

\* A step keeps what the entries have bought in proportion.
LEMMA ProportionateStep ==
  ASSUME TypeOK, Consistent, EntriesHeld, AllProportionate, [Next]_vars
  PROVE  AllProportionate'
<1> SUFFICES ASSUME NEW client \in Clients, NEW print \in MatchPrints
             PROVE  Proportionate(client, print)'
  BY DEF AllProportionate
<1>1. Proportionate(client, print) /\ print \in Prints /\ print.note = "Waitlist match"
  BY DEF AllProportionate, MatchPrints
<1>2. CASE UNCHANGED <<appts, waitlist>>
  BY <1>1, <1>2, SameIsProportionate DEF Booked, Spent
<1>3. CASE Join
  <2>1. PICK e \in Entries : /\ waitlist[e] = None /\ waitlist'[e].status = "WAITING"
                             /\ \A f \in Entries \ {e} : waitlist'[f] = waitlist[f]
    BY <1>3 DEF Join, TypeOK
  <2>2. Spent(client, print)' = Spent(client, print)
    BY <2>1 DEF Spent, SpentOn
  <2>3. Booked(client, print)' = Booked(client, print)
    BY <1>3 DEF Join, Booked
  <2> QED
    BY <1>1, <2>2, <2>3, SameIsProportionate
<1>4. ASSUME NEW r \in Requests, Commit(r)
      PROVE  Proportionate(client, print)'
  <2> DEFINE t == tx[r]
  <2>1. t.pc = "commit" /\ Held(t) /\ t.claimed \subseteq Entries
    BY <1>4 DEF Commit, EntriesHeld, TypeOK, Tx
  <2>2. \A e \in Entries : waitlist'[e] = IF e \in t.claimed THEN Resolved(waitlist[e], t)
                                                              ELSE waitlist[e]
    BY <1>4 DEF Commit
  <2>3. CASE t.req.kind # "accept"
    <3>1. \A e \in t.claimed : waitlist[e] \in Entry
      BY <2>1, <2>3 DEF Held, HeldByRelease, Suits, TypeOK
    <3>2. \A e \in t.claimed :
            LET new == Resolved(waitlist[e], t)
            IN new # waitlist[e] => new.status # "ACCEPTED" /\ waitlist[e].status # "ACCEPTED"
      BY <2>3, <3>1 DEF Resolved, Entry
    <3>3. Spent(client, print)' = Spent(client, print)
      BY <2>1, <2>2, <3>1, <3>2 DEF Spent, SpentOn
    <3>4. ~(Books(t.req) /\ t.draft # None /\ t.draft.print = print)
      BY <1>1, <2>1, <2>3 DEF Books, Held
    <3>5. Booked(client, print)' = Booked(client, print)
      BY <1>4, <3>4, CommitBooks
    <3> QED
      BY <1>1, <3>3, <3>5, SameIsProportionate
  <2>4. CASE t.req.kind = "accept"
    <3>1. PICK e \in t.claimed : HeldByAcceptance(t, e)
      BY <2>1, <2>4 DEF Held
    <3>2. /\ e \in Entries /\ waitlist[e] \in Entry /\ waitlist[e].status = "MATCHED"
          /\ waitlist[e].client = t.req.actor
      BY <2>1, <3>1 DEF HeldByAcceptance, Matched, TypeOK
    <3>3. waitlist'[e] = [waitlist[e] EXCEPT !.status = "ACCEPTED"]
      BY <2>2, <2>4, <3>2 DEF Resolved
    <3>4. \A f \in Entries \ {e} : waitlist'[f] = waitlist[f]
      BY <2>2, <3>1 DEF HeldByAcceptance
    <3> DEFINE new == waitlist'[e]
    <3>5. /\ new.status = "ACCEPTED" /\ new.client = waitlist[e].client
          /\ new.service = waitlist[e].service
          /\ new.matchedEmployee = waitlist[e].matchedEmployee
          /\ new.matchedStart = waitlist[e].matchedStart
          /\ new # None
      <4>1. new \in Entry
        BY <3>2, <3>3 DEF Entry
      <4> QED
        BY <3>2, <3>3, <4>1, NullAssumption DEF Entry
    <3> HIDE DEF new
    <3>6. e \notin Spent(client, print)
      BY <3>2 DEF Spent, SpentOn
    <3>7. CASE t.req.actor = client /\ Offer(waitlist[e]) = print
      <4>1. SpentOn(new, client, print)
        BY <3>2, <3>5, <3>7 DEF SpentOn, Offer
      <4>2. Spent(client, print)' = Spent(client, print) \cup {e}
        BY <3>2, <3>4, <4>1 DEF Spent, new, SpentOn
      <4>3. CASE t.draft # None
        <5>1. t.draft.print = print /\ Books(t.req)
          BY <2>4, <3>1, <3>7, <4>3 DEF HeldByAcceptance, Books
        <5> QED
          BY <1>1, <1>4, <3>6, <3>7, <4>2, <4>3, <5>1, CommitBooks, OneForOne
      <4>4. CASE t.draft = None
        <5>1. Booked(client, print) # {}
          BY <3>1, <3>7, <4>4 DEF HeldByAcceptance, HasBooked, Booked
        <5>2. Booked(client, print)' = Booked(client, print)
          BY <1>4, <4>4, CommitBooks
        <5> QED
          BY <1>1, <3>6, <4>2, <5>1, <5>2, SpentForNothing
      <4> QED
        BY <4>3, <4>4
    <3>8. CASE ~(t.req.actor = client /\ Offer(waitlist[e]) = print)
      <4>1. ~SpentOn(new, client, print)
        <5>1. ASSUME SpentOn(new, client, print)
              PROVE  FALSE
          <6>1. print = [employee |-> print.employee, service |-> print.service,
                         start |-> print.start, note |-> print.note]
            BY <1>1 DEF Prints
          <6> QED
            BY <1>1, <3>2, <3>5, <3>8, <5>1, <6>1 DEF SpentOn, Offer
        <5> QED
          BY <5>1
      <4>2. Spent(client, print)' = Spent(client, print)
        BY <3>2, <3>4, <3>6, <4>1 DEF Spent, new, SpentOn
      <4>3. Booked(client, print)' = Booked(client, print)
        BY <1>4, <3>1, <3>8, CommitBooks DEF HeldByAcceptance
      <4> QED
        BY <1>1, <4>2, <4>3, SameIsProportionate
    <3> QED
      BY <3>7, <3>8
  <2> QED
    BY <2>3, <2>4
<1> QED
  BY <1>2, <1>3, <1>4, OnlyCommitOrJoin

\* A match is spent once: however many acceptances of an entry race under whatever keys, a
\* client has no more appointments booked at a match than entries accepted for it, and one at
\* least if there is such an entry.
THEOREM SpentOnce == Spec => []AcceptedOnce
<1>1. Init => AllProportionate
  <2> SUFFICES ASSUME Init, NEW client \in Clients, NEW print \in MatchPrints
               PROVE  Proportionate(client, print)
    BY DEF AllProportionate
  <2>1. Booked(client, print) = {} /\ Spent(client, print) = {}
    BY DEF Init, Booked, Spent, SpentOn
  <2> QED
    BY <2>1, FS_EmptySet DEF Proportionate
<1>2. TypeOK /\ Consistent /\ EntriesHeld /\ AllProportionate /\ [Next]_vars => AllProportionate'
  BY ProportionateStep
<1>3. AllProportionate => AcceptedOnce
  <2> SUFFICES ASSUME AllProportionate, NEW client \in Clients, NEW print \in Prints,
                      print.note = "Waitlist match"
               PROVE  /\ Cardinality(Booked(client, print)) <= Cardinality(Spent(client, print))
                      /\ Spent(client, print) # {} => Booked(client, print) # {}
    BY DEF AcceptedOnce, Booked, Spent, SpentOn
  <2> QED
    BY DEF AllProportionate, MatchPrints, Proportionate
<1> QED
  BY <1>1, <1>2, <1>3, AlwaysHeld, PTL DEF Spec

-----------------------------------------------------------------------------
(***************************************************************************)
(* Waiting.                                                                *)
(***************************************************************************)

\* s gives up a time that r has asked for since.
Vacates(s, r) == tx[s].seen # None /\ Clash(tx[s].seen, tx[r].draft)

\* The slot of r was found free, or is that of the row it changes.
SlotChecked(r) == tx[r].pc \in {"flush", "exclude"}

\* The times that moves leave are never asked for in a circle: of any transactions whose slot
\* was checked, the last one checked asks for a time that none of them gives up.
NoRing ==
  \A T \in SUBSET {r \in Requests : SlotChecked(r)} : T # {} =>
    \E r \in T : \A s \in T \ {r} : ~Vacates(s, r)

\* A step of r keeps the others in order.  If it checks a slot, r becomes the last.
LEMMA OneMoves ==
  ASSUME TypeOK, NoRing, NEW r \in Requests, NEW t, tx' = [tx EXCEPT ![r] = t],
         \/ t.pc \notin {"flush", "exclude"}
         \/ SlotChecked(r) /\ t.seen = tx[r].seen /\ t.draft = tx[r].draft
         \/ \A s \in Requests \ {r} : tx[s].seen # None => ~Clash(tx[s].seen, t.draft)
  PROVE  NoRing'
<1>1. tx'[r] = t /\ \A s \in Requests \ {r} : tx'[s] = tx[s]
  BY DEF TypeOK
<1>2. ASSUME NEW T \in SUBSET Requests, \A s \in T : SlotChecked(s)', T # {}
      PROVE  \E u \in T : \A s \in T \ {u} : ~Vacates(s, u)'
  <2>1. CASE r \in T /\ \A s \in Requests \ {r} : tx[s].seen # None => ~Clash(tx[s].seen, t.draft)
    BY <1>1, <2>1 DEF Vacates
  <2>2. CASE r \notin T
    <3>1. \A s \in T : SlotChecked(s)
      BY <1>1, <1>2, <2>2 DEF SlotChecked
    <3>2. PICK u \in T : \A s \in T \ {u} : ~Vacates(s, u)
      BY <1>2, <3>1 DEF NoRing
    <3> QED
      BY <1>1, <2>2, <3>2 DEF Vacates
  <2>3. CASE SlotChecked(r) /\ t.seen = tx[r].seen /\ t.draft = tx[r].draft
    <3>1. \A s \in T : SlotChecked(s)
      BY <1>1, <1>2, <2>3 DEF SlotChecked
    <3>2. PICK u \in T : \A s \in T \ {u} : ~Vacates(s, u)
      BY <1>2, <3>1 DEF NoRing
    <3>3. \A s \in T : tx'[s].seen = tx[s].seen /\ tx'[s].draft = tx[s].draft
      BY <1>1, <2>3
    <3> QED
      BY <3>2, <3>3 DEF Vacates
  <2>4. r \in T => t.pc \in {"flush", "exclude"}
    BY <1>1, <1>2 DEF SlotChecked
  <2> QED
    BY <2>1, <2>2, <2>3, <2>4
<1> QED
  BY <1>2 DEF NoRing

\* What the others have loaded is in the table, each its own row.
LEMMA LoadedIsCommitted ==
  ASSUME TypeOK, Consistent, NEW r \in Requests, NEW s \in Requests \ {r}, tx[s].seen # None,
         NEW id \in Ids, tx[r].target = id \/ ~HoldsRow(s, id),
         NEW row, ~Taken(id, row)
  PROVE  ~Clash(tx[s].seen, row)
<1>1. Form(tx[s]) /\ FitsTables(tx[s]) /\ Apart(tx[s], tx[r])
  BY Before DEF Consistent
<1>2. tx[s].target # None /\ tx[s].target \in Ids /\ appts[tx[s].target] = tx[s].seen
  <2>1. tx[s].pc # "idle" /\ ChangeForm(tx[s]) /\ tx[s].req \in Request /\ ~Books(tx[s].req)
    BY <1>1 DEF Form, Idle, ReceivedForm, BookingForm
  <2>2. tx[s].target \in Ids
    BY <2>1 DEF ChangeForm, Books, Request, CreateRequest, AcceptRequest, CancelRequest,
                RescheduleRequest, StatusRequest
  <2> QED
    BY <1>1, <2>2, NoneAssumption DEF FitsTables
<1>3. tx[s].target # id
  BY <1>1, <1>2 DEF Apart, HoldsRow
<1> QED
  BY <1>2, <1>3 DEF Taken

LEMMA RingStep ==
  ASSUME TypeOK, Consistent, NoRing, [Next]_vars
  PROVE  NoRing'
<1>1. ASSUME NEW r \in Requests, Submit(r) \/ Handle(r) \/ Fail(r)
      PROVE  NoRing'
  <2>1. ASSUME NEW t, Proceed(r, t), t.pc \notin {"flush", "exclude"}
        PROVE  NoRing'
    BY <2>1, OneMoves DEF Proceed
  <2>2. ASSUME NEW code, Answer(r, code)
        PROVE  NoRing'
    BY <2>2, OneMoves DEF Answer, Idle
  <2>3. tx[r] \in Tx /\ Form(tx[r])
    BY Before
  <2>4. CASE Submit(r)
    <3>1. PICK q \in Inputs :
            \/ \E id \in Ids :
                 Proceed(r, [Idle EXCEPT !.pc = "key", !.req = q, !.target = id,
                   !.draft = NewRow(q.actor, q.employee, q.service, q.start, q.key, "own")])
            \/ \E id \in Ids :
                 Proceed(r, [Idle EXCEPT !.pc = "received", !.req = q, !.target = id])
            \/ Proceed(r, [Idle EXCEPT !.pc = "received", !.req = q])
      BY <2>4 DEF Submit
    <3>2. ASSUME NEW id, NEW draft,
                 Proceed(r, [Idle EXCEPT !.pc = "key", !.req = q, !.target = id, !.draft = draft])
          PROVE  NoRing'
      <4> DEFINE t == [Idle EXCEPT !.pc = "key", !.req = q, !.target = id, !.draft = draft]
      <4>1. Proceed(r, t) /\ t.pc = "key"
        BY <3>2 DEF Idle
      <4> HIDE DEF t
      <4> QED
        BY <2>1, <4>1
    <3>3. ASSUME NEW id, Proceed(r, [Idle EXCEPT !.pc = "received", !.req = q, !.target = id])
          PROVE  NoRing'
      <4> DEFINE t == [Idle EXCEPT !.pc = "received", !.req = q, !.target = id]
      <4>1. Proceed(r, t) /\ t.pc = "received"
        BY <3>3 DEF Idle
      <4> HIDE DEF t
      <4> QED
        BY <2>1, <4>1
    <3>4. CASE Proceed(r, [Idle EXCEPT !.pc = "received", !.req = q])
      <4> DEFINE t == [Idle EXCEPT !.pc = "received", !.req = q]
      <4>1. Proceed(r, t) /\ t.pc = "received"
        BY <3>4 DEF Idle
      <4> HIDE DEF t
      <4> QED
        BY <2>1, <4>1
    <3> QED
      BY <3>1, <3>2, <3>3, <3>4
  <2>5. CASE LockEntry(r)
    BY <2>1, <2>2, <2>3, <2>5 DEF LockEntry, Tx
  <2>6. CASE Lookup(r)
    BY <2>1, <2>2, <2>3, <2>6 DEF Lookup, Tx
  <2>7. CASE LoadMove(r)
    BY <2>1, <2>2, <2>3, <2>7 DEF LoadMove, Tx
  <2>8. CASE Validate(r)
    <3>1. CASE Answer(r, 409)
      BY <2>2, <3>1
    <3>2. CASE ~Taken(tx[r].target, tx[r].draft) /\ Proceed(r, [tx[r] EXCEPT !.pc = "flush"])
      <4>1. tx[r].target \in Ids
        BY <2>3, <2>8 DEF Validate, Form, BookingForm, ChangeForm, Books, Request, CreateRequest,
              AcceptRequest, CancelRequest, RescheduleRequest, StatusRequest
      <4>2. \A s \in Requests \ {r} : tx[s].seen # None => ~Clash(tx[s].seen, tx[r].draft)
        BY <3>2, <4>1, LoadedIsCommitted
      <4> DEFINE t == [tx[r] EXCEPT !.pc = "flush"]
      <4>3. t.draft = tx[r].draft /\ tx' = [tx EXCEPT ![r] = t]
        BY <2>3, <3>2 DEF Tx, Proceed
      <4> HIDE DEF t
      <4> QED
        BY <4>2, <4>3, OneMoves
    <3> QED
      BY <2>8, <3>1, <3>2 DEF Validate
  <2>9. CASE Flush(r)
    <3> DEFINE t == [tx[r] EXCEPT !.pc = "exclude"]
    <3>1. /\ SlotChecked(r) /\ t.seen = tx[r].seen /\ t.draft = tx[r].draft
          /\ tx' = [tx EXCEPT ![r] = t]
      BY <2>3, <2>9 DEF Flush, SlotChecked, Tx, Proceed
    <3> HIDE DEF t
    <3> QED
      BY <3>1, OneMoves
  <2>10. CASE Exclude(r)
    <3>1. CASE Answer(r, 409)
      BY <2>2, <3>1
    <3>2. CASE Proceed(r, [tx[r] EXCEPT !.pc = AfterExclude(tx[r].req)])
      BY <2>1, <2>3, <3>2 DEF Tx, AfterExclude
    <3> QED
      BY <2>10, <3>1, <3>2 DEF Exclude
  <2>11. CASE Cancel(r)
    BY <2>1, <2>2, <2>3, <2>11 DEF Cancel, Tx
  <2>12. CASE ChangeStatus(r)
    <3> DEFINE q == tx[r].req
               row == appts[q.id]
               draft == [row EXCEPT !.status = q.to]
               t == [tx[r] EXCEPT !.pc = "exclude", !.target = q.id, !.seen = row,
                                  !.draft = draft]
    <3>1. tx[r].pc = "received" /\ q.kind = "status" /\ ~Books(q) /\ RowFree(r, q.id)
      BY <2>12 DEF ChangeStatus, Books
    <3>2. CASE \E code : Answer(r, code)
      BY <2>2, <3>2
    <3>3. CASE row # None /\ q.to \in Allowed[row.status] /\ Proceed(r, t)
      <4>1. row \in Row /\ q.id \in Ids /\ q.to \in Statuses
        BY <3>1, <3>3, Loaded DEF CancelRequest, RescheduleRequest, StatusRequest
      <4>2. /\ draft.status = q.to /\ draft.employee = row.employee
            /\ draft.service = row.service /\ draft.start = row.start
        BY <4>1 DEF Row
      <4>3. Occupies(draft) => Occupies(row)
        BY <3>3, <4>1, <4>2 DEF Occupies, Occupying, Allowed, Row, Statuses
      <4>4. t.draft = draft /\ tx' = [tx EXCEPT ![r] = t]
        BY <2>3, <3>3 DEF Tx, Proceed
      <4> HIDE DEF draft, t
      <4>5. ~Taken(q.id, draft)
        BY <3>3, <4>1, <4>2, <4>3, SamePlace
      <4>6. \A s \in Requests \ {r} : ~HoldsRow(s, q.id)
        BY <3>1 DEF RowFree
      <4>7. \A s \in Requests \ {r} : tx[s].seen # None => ~Clash(tx[s].seen, draft)
        BY <4>1, <4>5, <4>6, LoadedIsCommitted
      <4> QED
        BY <4>4, <4>7, OneMoves
    <3> QED
      BY <2>12, <3>2, <3>3 DEF ChangeStatus
  <2>13. CASE Match(r)
    BY <2>1, <2>3, <2>13 DEF Match, Tx
  <2>14. CASE LockMatches(r)
    BY <2>1, <2>3, <2>14 DEF LockMatches, Tx
  <2>15. CASE Commit(r)
    BY <2>15, OneMoves DEF Commit, Idle
  <2>16. CASE Fail(r)
    BY <2>2, <2>16 DEF Fail
  <2> QED
    BY <1>1, <2>4, <2>5, <2>6, <2>7, <2>8, <2>9, <2>10, <2>11, <2>12, <2>13, <2>14, <2>15,
       <2>16 DEF Handle
<1>2. CASE UNCHANGED tx
  BY <1>2 DEF NoRing, SlotChecked, Vacates
<1> QED
  BY <1>1, <1>2 DEF Next, Join, Tick, vars

\* Who holds an entry or a row has begun; who holds a key is past its lookup; who has written
\* is past its flush.  So everybody who stands still waits, in the end, for somebody who has
\* written, and those wait for each other.
LEMMA WritersStandStill ==
  ASSUME TypeOK, Consistent, NEW S \in SUBSET Requests, StandStill(S),
         \A r \in S : tx[r].pc # "lock"
  PROVE  /\ \E r \in S : tx[r].pc = "exclude"
         /\ \A r \in S : tx[r].pc = "exclude" =>
              \E s \in S \ {r} : tx[s].pc = "exclude" /\ Blocks(s, tx[r].draft)
<1>1. \A r \in S : tx[r].pc \in {"received", "key", "exclude"}
  BY DEF StandStill, WaitsFor
<1>2. \A r \in S : tx[r].pc = "exclude" =>
        \E s \in S \ {r} : tx[s].pc = "exclude" /\ Blocks(s, tx[r].draft)
  BY <1>1 DEF StandStill, WaitsFor, Blocks, Wrote
<1>3. \A r \in S : tx[r].pc = "key" => \E s \in S : tx[s].pc = "exclude"
  BY <1>1 DEF StandStill, WaitsFor, HoldsKey
<1>4. \A r \in S : tx[r].pc = "received" => \E s \in S : tx[s].pc \in {"key", "exclude"}
  <2>1. \A s \in S : tx[s].pc = "received" => tx[s].claimed = {} /\ tx[s].seen = None
    BY Before DEF Form, ReceivedForm
  <2> QED
    BY <1>1, <2>1 DEF StandStill, WaitsFor, HoldsEntry, HoldsRow
<1> QED
  BY <1>1, <1>2, <1>3, <1>4 DEF StandStill

\* An acceptance never waits for a release that wants the entry it holds: the time it books
\* lies beside the row that the release changes.
LEMMA AcceptanceIsBeside ==
  ASSUME TypeOK, Consistent, EntriesHeld, NEW r \in Requests, NEW s \in Requests,
         tx[r].pc = "lock", WaitsFor(r, s), WaitsFor(s, r)
  PROVE  tx[s].pc = "lock"
<1> DEFINE t == tx[r]
           u == tx[s]
<1>1. PICK e \in t.wanted : e \in u.claimed
  BY DEF WaitsFor, HoldsEntry
<1>2. Held(t) /\ Held(u) /\ Form(t) /\ Form(u) /\ t \in Tx /\ u \in Tx
  BY Before DEF EntriesHeld
<1>3. ~Books(t.req)
  BY <1>2 DEF Form, BookingForm
<1>4. CASE u.req.kind # "accept"
  <2>1. u.pc \in {"lock", "commit"}
    BY <1>1, <1>2, <1>4 DEF Held, HeldByRelease
  <2> QED
    BY <2>1 DEF WaitsFor
<1>5. CASE u.req.kind = "accept"
  <2>1. HeldByAcceptance(u, e) /\ Found(t, e)
    BY <1>1, <1>2, <1>5 DEF Held
  <2>2. u.pc \notin {"idle", "received"}
    BY <1>1, <1>2 DEF Form, ReceivedForm, Idle
  <2>3. BookingForm(u)
    BY <1>2, <1>5, <2>2 DEF Form, Books
  <2>4. u.pc = "exclude" /\ Blocks(r, u.draft)
    BY <1>3, <2>2, <2>3 DEF WaitsFor, BookingForm, HoldsKey
  <2>5. PICK employee \in Employees, service \in Services, start \in Times, note \in Notes :
          u.draft = NewRow(u.req.actor, employee, service, start, u.req.key, note)
    BY <2>3, <2>4 DEF BookingForm
  <2>6. u.draft # None
    BY <2>3, <2>4 DEF BookingForm
  <2>7. /\ u.draft.employee = waitlist[e].matchedEmployee
        /\ u.draft.service = waitlist[e].service
        /\ u.draft.start = waitlist[e].matchedStart /\ u.draft.status = "BOOKED"
    <3>1. /\ u.draft.employee = u.draft.print.employee
          /\ u.draft.service = u.draft.print.service
          /\ u.draft.start = u.draft.print.start /\ u.draft.status = "BOOKED"
      BY <2>5 DEF NewRow
    <3>2. u.draft.print = Offer(waitlist[e])
      BY <2>1, <2>6 DEF HeldByAcceptance
    <3>3. \A entry : /\ Offer(entry).employee = entry.matchedEmployee
                     /\ Offer(entry).service = entry.service
                     /\ Offer(entry).start = entry.matchedStart
      BY DEF Offer
    <3> QED
      BY <3>1, <3>2, <3>3
  <2>8. \A row : Clash(row, u.draft) => Clash(Slot(waitlist[e]), row)
    BY <2>7 DEF Slot, Clash, Overlap, Occupies, End
  <2> QED
    BY <2>1, <2>4, <2>8 DEF Blocks, Found, Beside, HeldByAcceptance
<1> QED
  BY <1>4, <1>5

\* Of any number of requests that stand still, two want the same time, or one is a release
\* that locks its entries; and two requests stand still only if they want the same time or
\* both are releases.
THEOREM RivalsDeadlock == Spec => []OnlyRivalsDeadlock
<1>1. ASSUME TypeOK, Consistent, NoRing, NEW S \in SUBSET Requests, StandStill(S),
             \A r \in S : tx[r].pc # "lock"
      PROVE  \E r, s \in S : Rivals(r, s)
  <2> DEFINE T == {r \in S : tx[r].pc = "exclude"}
  <2>1. T \in SUBSET {r \in Requests : SlotChecked(r)} /\ T # {}
    BY <1>1, WritersStandStill DEF SlotChecked
  <2>2. PICK r \in T : \A s \in T \ {r} : ~Vacates(s, r)
    BY <1>1, <2>1 DEF NoRing
  <2>3. PICK s \in S \ {r} : tx[s].pc = "exclude" /\ Blocks(s, tx[r].draft)
    BY <1>1, <2>2, WritersStandStill
  <2>4. Clash(tx[s].draft, tx[r].draft)
    BY <2>2, <2>3 DEF Blocks, Vacates
  <2> QED
    BY <2>2, <2>3, <2>4 DEF Rivals
<1>2. ASSUME TypeOK, Consistent, EntriesHeld, NoRing, NEW r \in Requests, NEW s \in Requests,
             WaitsFor(r, s), WaitsFor(s, r)
      PROVE  Rivals(r, s) \/ (tx[r].pc = "lock" /\ tx[s].pc = "lock")
  <2>1. CASE tx[r].pc = "lock" \/ tx[s].pc = "lock"
    BY <1>2, <2>1, AcceptanceIsBeside
  <2>2. CASE tx[r].pc # "lock" /\ tx[s].pc # "lock"
    <3>1. {r, s} \in SUBSET Requests /\ StandStill({r, s})
      BY <1>2 DEF StandStill
    <3>2. \E a, b \in {r, s} : Rivals(a, b)
      BY <1>1, <1>2, <2>2, <3>1
    <3> QED
      BY <3>2, ClashSymmetric DEF Rivals
  <2> QED
    BY <2>1, <2>2
<1>3. TypeOK /\ Consistent /\ EntriesHeld /\ NoRing => OnlyRivalsDeadlock
  BY <1>1, <1>2 DEF OnlyRivalsDeadlock
<1>4. Init => NoRing
  BY DEF Init, Idle, NoRing, SlotChecked
<1>5. TypeOK /\ Consistent /\ NoRing /\ [Next]_vars => NoRing'
  BY RingStep
<1>6. Spec => []NoRing
  BY <1>4, <1>5, Invariance, PTL DEF Spec
<1> QED
  BY <1>3, <1>6, AlwaysHeld, PTL
=============================================================================
