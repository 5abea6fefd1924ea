------------------------------ MODULE Booking ------------------------------
(***************************************************************************)
(* The booking engine of the SlotBridge backend: the appointments table,   *)
(* its status history and audit log, the waitlist, and the HTTP requests   *)
(* that change them concurrently.                                          *)
(*                                                                         *)
(* Every request runs in one database transaction (get_db): what it writes *)
(* is invisible to the others until it commits, and disappears when it     *)
(* fails.  Statements run at READ COMMITTED, each on its own snapshot, so  *)
(* a request is modelled as one action per statement that another request  *)
(* can come between: taking a lock, reading, writing, committing.          *)
(*                                                                         *)
(* The database is PostgreSQL, the only one the booking engine runs on.    *)
(***************************************************************************)
EXTENDS Appointments, Sequences, FiniteSets

CONSTANTS
  Admins,     \* users with role ADMIN, members of the organisation
  Grid,       \* [Employees \X Services -> starts offered on an empty calendar]
  Entries,    \* waitlist entry ids (bounds the entries ever created)
  Requests,   \* request slots: bounds the requests in flight at once
  MaxMoves,   \* bounds the moves of an appointment (plus those in flight)
  Inputs,     \* the requests that clients and staff send
  Wishes      \* the waitlist entries that clients create

Staff  == Employees \cup Admins
Actors == Clients \cup Staff

Entry == [client : Clients, service : Services, employee : Employees \cup {None},
          from : Times, until : Times \cup {Horizon + 1},
          status : {"WAITING", "MATCHED", "ACCEPTED"},
          matchedEmployee : Employees \cup {None}, matchedStart : Times \cup {None}]

CreateRequest     == [kind : {"create"}, actor : Clients, employee : Employees,
                      service : Services, start : Times, key : Keys]
AcceptRequest     == [kind : {"accept"}, actor : Clients, entry : Entries, key : Keys]
CancelRequest     == [kind : {"cancel"}, actor : Actors, id : Ids]
RescheduleRequest == [kind : {"reschedule"}, actor : Actors, id : Ids, start : Times]
StatusRequest     == [kind : {"status"}, actor : Staff, id : Ids,
                      to : Statuses \ {"CANCELLED"}]
Request == CreateRequest \cup AcceptRequest \cup CancelRequest
             \cup RescheduleRequest \cup StatusRequest

Wish == [client : Clients, service : Services, employee : Employees \cup {None},
         from : Times, until : Times \cup {Horizon + 1}]

ASSUME GridAssumption  == Grid \in [Employees \X Services -> SUBSET Times]
ASSUME InputAssumption == Inputs \subseteq Request /\ Wishes \subseteq Wish
ASSUME BoundAssumption == MaxMoves \in Nat
ASSUME NullAssumption  == None \notin Entry \cup Request

-----------------------------------------------------------------------------
(***************************************************************************)
(* State.  appts, history, audit and waitlist are the committed tables;    *)
(* tx[r] is the transaction request r has open:                            *)
(*   pc       the statement it runs next ("idle": no request in hand)      *)
(*   target   the appointment it changes; for a booking, its new uuid4 id  *)
(*   seen     the row it loaded FOR UPDATE, whose lock it holds            *)
(*   draft    the version of the row it wants to write                     *)
(*   wanted   the waitlist entries its SELECT found and has yet to lock    *)
(*   claimed  the waitlist entries it has locked                           *)
(***************************************************************************)
VARIABLES
  appts,     \* appointments
  history,   \* appointment_status_history, oldest first
  audit,     \* appointment_audit_log, oldest first
  waitlist,  \* waitlist_entries
  now,       \* the clock
  tx,        \* open transactions
  reply      \* the HTTP answer the last step sent, if it sent one

vars == <<appts, history, audit, waitlist, now, tx, reply>>

Steps == {"idle", "received", "key", "validate", "flush", "exclude", "match", "lock", "commit"}
Codes == {200, 201, 404, 409, 422, 500}

Tx == [pc : Steps, req : Request \cup {None}, target : Ids \cup {None},
       seen : Row \cup {None}, draft : Row \cup {None},
       wanted : SUBSET Entries, claimed : SUBSET Entries]

Idle == [pc |-> "idle", req |-> None, target |-> None,
         seen |-> None, draft |-> None, wanted |-> {}, claimed |-> {}]

HistoryRow == [old : Statuses \cup {None}, new : Statuses]
AuditRow   == [action : {"CREATED", "CANCELLED", "RESCHEDULED", "STATUS_CHANGED"},
               from : Times \cup {None}, to : Times \cup {None}]

TypeOK ==
  /\ appts \in [Ids -> Row \cup {None}]
  /\ history \in [Ids -> Seq(HistoryRow)]
  /\ audit \in [Ids -> Seq(AuditRow)]
  /\ waitlist \in [Entries -> Entry \cup {None}]
  /\ now \in Times
  /\ tx \in [Requests -> Tx]
  /\ reply \in [to : Requests, code : Codes] \cup {None}

Init ==
  /\ appts = [id \in Ids |-> None]
  /\ history = [id \in Ids |-> <<>>]
  /\ audit = [id \in Ids |-> <<>>]
  /\ waitlist = [e \in Entries |-> None]
  /\ now = 0
  /\ tx = [r \in Requests |-> Idle]
  /\ reply = None

-----------------------------------------------------------------------------
(***************************************************************************)
(* A definition Faulty... is a wrong variant of the definition after it,   *)
(* one a change of the code could bring about.  Nothing here uses it: it   *)
(* shows which slip a property guards against.                             *)
(***************************************************************************)

(***************************************************************************)
(* What other transactions hold.                                           *)
(***************************************************************************)

\* Books an appointment: POST /appointments, or accepting a waitlist match.
Books(q) == q.kind \in {"create", "accept"}

InFlight(r) == tx[r].pc # "idle"

\* The key is unlocked before the row is inserted.
FaultyHoldsKey(r, client, key) ==
  /\ tx[r].pc = "validate"
  /\ Books(tx[r].req) /\ tx[r].req.actor = client /\ tx[r].req.key = key

\* pg_advisory_xact_lock on (client, key).
HoldsKey(r, client, key) ==
  /\ tx[r].pc \in {"validate", "flush", "exclude", "commit"}
  /\ Books(tx[r].req) /\ tx[r].req.actor = client /\ tx[r].req.key = key

\* Cancelling reads the row without FOR UPDATE.
FaultyHoldsRow(r, id) ==
  tx[r].seen # None /\ tx[r].target = id /\ tx[r].req.kind # "cancel"

HoldsRow(r, id) == tx[r].seen # None /\ tx[r].target = id

HoldsEntry(r, e) == e \in tx[r].claimed

\* r has written its version of a row, and not committed it.
Wrote(r) == tx[r].pc \in {"exclude", "match", "lock", "commit"} /\ tx[r].draft # None

\* No lock taken: on the key, on the row, on the waitlist entry.
FaultyKeyFree(r)      == TRUE
FaultyRowFree(r, id)  == TRUE
FaultyEntryFree(r, e) == TRUE

KeyFree(r)       == \A s \in Requests \ {r} : ~HoldsKey(s, tx[r].req.actor, tx[r].req.key)
RowFree(r, id)   == \A s \in Requests \ {r} : ~HoldsRow(s, id)
EntryFree(r, e)  == \A s \in Requests \ {r} : ~HoldsEntry(s, e)

\* The overlap is only looked for among committed rows.
FaultyMustWait(r, row) == FALSE

\* The uncommitted version of s, or the row it is replacing, stands in the way of `row'.
Blocks(s, row) ==
  /\ Wrote(s)
  /\ Clash(tx[s].draft, row) \/ (tx[s].seen # None /\ Clash(tx[s].seen, row))

\* The exclusion constraint makes the writer of `row' wait for another transaction to end.
MustWait(r, row) == \E s \in Requests \ {r} : Blocks(s, row)

\* Entries are wanted whatever their status.
FaultyCandidates(seen) ==
  {e \in Entries : /\ waitlist[e] # None /\ waitlist[e].service = seen.service
                   /\ waitlist[e].from <= seen.start /\ seen.start < waitlist[e].until}

\* The waiting entries of the service whose window holds the released start, those of other
\* employees too.
Candidates(seen) ==
  {e \in Entries : /\ waitlist[e] # None /\ waitlist[e].status = "WAITING"
                   /\ waitlist[e].service = seen.service
                   /\ waitlist[e].from <= seen.start /\ seen.start < waitlist[e].until}

\* A committed row stands in the way of `row', the new version of appointment `id'.
Taken(id, row) ==
  \E other \in Ids \ {id} : appts[other] # None /\ Clash(appts[other], row)

\* One does that no open transaction is replacing.
TakenForGood(id, row) ==
  \E other \in Ids \ {id} :
    /\ appts[other] # None /\ Clash(appts[other], row)
    /\ \A s \in Requests : Wrote(s) => tx[s].target # other

-----------------------------------------------------------------------------
(***************************************************************************)
(* Steps of a request.                                                     *)
(***************************************************************************)

\* The request goes on; nothing it wrote is visible yet.
Proceed(r, t) ==
  /\ tx' = [tx EXCEPT ![r] = t]
  /\ reply' = None
  /\ UNCHANGED <<appts, history, audit, waitlist, now>>

\* The request ends without writing: a replay, a BookingError or any other exception.
Answer(r, code) ==
  /\ tx' = [tx EXCEPT ![r] = Idle]
  /\ reply' = [to |-> r, code |-> code]
  /\ UNCHANGED <<appts, history, audit, waitlist, now>>

CanAccess(actor, row) ==
  \/ actor \in Clients   /\ row.client = actor
  \/ actor \in Employees /\ row.employee = actor
  \/ actor \in Admins

\* A client may only cancel or move an appointment that has not started.
WindowOpen(actor, row) == actor \in Clients => row.start > now

\* An id no row has and no transaction is about to use (uuid4 never repeats).
Fresh(id) == appts[id] = None /\ \A s \in Requests : tx[s].target # id

MovesOf(id) == SelectSeq(audit[id], LAMBDA a : a.action = "RESCHEDULED")

\* A request arrives.  A booking gets the id its row will have.
Submit(r) ==
  /\ tx[r].pc = "idle"
  /\ \E q \in Inputs :
       CASE q.kind = "create" ->
              \E id \in Ids :
                /\ Fresh(id)
                /\ Proceed(r, [Idle EXCEPT !.pc = "key", !.req = q, !.target = id,
                     !.draft = NewRow(q.actor, q.employee, q.service, q.start, q.key, "own")])
         [] q.kind = "accept" ->
              \E id \in Ids :
                /\ Fresh(id)
                /\ Proceed(r, [Idle EXCEPT !.pc = "received", !.req = q, !.target = id])
         [] OTHER ->
              /\ q.kind = "reschedule" => Len(MovesOf(q.id)) < MaxMoves
              /\ Proceed(r, [Idle EXCEPT !.pc = "received", !.req = q])

\* Whether the entry has a match is not looked at.
FaultyMatched(entry) == TRUE

Matched(entry) == entry.status = "MATCHED" /\ entry.matchedEmployee # None
                                           /\ entry.matchedStart # None

\* accept_waitlist, up to the call of create: loads and locks the client's entry.
LockEntry(r) ==
  LET q == tx[r].req
      mine == waitlist[q.entry] # None /\ waitlist[q.entry].client = q.actor
  IN /\ tx[r].pc = "received" /\ q.kind = "accept"
     /\ \/ ~mine /\ Answer(r, 404)
        \/ /\ mine /\ EntryFree(r, q.entry)
           /\ ~Matched(waitlist[q.entry]) /\ Answer(r, 409)
        \/ /\ mine /\ EntryFree(r, q.entry)
           /\ Matched(waitlist[q.entry])
           /\ Proceed(r, [tx[r] EXCEPT !.pc = "key", !.claimed = {q.entry},
                !.draft = NewRow(q.actor, waitlist[q.entry].matchedEmployee,
                                 waitlist[q.entry].service, waitlist[q.entry].matchedStart,
                                 q.key, "Waitlist match")])

\* create: takes the key's advisory lock, then looks the key up.
Lookup(r) ==
  LET q == tx[r].req
      draft == tx[r].draft
      twins == {id \in Ids : appts[id] # None /\ appts[id].client = q.actor
                                              /\ appts[id].key = q.key}
  IN /\ tx[r].pc = "key" /\ KeyFree(r)
     /\ \/ /\ \E id \in twins : appts[id].print = draft.print
           /\ q.kind = "create"
           /\ Answer(r, 200)
        \/ /\ \E id \in twins : appts[id].print = draft.print
           /\ q.kind = "accept"
           /\ Proceed(r, [tx[r] EXCEPT !.pc = "commit", !.draft = None])
        \/ /\ \E id \in twins : appts[id].print # draft.print
           /\ Answer(r, 409)
        \/ twins = {} /\ draft.start <= now /\ Answer(r, 422)
        \/ /\ twins = {} /\ draft.start > now
           /\ Proceed(r, [tx[r] EXCEPT !.pc = "validate"])

\* The status of a moved appointment is not looked at.
FaultyMovable(actor, row) == WindowOpen(actor, row)

Movable(actor, row) == row.status \in {"BOOKED", "CONFIRMED"} /\ WindowOpen(actor, row)

\* reschedule, up to the slot check.
LoadMove(r) ==
  LET q == tx[r].req
      row == appts[q.id]
      found == row # None /\ CanAccess(q.actor, row)
      movable == Movable(q.actor, row)
  IN /\ tx[r].pc = "received" /\ q.kind = "reschedule" /\ RowFree(r, q.id)
     /\ \/ ~found /\ Answer(r, 404)
        \/ found /\ ~movable /\ Answer(r, 409)
        \/ found /\ movable /\ q.start <= now /\ Answer(r, 422)
        \/ found /\ movable /\ q.start > now /\ q.start = row.start /\ Answer(r, 409)
        \/ /\ found /\ movable /\ q.start > now /\ q.start # row.start
           /\ Proceed(r, [tx[r] EXCEPT !.pc = "validate", !.target = q.id,
                !.seen = row, !.draft = [row EXCEPT !.start = q.start]])

\* _validate_target_slot: committed rows only; the flush settles the race.
Validate(r) ==
  LET draft == tx[r].draft
      offered == draft.start \in Grid[<<draft.employee, draft.service>>]
  IN /\ tx[r].pc = "validate"
     /\ \/ Taken(tx[r].target, draft) /\ Answer(r, 409)
        \/ ~Taken(tx[r].target, draft) /\ ~offered /\ Answer(r, 409)
        \/ /\ ~Taken(tx[r].target, draft) /\ offered
           /\ Proceed(r, [tx[r] EXCEPT !.pc = "flush"])

\* session.flush of the inserted or moved row: PostgreSQL puts it into the table and its
\* indexes before it looks for others, so that it stands in their way from now on.
Flush(r) ==
  /\ tx[r].pc = "flush"
  /\ Proceed(r, [tx[r] EXCEPT !.pc = "exclude"])

\* Where the request goes when its row has passed the exclusion constraint.
AfterExclude(q) == IF q.kind = "reschedule" THEN "match" ELSE "commit"

\* The exclusion constraint meets the rows that overlap the one written, in any order: a
\* committed one ends the request, for an uncommitted one it waits.
Exclude(r) ==
  LET t == tx[r] IN
  /\ t.pc = "exclude"
  /\ \/ TakenForGood(t.target, t.draft) /\ Answer(r, 409)
     \/ /\ ~Taken(t.target, t.draft) /\ ~MustWait(r, t.draft)
        /\ Proceed(r, [t EXCEPT !.pc = AfterExclude(t.req)])

\* cancel, up to match_released_slot.
Cancel(r) ==
  LET q == tx[r].req
      row == appts[q.id]
      found == row # None /\ CanAccess(q.actor, row)
      allowed == WindowOpen(q.actor, row) /\ "CANCELLED" \in Allowed[row.status]
  IN /\ tx[r].pc = "received" /\ q.kind = "cancel" /\ RowFree(r, q.id)
     /\ \/ ~found /\ Answer(r, 404)
        \/ found /\ ~allowed /\ Answer(r, 409)
        \/ /\ found /\ allowed
           /\ Proceed(r, [tx[r] EXCEPT !.pc = "match", !.target = q.id,
                !.seen = row, !.draft = [row EXCEPT !.status = "CANCELLED"]])

\* change_status, up to and including the write of its flush.
ChangeStatus(r) ==
  LET q == tx[r].req
      row == appts[q.id]
      found == row # None /\ CanAccess(q.actor, row)
  IN /\ tx[r].pc = "received" /\ q.kind = "status" /\ RowFree(r, q.id)
     /\ \/ ~found /\ Answer(r, 404)
        \/ found /\ q.to \notin Allowed[row.status] /\ Answer(r, 409)
        \/ /\ found /\ q.to \in Allowed[row.status]
           /\ Proceed(r, [tx[r] EXCEPT !.pc = "exclude", !.target = q.id,
                !.seen = row, !.draft = [row EXCEPT !.status = q.to]])

\* The matching has a session of its own, which locks the appointment for itself.
FaultyMatch(r) ==
  /\ tx[r].pc = "match"
  /\ \A s \in Requests : ~HoldsRow(s, tx[r].target)
  /\ Proceed(r, [tx[r] EXCEPT !.pc = "lock", !.wanted = Candidates(tx[r].seen)])

\* match_released_slot: the SELECT finds the candidates ...
Match(r) ==
  /\ tx[r].pc = "match"
  /\ Proceed(r, [tx[r] EXCEPT !.pc = "lock", !.wanted = Candidates(tx[r].seen)])

\* ... and locks them one by one, in no order, waiting for each.  It keeps the lock on an
\* entry that has changed meanwhile, but does not return it.
LockMatches(r) ==
  LET t == tx[r] IN
  /\ t.pc = "lock"
  /\ \/ \E e \in t.wanted :
          /\ EntryFree(r, e)
          /\ Proceed(r, [t EXCEPT !.wanted = @ \ {e}, !.claimed = @ \cup {e}])
     \/ t.wanted = {} /\ Proceed(r, [t EXCEPT !.pc = "commit"])

\* The history row and the audit row the transaction adds; a move adds no history.
HistoryOf(t) ==
  IF t.draft = None \/ t.req.kind = "reschedule" THEN <<>>
  ELSE << [old |-> IF Books(t.req) THEN None ELSE t.seen.status, new |-> t.draft.status] >>

AuditOf(t) ==
  IF t.draft = None THEN <<>>
  ELSE << CASE Books(t.req) -> [action |-> "CREATED", from |-> None, to |-> t.draft.start]
            [] t.req.kind = "cancel" ->
                 [action |-> "CANCELLED", from |-> t.draft.start, to |-> None]
            [] t.req.kind = "reschedule" ->
                 [action |-> "RESCHEDULED", from |-> t.seen.start, to |-> t.draft.start]
            [] t.req.kind = "status" ->
                 [action |-> "STATUS_CHANGED", from |-> None, to |-> None] >>

\* The slot offered is the one the appointment moves to.
FaultyResolved(entry, t) ==
  IF t.req.kind = "accept" THEN [entry EXCEPT !.status = "ACCEPTED"]
  ELSE IF entry.status = "WAITING" /\ entry.employee \in {None, t.seen.employee}
  THEN [entry EXCEPT !.status = "MATCHED", !.matchedEmployee = t.draft.employee,
                     !.matchedStart = t.draft.start]
  ELSE entry

\* What the transaction makes of an entry it holds: accepted, or, if it was still waiting
\* when it was locked, matched to the slot its appointment leaves.
Resolved(entry, t) ==
  IF t.req.kind = "accept" THEN [entry EXCEPT !.status = "ACCEPTED"]
  ELSE IF entry.status = "WAITING" /\ entry.employee \in {None, t.seen.employee}
  THEN [entry EXCEPT !.status = "MATCHED", !.matchedEmployee = t.seen.employee,
                     !.matchedStart = t.seen.start]
  ELSE entry

\* get_db commits the session, and the client gets its answer.
Commit(r) ==
  LET t == tx[r] IN
  /\ t.pc = "commit"
  /\ appts' = IF t.draft = None THEN appts ELSE [appts EXCEPT ![t.target] = t.draft]
  /\ history' = [history EXCEPT ![t.target] = @ \o HistoryOf(t)]
  /\ audit' = [audit EXCEPT ![t.target] = @ \o AuditOf(t)]
  /\ waitlist' = [e \in Entries |-> IF e \in t.claimed THEN Resolved(waitlist[e], t)
                                                       ELSE waitlist[e]]
  /\ tx' = [tx EXCEPT ![r] = Idle]
  /\ reply' = [to |-> r, code |-> IF t.req.kind = "create" THEN 201 ELSE 200]
  /\ UNCHANGED now

\* Any other exception, a lost connection, a deadlock PostgreSQL breaks (no IntegrityError,
\* so no handler answers it) or a crash of the process: get_db rolls the session back.
Fail(r) == InFlight(r) /\ Answer(r, 500)

\* create_waitlist, a transaction of one insert.
Join ==
  /\ \E e \in Entries, w \in Wishes :
       /\ waitlist[e] = None
       /\ waitlist' = [waitlist EXCEPT ![e] =
            [client |-> w.client, service |-> w.service, employee |-> w.employee,
             from |-> w.from, until |-> w.until, status |-> "WAITING",
             matchedEmployee |-> None, matchedStart |-> None]]
  /\ reply' = None
  /\ UNCHANGED <<appts, history, audit, now, tx>>

Tick ==
  /\ now < Horizon
  /\ now' = now + 1
  /\ reply' = None
  /\ UNCHANGED <<appts, history, audit, waitlist, tx>>

Handle(r) ==
  \/ LockEntry(r) \/ Lookup(r) \/ LoadMove(r) \/ Validate(r) \/ Flush(r)
  \/ Exclude(r) \/ Cancel(r) \/ ChangeStatus(r) \/ Match(r) \/ LockMatches(r) \/ Commit(r)

Next ==
  \/ \E r \in Requests : Submit(r) \/ Handle(r) \/ Fail(r)
  \/ Join
  \/ Tick

Spec == Init /\ [][Next]_vars

\* The next statement of r needs what s has: the waitlist entry or the row it loads, the key
\* it looks up, the time it has written, an entry its release wants.
WaitsFor(r, s) ==
  LET t == tx[r] IN
  /\ r # s
  /\ \/ t.pc = "received" /\ t.req.kind = "accept" /\ HoldsEntry(s, t.req.entry)
     \/ t.pc = "received" /\ t.req.kind # "accept" /\ HoldsRow(s, t.req.id)
     \/ t.pc = "key" /\ HoldsKey(s, t.req.actor, t.req.key)
     \/ t.pc = "exclude" /\ Blocks(s, t.draft)
     \/ t.pc = "lock" /\ \E e \in t.wanted : HoldsEntry(s, e)

\* r is on a circle of requests that wait for each other.
Deadlocked(r) ==
  \E S \in SUBSET Requests :
    /\ r \in S
    /\ \E next \in [S -> S] : /\ \A s \in S : WaitsFor(s, next[s])
                             /\ \A s \in S : \E u \in S : next[u] = s

\* The deadlock detector aborts one request of a circle.
BreakDeadlock == \E r \in Requests : Deadlocked(r) /\ Fail(r)

\* A worker runs its request on, PostgreSQL grants a lock to whoever has waited longest, so a
\* request that can go on again and again does, and its detector looks for a deadlock
\* whenever a request has waited for deadlock_timeout.
FairSpec ==
  /\ Spec
  /\ \A r \in Requests : SF_vars(Handle(r))
  /\ WF_vars(BreakDeadlock)
-----------------------------------------------------------------------------
(***************************************************************************)
(* Properties.                                                             *)
(***************************************************************************)

\* No employee has two appointments that occupy overlapping times, whatever bookings, moves,
\* cancellations and status changes race (test_booking_concurrency, docs/architecture.md,
\* "Booking safety").
NoDoubleBooking ==
  \A a, b \in Ids :
    a # b /\ appts[a] # None /\ appts[b] # None => ~Clash(appts[a], appts[b])

\* A client's key belongs to one appointment.  The advisory lock and the lookup alone
\* ensure it: a booking that reaches its insert finds no row, committed or not, under its
\* key, so uq_appointments_client_idempotency_key never fires.
OneBookingPerKey ==
  /\ \A a, b \in Ids :
       a # b /\ appts[a] # None /\ appts[b] # None
         => <<appts[a].client, appts[a].key>> # <<appts[b].client, appts[b].key>>
  /\ \A r \in Requests : tx[r].pc = "flush" /\ Books(tx[r].req) =>
       LET row == tx[r].draft
           sameKey(other) == other.client = row.client /\ other.key = row.key
       IN /\ \A id \in Ids : appts[id] # None => ~sameKey(appts[id])
          /\ \A s \in Requests \ {r} : Wrote(s) /\ Books(tx[s].req) => ~sameKey(tx[s].draft)

\* The first n rows of an audit log leave the appointment at a start: the last of them that
\* moved it, or created it, moved it there.
Leaves(log, n, start) ==
  \E i \in 1 .. n : log[i].to = start /\ \A k \in i + 1 .. n : log[k].to = None

\* The append-only trail tells the whole story of a row: its history is a chain of legal
\* transitions from its creation to its present status; its audit log leads from where it was
\* booked to where it is, each row starting where the rows before it leave off, and ends with
\* the cancellation of a cancelled one.  A lost update would break a chain.
TrailExplainsRow ==
  \A id \in Ids :
    LET h == history[id]
        log == audit[id]
    IN IF appts[id] = None
       THEN h = <<>> /\ log = <<>>
       ELSE /\ h # <<>> /\ h[1] = [old |-> None, new |-> "BOOKED"]
            /\ \A i \in 2 .. Len(h) : h[i].old = h[i-1].new /\ h[i].new \in Allowed[h[i].old]
            /\ h[Len(h)].new = appts[id].status
            /\ log # <<>>
            /\ log[1] = [action |-> "CREATED", from |-> None, to |-> appts[id].print.start]
            /\ \A i \in 2 .. Len(log) :
                 /\ log[i].action # "CREATED"
                 /\ log[i].action \in {"RESCHEDULED", "CANCELLED"} =>
                      log[i].from # None /\ Leaves(log, i - 1, log[i].from)
            /\ Leaves(log, Len(log), appts[id].start)
            /\ \A i \in 1 .. Len(log) : log[i].action = "CANCELLED" <=>
                 i = Len(log) /\ appts[id].status = "CANCELLED"

\* A completed, cancelled or missed appointment never changes again, and no step changes
\* whose appointment it is.
TerminalIsFinal ==
  [][\A id \in Ids : appts[id] # None =>
       /\ appts'[id] # None
       /\ Allowed[appts[id].status] = {} => appts'[id] = appts[id]
       /\ SameBooking(appts[id], appts'[id])]_vars

\* Sending a booking again under its key never books twice and never fails: once the
\* appointment is there, the retry is answered 200 even if the slot is long past, taken or
\* cancelled (docs/architecture.md:63, test_original_idempotency_request_replays_after_reschedule).
RetryIsReplayed ==
  [][\A r \in Requests :
       /\ InFlight(r) /\ tx[r].req.kind = "create" /\ tx'[r] = Idle
       /\ \E id \in Ids :
            /\ appts[id] # None
            /\ appts[id].client = tx[r].req.actor /\ appts[id].key = tx[r].req.key
            /\ appts[id].print = tx[r].draft.print
       => reply'.code \in {200, 500}]_vars

\* An entry is matched exactly in the step in which an appointment leaves the slot the
\* match offers: never to a slot nobody gave up, never to the one the appointment moves to.
MatchOnlyOnRelease ==
  [][\A e \in Entries :
       (waitlist'[e] # None /\ waitlist'[e].status = "MATCHED" /\ waitlist'[e] # waitlist[e]) =>
         LET offer == waitlist'[e] IN
         /\ waitlist[e].status = "WAITING"
         /\ offer.from <= offer.matchedStart /\ offer.matchedStart < offer.until
         /\ offer.employee \in {None, offer.matchedEmployee}
         /\ \E id \in Ids :
              /\ appts[id] # None /\ Occupies(appts[id]) /\ appts[id].service = offer.service
              /\ appts[id].employee = offer.matchedEmployee
              /\ appts[id].start = offer.matchedStart
              /\ Occupies(appts'[id]) => appts'[id].start # offer.matchedStart]_vars

\* A match is spent once: of two acceptances of an entry under different keys one books.
AcceptedOnce ==
  \A client \in Clients, print \in Prints :
    LET booked == {id \in Ids : /\ appts[id] # None /\ appts[id].client = client
                                /\ appts[id].print = print}
        spent == {e \in Entries :
                    /\ waitlist[e] # None /\ waitlist[e].status = "ACCEPTED"
                    /\ waitlist[e].client = client /\ waitlist[e].service = print.service
                    /\ waitlist[e].matchedEmployee = print.employee
                    /\ waitlist[e].matchedStart = print.start}
    IN print.note = "Waitlist match" =>
         /\ Cardinality(booked) <= Cardinality(spent)
         /\ spent # {} => booked # {}

\* Concurrent requests come to the same as one operation after another: every commit is one
\* legal booking, move or status change of the ledger as it stands then (docs/architecture.md:40,
\* "a successful operation is committed in one transaction").
Abstract == INSTANCE Ledger WITH ledger <- appts
ImplementsLedger == Abstract!Spec

\* Each of them waits for another.
StandStill(S) == S # {} /\ \A r \in S : \E s \in S : WaitsFor(r, s)

\* Both have written, and each is in the other's way.
Rivals(r, s) == /\ r # s /\ tx[r].pc = "exclude" /\ tx[s].pc = "exclude"
                /\ Clash(tx[r].draft, tx[s].draft)

\* Requests that wait for each other are rivals: in every set of requests that stands still
\* there are two whose uncommitted rows clash, or a release that locks its entries, which
\* match_released_slot asks for in no order.  Keys, locked rows and the times that moves
\* leave never make a circle by themselves, and of two requests both are releases or both
\* want the same time: a release and an acceptance never stand still, although the
\* acceptance holds an entry and wants a time, and a move holds a time and wants entries.
OnlyRivalsDeadlock ==
  /\ \A S \in SUBSET Requests : StandStill(S) =>
       \/ \E r \in S : tx[r].pc = "lock"
       \/ \E r, s \in S : Rivals(r, s)
  /\ \A r, s \in Requests : WaitsFor(r, s) /\ WaitsFor(s, r) =>
       Rivals(r, s) \/ (tx[r].pc = "lock" /\ tx[s].pc = "lock")

\* Every request is answered: whatever requests wait for each other, those that PostgreSQL
\* leaves get their turn.
EveryRequestAnswered == \A r \in Requests : InFlight(r) ~> ~InFlight(r)

\* An acceptance sent again under its key is answered as the first one was, as README.md
\* promises for critical mutations.  The code refuses it: the entry is no longer MATCHED.
AcceptRetryIsReplayed ==
  [][\A r \in Requests :
       /\ InFlight(r) /\ tx[r].req.kind = "accept" /\ tx'[r] = Idle
       /\ \E id \in Ids :
            LET entry == waitlist[tx[r].req.entry]
            IN /\ appts[id] # None /\ appts[id].print.note = "Waitlist match"
               /\ appts[id].client = tx[r].req.actor /\ appts[id].key = tx[r].req.key
               /\ entry # None /\ entry.client = tx[r].req.actor
               /\ entry.status = "ACCEPTED"
               /\ appts[id].print.employee = entry.matchedEmployee
               /\ appts[id].print.start = entry.matchedStart
       => reply'.code # 409]_vars
-----------------------------------------------------------------------------
(***************************************************************************)
(* The inductive invariant: why the properties above hold.                 *)
(***************************************************************************)

\* A transaction inside the advisory lock of its key; one whose row version has passed the
\* exclusion constraint.
Keyed(t)   == t.pc \in {"validate", "flush", "exclude", "commit"} /\ Books(t.req)
Passed(t)  == t.pc \in {"match", "lock", "commit"} /\ t.draft # None

\* A transaction that books: its draft is a new row of its client under its key.
BookingForm(t) ==
  /\ t.pc \in {"key", "validate", "flush", "exclude", "commit"}
  /\ t.target \in Ids /\ t.seen = None
  /\ t.req.kind = "create" => t.claimed = {}
  /\ t.draft = None => t.pc = "commit" /\ t.req.kind = "accept"
  /\ t.draft # None =>
       \E employee \in Employees, service \in Services, start \in Times, note \in Notes :
         t.draft = NewRow(t.req.actor, employee, service, start, t.req.key, note)

\* A transaction that changes a row: its draft is one operation away from the row it loaded.
ChangeForm(t) ==
  /\ t.target = t.req.id /\ t.seen # None /\ t.draft # None
  /\ t.claimed # {} => t.pc \in {"lock", "commit"} /\ t.req.kind # "status"
  /\ \/ /\ t.req.kind = "reschedule"
        /\ t.pc \in {"validate", "flush", "exclude", "match", "lock", "commit"}
        /\ t.seen.status \in {"BOOKED", "CONFIRMED"}
        /\ t.draft = [t.seen EXCEPT !.start = t.req.start]
     \/ /\ t.req.kind = "cancel" /\ t.pc \in {"match", "lock", "commit"}
        /\ "CANCELLED" \in Allowed[t.seen.status]
        /\ t.draft = [t.seen EXCEPT !.status = "CANCELLED"]
     \/ /\ t.req.kind = "status" /\ t.pc \in {"exclude", "commit"}
        /\ t.req.to \in Allowed[t.seen.status]
        /\ t.draft = [t.seen EXCEPT !.status = t.req.to]

ReceivedForm(t) ==
  /\ t.seen = None /\ t.draft = None /\ t.claimed = {}
  /\ IF Books(t.req) THEN t.req.kind = "accept" /\ t.target \in Ids ELSE t.target = None

Form(t) ==
  IF t.pc = "idle" THEN t = Idle
  ELSE /\ t.req \in Request
       /\ IF t.pc = "received" THEN ReceivedForm(t)
          ELSE IF Books(t.req) THEN BookingForm(t) ELSE ChangeForm(t)

\* The transaction agrees with the committed tables: a booking's id is still unused, a
\* changed row is still the one it loaded; its key is still unused; what has passed the
\* constraint fits in beside the committed rows.
FitsTables(t) ==
  /\ \A e \in t.wanted \cup t.claimed : waitlist[e] # None
  /\ t.target # None => appts[t.target] = t.seen
  /\ Keyed(t) /\ t.draft # None =>
       \A id \in Ids : appts[id] # None =>
         appts[id].client # t.req.actor \/ appts[id].key # t.req.key
  /\ Passed(t) => ~Taken(t.target, t.draft)

\* Two transactions change different rows, hold different keys, and have not both passed
\* with clashing versions.
Apart(t, u) ==
  /\ t.target # None => t.target # u.target
  /\ Keyed(t) /\ Keyed(u) => t.req.actor # u.req.actor \/ t.req.key # u.req.key
  /\ Passed(t) /\ Passed(u) => ~Clash(t.draft, u.draft)

UniqueKeys ==
  \A a, b \in Ids : a # b /\ appts[a] # None /\ appts[b] # None
    => appts[a].client # appts[b].client \/ appts[a].key # appts[b].key

\* What the locks and the constraint keep true of all open transactions at once: each fits
\* the tables, any two are apart, and so the committed rows neither overlap nor share a key.
Consistent ==
  /\ NoDoubleBooking
  /\ UniqueKeys
  /\ \A r \in Requests : Form(tx[r]) /\ FitsTables(tx[r])
  /\ \A r, s \in Requests : r # s => Apart(tx[r], tx[s])
=============================================================================
