------------------------------ MODULE Reviews ------------------------------
(***************************************************************************)
(* Reviews of completed appointments: their authors, the moderators, the   *)
(* employees who reply and the clients who report or read them.            *)
(*                                                                         *)
(* Every request loads a row without a lock, decides, and writes in a      *)
(* later statement, at READ COMMITTED; the service commits in the middle   *)
(* of the request, and what comes after that is not undone by a failure.   *)
(* The flush and the commit follow each other at once and hold the lock of *)
(* one row, so they are one step here: Write.                              *)
(*                                                                         *)
(* SQLAlchemy writes the columns of a row that differ from those it        *)
(* loaded, and no others: two requests that change the same row leave a    *)
(* mixture of both.                                                        *)
(***************************************************************************)
EXTENDS Integers, Sequences, FiniteSets

CONSTANTS
  Clients,     \* users with role CLIENT
  Employees,   \* employees, and the users they are linked to
  Admins,      \* users with role ADMIN
  Members,     \* users of the organisation; the others belong to another one
  Appts,       \* appointments of the organisation
  ClientOf,    \* [Appts -> Clients]
  EmployeeOf,  \* [Appts -> Employees]
  Fields,      \* columns that the author writes: the ratings, comment, is_anonymous
  Values,      \* what they hold
  Overall,     \* the column overall_rating
  Texts,       \* replies, and reasons of moderators
  Window,      \* the setting REVIEW_EDIT_WINDOW_HOURS
  Horizon,     \* bounds the clock
  MaxAudit,    \* bounds the changes: none is asked for beyond
  Requests,    \* request slots: bounds the requests in flight at once
  Inputs,      \* the requests that users send
  None         \* SQL NULL / Python None

Actors   == Clients \cup Employees \cup Admins
Times    == 0 .. Horizon
Statuses == {"PUBLISHED", "HIDDEN", "FLAGGED"}
Withdrawal == "Withdrawn by author"

Review == [appt : Appts, content : [Fields -> Values], status : Statuses,
           note : Texts \cup {None, Withdrawal}, created : Times]

ReviewReport == [review : Nat, reporter : Actors, status : {"OPEN", "RESOLVED", "DISMISSED"}]

ReviewReply == [review : Nat, author : Actors, text : Texts]

\* change: the "old -> new" in a moderator's audit row.
ReviewAuditLog ==
  [review : Nat, actor : Actors, change : (Statuses \X Statuses) \cup {None},
   action : {"REVIEW_CREATED", "REVIEW_UPDATED", "REVIEW_HIDDEN", "REVIEW_RESTORED",
             "REVIEW_REPORTED", "REVIEW_REPLY_CREATED", "REVIEW_REPLY_UPDATED"}]

CreateRequest == [kind : {"create"}, actor : Clients, appt : Appts,
                  content : [Fields -> Values]]
UpdateRequest == [kind : {"update"}, actor : Clients, review : Nat,
                  change : UNION {[S -> Values] : S \in SUBSET Fields \ {{}}}]
WithdrawRequest == [kind : {"withdraw"}, actor : Clients, review : Nat]
ReportRequest   == [kind : {"report"}, actor : Actors, review : Nat]
ReplyRequest    == [kind : {"reply"}, actor : Actors, review : Nat, text : Texts]
ModerationRequest   == [kind : {"moderate"}, actor : Actors, review : Nat, to : Statuses,
                        reason : Texts]
ReportStatusRequest == [kind : {"resolve"}, actor : Actors, review : Nat, reporter : Actors,
                        to : {"RESOLVED", "DISMISSED"}]
WriteRequest == CreateRequest \cup UpdateRequest \cup WithdrawRequest \cup ReportRequest
                  \cup ReplyRequest \cup ModerationRequest \cup ReportStatusRequest

Sorts  == {"newest", "oldest", "highest_rating", "lowest_rating"}
Counts == Nat \ {0}

\* get: one review; appointment: that of an appointment; browse: a page of an employee's
\* reviews; mine: of one's own; queue: of the moderators' list.  An employee's rating and
\* the moderators' statistics read all of them, as a page that is large enough.
ReadRequest ==
       [kind : {"get"}, actor : Actors, review : Nat]
  \cup [kind : {"appointment"}, actor : Actors, appt : Appts]
  \cup [kind : {"browse"}, actor : Actors, employee : Employees,
        rating : Values \cup {None}, sort : Sorts, page : Counts, size : Counts]
  \cup [kind : {"mine"}, actor : Clients, sort : {"newest"}, page : Counts, size : Counts]
  \cup [kind : {"queue"}, actor : Actors, status : Statuses \cup {None},
        sort : {"newest"}, page : Counts, size : Counts]

Request == WriteRequest \cup ReadRequest

ASSUME TableAssumption == /\ ClientOf \in [Appts -> Clients]
                          /\ EmployeeOf \in [Appts -> Employees]
ASSUME RatingAssumption == Overall \in Fields /\ Values \subseteq Int
ASSUME InputAssumption == Inputs \subseteq Request
ASSUME BoundAssumption == Window \in Nat /\ Horizon \in Nat /\ MaxAudit \in Nat
ASSUME RolesAssumption == Clients \cap (Employees \cup Admins) = {} /\ Employees \cap Admins = {}
ASSUME NoneAssumption  ==
  None \notin Request \cup Review \cup ReviewReport \cup ReviewReply \cup Texts
                \cup (Statuses \X Statuses) \cup Statuses \cup Values

VARIABLES
  completed,  \* the appointments that are COMPLETED
  reviews,    \* table reviews, in the order of the commits: the id of a row is its index
  reports,    \* table review_reports
  replies,    \* table review_replies
  audit,      \* table review_audit_log, oldest first
  now,        \* the clock
  tx,         \* what each request does next, and the row it has loaded
  reply,      \* the answer the last step sent, if it sent one
  during      \* history: the versions that the reviews had since a reader's arrival

tables == <<completed, reviews, reports, replies, audit>>
vars   == <<completed, reviews, reports, replies, audit, now, tx, reply, during>>

\* total: how many reviews the first SELECT of a list has counted.
Tx == [pc : {"idle", "load", "write", "items", "answer"}, req : Request \cup {None},
       seen : Review \cup ReviewReport \cup ReviewReply \cup {None}, total : Nat]

\* What the lists look at in a row: its status and its rating.
Versions        == Statuses \X Values
Version(review) == <<review.status, review.content[Overall]>>

Codes == {200, 201, 204, 403, 404, 409, 500}

Idle == [pc |-> "idle", req |-> None, seen |-> None, total |-> 0]

TypeOK ==
  /\ completed \subseteq Appts
  /\ reviews \in Seq(Review)
  /\ reports \subseteq ReviewReport
  /\ replies \subseteq ReviewReply
  /\ audit \in Seq(ReviewAuditLog)
  /\ now \in Times
  /\ tx \in [Requests -> Tx]
  /\ reply \in [to : Requests, code : Codes, shown : SUBSET Nat, total : Nat] \cup {None}
  /\ during \in [Requests -> Seq(SUBSET Versions)]

Init ==
  /\ completed = {} /\ reviews = <<>> /\ reports = {} /\ replies = {} /\ audit = <<>>
  /\ now = 0
  /\ tx = [r \in Requests |-> Idle]
  /\ reply = None
  /\ during = [r \in Requests |-> <<>>]

-----------------------------------------------------------------------------
(***************************************************************************)
(* Who may do what.  (A Faulty... definition is a wrong variant of the one *)
(* below it, used by no specification.)                                    *)
(***************************************************************************)

InFlight(r) == tx[r].pc # "idle"
Known(q)    == q.review \in DOMAIN reviews

\* _is_admin.
IsAdmin(actor) == actor \in Admins /\ actor \in Members

\* _can_edit.
CanEdit(review, actor) ==
  /\ ClientOf[review.appt] = actor
  /\ review.status # "HIDDEN"
  /\ now <= review.created + Window

\* get_authorized, of a review that is there.
Authorized(table, n, actor) ==
  /\ actor \in Members
  /\ \/ table[n].status = "PUBLISHED"
     \/ ClientOf[table[n].appt] = actor
     \/ IsAdmin(actor)

\* get_for_appointment, before it looks for the review.
Concerned(appt, actor) == actor \in {ClientOf[appt], EmployeeOf[appt]} \/ IsAdmin(actor)

\* The status of the reviews listed is not looked at.
FaultyIsListed(review, rating) == rating \in {None, review.content[Overall]}

\* The filter of list_employee, rating and the averages of analytics.
IsListed(review, rating) ==
  review.status = "PUBLISHED" /\ rating \in {None, review.content[Overall]}

\* The rows a reading request selects from a table of reviews.
Selected(table, q) ==
  {n \in DOMAIN table :
     CASE q.kind = "get"         -> n = q.review /\ Authorized(table, n, q.actor)
       [] q.kind = "appointment" -> /\ table[n].appt = q.appt /\ Concerned(q.appt, q.actor)
                                    /\ Authorized(table, n, q.actor)
       [] q.kind = "browse"      -> /\ EmployeeOf[table[n].appt] = q.employee
                                    /\ IsListed(table[n], q.rating)
       [] q.kind = "mine"        -> ClientOf[table[n].appt] = q.actor
       [] q.kind = "queue"       -> q.status \in {None, table[n].status}}

\* A review comes before another in a list.
Precedes(sort, a, b) ==
  CASE sort = "newest"         -> a.created > b.created
    [] sort = "oldest"         -> a.created < b.created
    [] sort = "highest_rating" -> \/ a.content[Overall] > b.content[Overall]
                                  \/ /\ a.content[Overall] = b.content[Overall]
                                     /\ a.created > b.created
    [] sort = "lowest_rating"  -> \/ a.content[Overall] < b.content[Overall]
                                  \/ /\ a.content[Overall] = b.content[Overall]
                                     /\ a.created > b.created

\* How many rows the pages before it take.
Offset(q) == (q.page - 1) * q.size

\* ORDER BY, OFFSET and LIMIT: the pages that a list may show, since reviews of one time come
\* in any order.  Those before the page are skipped; a page that is not full is the last.
Pages(table, q) ==
  LET rows == Selected(table, q)
      Ordered(top, rest) ==
        \A m \in top, n \in rest : ~Precedes(q.sort, table[n], table[m])
  IN {shown \in SUBSET rows : \E skipped \in SUBSET (rows \ shown) :
        /\ Cardinality(skipped) <= Offset(q)
        /\ Cardinality(shown) <= q.size
        /\ shown # {} => Cardinality(skipped) = Offset(q)
        /\ Cardinality(shown) < q.size => skipped \cup shown = rows
        /\ Ordered(skipped, rows \ skipped)
        /\ Ordered(shown, rows \ (skipped \cup shown))}

\* The requests that read are turned away: from another organisation, or no administrator.
TurnedAway(q) ==
  \/ q.kind = "browse" /\ q.actor \notin Members
  \/ q.kind = "queue" /\ ~IsAdmin(q.actor)

-----------------------------------------------------------------------------
(***************************************************************************)
(* Steps of a request.                                                     *)
(***************************************************************************)

Proceed(r, t) ==
  /\ tx' = [tx EXCEPT ![r] = t]
  /\ reply' = None
  /\ UNCHANGED <<tables, now, during>>

\* The request is answered, with the reviews it shows.
AnswerWith(r, code, shown, total) ==
  /\ tx' = [tx EXCEPT ![r] = Idle]
  /\ reply' = [to |-> r, code |-> code, shown |-> shown, total |-> total]
  /\ during' = [during EXCEPT ![r] = <<>>]
  /\ UNCHANGED <<tables, now>>

Answer(r, code) == AnswerWith(r, code, {}, 0)

\* A request reaches its handler.
Submit(r) ==
  /\ tx[r].pc = "idle"
  /\ \E q \in Inputs :
       /\ q \in WriteRequest => Len(audit) < MaxAudit
       /\ tx' = [tx EXCEPT ![r] = [Idle EXCEPT !.pc = "load", !.req = q]]
       /\ during' = [during EXCEPT ![r] = IF q \in WriteRequest THEN <<>>
                                           ELSE [n \in DOMAIN reviews |-> {Version(reviews[n])}]]
  /\ reply' = None
  /\ UNCHANGED <<tables, now>>

\* A review of the appointment is there.
Reviewed(appt) == \E n \in DOMAIN reviews : reviews[n].appt = appt

\* The status of the appointment is not looked at.
FaultyIsCompleted(appt) == TRUE

IsCompleted(appt) == appt \in completed

\* create, up to the insert.
LoadCreate(r) ==
  LET q == tx[r].req
      mine == ClientOf[q.appt] = q.actor /\ q.actor \in Members
  IN /\ tx[r].pc = "load" /\ q.kind = "create"
     /\ \/ ~mine /\ Answer(r, 404)
        \/ mine /\ ~IsCompleted(q.appt) /\ Answer(r, 409)
        \/ mine /\ IsCompleted(q.appt) /\ Reviewed(q.appt) /\ Answer(r, 409)
        \/ /\ mine /\ IsCompleted(q.appt) /\ ~Reviewed(q.appt)
           /\ Proceed(r, [tx[r] EXCEPT !.pc = "write"])

\* update and withdraw, up to their changes.
LoadEdit(r) ==
  LET q == tx[r].req
      mine == Known(q) /\ q.actor \in Members /\ ClientOf[reviews[q.review].appt] = q.actor
  IN /\ tx[r].pc = "load" /\ q.kind \in {"update", "withdraw"}
     /\ \/ ~mine /\ Answer(r, 404)
        \/ mine /\ ~CanEdit(reviews[q.review], q.actor) /\ Answer(r, 409)
        \/ /\ mine /\ CanEdit(reviews[q.review], q.actor)
           /\ Proceed(r, [tx[r] EXCEPT !.pc = "write", !.seen = reviews[q.review]])

\* report, up to the insert.
LoadReport(r) ==
  LET q == tx[r].req
      found == Known(q) /\ q.actor \in Members /\ reviews[q.review].status # "HIDDEN"
      own == ClientOf[reviews[q.review].appt] = q.actor
  IN /\ tx[r].pc = "load" /\ q.kind = "report"
     /\ \/ ~found /\ Answer(r, 404)
        \/ found /\ own /\ Answer(r, 409)
        \/ found /\ ~own /\ Proceed(r, [tx[r] EXCEPT !.pc = "write"])

\* upsert_reply, up to the change: it looks neither at the status of the review nor for locks.
LoadReply(r) ==
  LET q == tx[r].req
      found == /\ Known(q) /\ q.actor \in Members
               /\ q.actor \in Employees => EmployeeOf[reviews[q.review].appt] = q.actor
      may == q.actor \in Employees \/ IsAdmin(q.actor)
      there == {x \in replies : x.review = q.review}
  IN /\ tx[r].pc = "load" /\ q.kind = "reply"
     /\ \/ ~found /\ Answer(r, 404)
        \/ found /\ ~may /\ Answer(r, 403)
        \/ /\ found /\ may
           /\ \E x \in IF there = {} THEN {None} ELSE there :
                Proceed(r, [tx[r] EXCEPT !.pc = "write", !.seen = x])

\* moderate, up to its changes.
LoadModeration(r) ==
  LET q == tx[r].req
      found == Known(q) /\ IsAdmin(q.actor)
  IN /\ tx[r].pc = "load" /\ q.kind = "moderate"
     /\ \/ ~found /\ Answer(r, 404)
        \/ found /\ Proceed(r, [tx[r] EXCEPT !.pc = "write", !.seen = reviews[q.review]])

\* resolve_report, up to its change.
LoadResolution(r) ==
  LET q == tx[r].req
      there == {x \in reports : x.review = q.review /\ x.reporter = q.reporter}
  IN /\ tx[r].pc = "load" /\ q.kind = "resolve"
     /\ \/ (there = {} \/ ~IsAdmin(q.actor)) /\ Answer(r, 404)
        \/ /\ IsAdmin(q.actor)
           /\ \E x \in there : Proceed(r, [tx[r] EXCEPT !.pc = "write", !.seen = x])

\* The row is written as the request has it, with the columns it has only loaded.
FaultyWritten(current, loaded, wanted) == wanted

\* A column after the UPDATE of a request that loaded one value and wants another.
Written(current, loaded, wanted) == IF wanted = loaded THEN current ELSE wanted

\* The row as update, withdraw or moderate want it.
Draft(q, seen) ==
  CASE q.kind = "update"   -> [seen EXCEPT !.content = [f \in Fields |->
                                 IF f \in DOMAIN q.change THEN q.change[f] ELSE @[f]]]
    [] q.kind = "withdraw" -> [seen EXCEPT !.status = "HIDDEN", !.note = Withdrawal]
    [] q.kind = "moderate" -> [seen EXCEPT !.status = q.to, !.note = q.reason]

\* Restoring a review is audited as an edit.
FaultyAction(q) ==
  CASE q.kind = "update"   -> "REVIEW_UPDATED"
    [] q.kind = "withdraw" -> "REVIEW_HIDDEN"
    [] q.kind = "moderate" -> IF q.to = "HIDDEN" THEN "REVIEW_HIDDEN" ELSE "REVIEW_UPDATED"

\* The action that is audited.
Action(q) ==
  CASE q.kind = "update"   -> "REVIEW_UPDATED"
    [] q.kind = "withdraw" -> "REVIEW_HIDDEN"
    [] q.kind = "moderate" -> CASE q.to = "PUBLISHED" -> "REVIEW_RESTORED"
                                [] q.to = "HIDDEN"    -> "REVIEW_HIDDEN"
                                [] q.to = "FLAGGED"   -> "REVIEW_UPDATED"

\* _audit.
Audited(n, q, action, change) ==
  audit' = Append(audit, [review |-> n, actor |-> q.actor, action |-> action,
                          change |-> change])

\* The service has committed.  The reviews have the versions they now have.
Committed(r) ==
  /\ tx' = [tx EXCEPT ![r] = [@ EXCEPT !.pc = "answer"]]
  /\ reply' = None
  /\ during' = [s \in Requests |-> [n \in DOMAIN during[s] |->
                                      during[s][n] \cup {Version(reviews'[n])}]]
  /\ UNCHANGED <<completed, now>>

\* The insert of create, under uq_reviews_appointment.
WriteCreate(r) ==
  LET q == tx[r].req
  IN /\ tx[r].pc = "write" /\ q.kind = "create"
     /\ \/ Reviewed(q.appt) /\ Answer(r, 409)
        \/ /\ ~Reviewed(q.appt)
           /\ reviews' = Append(reviews, [appt |-> q.appt, content |-> q.content,
                                          status |-> "PUBLISHED", note |-> None, created |-> now])
           /\ Audited(Len(reviews) + 1, q, "REVIEW_CREATED", None)
           /\ UNCHANGED <<reports, replies>>
           /\ Committed(r)

\* The UPDATE of update, withdraw and moderate.
WriteChange(r) ==
  LET q == tx[r].req
      seen == tx[r].seen
      wanted == Draft(q, seen)
      current == reviews[q.review]
  IN /\ tx[r].pc = "write" /\ q.kind \in {"update", "withdraw", "moderate"}
     /\ reviews' = [reviews EXCEPT ![q.review] =
          [current EXCEPT !.content = [f \in Fields |-> Written(current.content[f],
                                                         seen.content[f], wanted.content[f])],
                          !.status = Written(current.status, seen.status, wanted.status),
                          !.note = Written(current.note, seen.note, wanted.note)]]
     /\ Audited(q.review, q, Action(q),
                IF q.kind = "moderate" THEN <<seen.status, q.to>> ELSE None)
     /\ UNCHANGED <<reports, replies>>
     /\ Committed(r)

\* The insert of report, under uq_review_reports_reporter.
WriteReport(r) ==
  LET q == tx[r].req
      twin == \E x \in reports : x.review = q.review /\ x.reporter = q.actor
  IN /\ tx[r].pc = "write" /\ q.kind = "report"
     /\ \/ twin /\ Answer(r, 409)
        \/ /\ ~twin
           /\ reports' = reports \cup {[review |-> q.review, reporter |-> q.actor,
                                        status |-> "OPEN"]}
           /\ Audited(q.review, q, "REVIEW_REPORTED", None)
           /\ UNCHANGED <<reviews, replies>>
           /\ Committed(r)

\* A second reply is inserted beside the first.
FaultyReplied(n) == FALSE

\* A reply to the review is there: uq_review_replies_review.
Replied(n) == \E x \in replies : x.review = n

\* The insert of upsert_reply, whose violation of the constraint nobody handles, or its UPDATE.
WriteReply(r) ==
  LET q == tx[r].req
      seen == tx[r].seen
  IN /\ tx[r].pc = "write" /\ q.kind = "reply"
     /\ \/ seen = None /\ Replied(q.review) /\ Answer(r, 500)
        \/ /\ seen = None /\ ~Replied(q.review)
           /\ replies' = replies \cup {[review |-> q.review, author |-> q.actor,
                                        text |-> q.text]}
           /\ Audited(q.review, q, "REVIEW_REPLY_CREATED", None)
           /\ UNCHANGED <<reviews, reports>>
           /\ Committed(r)
        \/ /\ seen # None
           /\ replies' = {IF x.review # q.review THEN x
                          ELSE [x EXCEPT !.author = Written(@, seen.author, q.actor),
                                         !.text = Written(@, seen.text, q.text)] : x \in replies}
           /\ Audited(q.review, q, "REVIEW_REPLY_UPDATED", None)
           /\ UNCHANGED <<reviews, reports>>
           /\ Committed(r)

\* The UPDATE of resolve_report, which is not audited.
WriteResolution(r) ==
  LET q == tx[r].req
      seen == tx[r].seen
  IN /\ tx[r].pc = "write" /\ q.kind = "resolve"
     /\ reports' = {IF x.review # q.review \/ x.reporter # q.reporter THEN x
                    ELSE [x EXCEPT !.status = Written(@, seen.status, q.to)] : x \in reports}
     /\ UNCHANGED <<reviews, replies, audit>>
     /\ Committed(r)

SuccessCode(q) == CASE q.kind \in {"create", "report"} -> 201
                    [] q.kind = "withdraw"             -> 204
                    [] OTHER                           -> 200

\* The answer after the commit.  A reply is read again first, with the review it is about,
\* as any reader would: the employee is refused a review that is not published.
AnswerWrite(r) ==
  LET q == tx[r].req
  IN /\ tx[r].pc = "answer"
     /\ \/ q.kind # "reply" /\ Answer(r, SuccessCode(q))
        \/ /\ q.kind = "reply" /\ Authorized(reviews, q.review, q.actor)
           /\ Answer(r, SuccessCode(q))
        \/ q.kind = "reply" /\ ~Authorized(reviews, q.review, q.actor) /\ Answer(r, 404)

\* get_authorized and get_for_appointment: one SELECT.
ReadOne(r) ==
  LET q == tx[r].req
      shown == Selected(reviews, q)
  IN /\ tx[r].pc = "load" /\ q.kind \in {"get", "appointment"}
     /\ IF shown = {} THEN Answer(r, 404) ELSE AnswerWith(r, 200, shown, Cardinality(shown))

\* list_employee, list_mine, list_admin, rating and analytics: the first SELECT counts.
ReadCount(r) ==
  LET q == tx[r].req
  IN /\ tx[r].pc = "load" /\ q.kind \in {"browse", "mine", "queue"}
     /\ \/ TurnedAway(q) /\ Answer(r, 404)
        \/ /\ ~TurnedAway(q)
           /\ Proceed(r, [tx[r] EXCEPT !.pc = "items",
                            !.total = Cardinality(Selected(reviews, q))])

\* The second SELECT reads the rows of the page.
ReadItems(r) ==
  /\ tx[r].pc = "items"
  /\ \E shown \in Pages(reviews, tx[r].req) : AnswerWith(r, 200, shown, tx[r].total)

\* Any other exception, a lost connection, a crash: what is committed stays.
Fail(r) == InFlight(r) /\ Answer(r, 500)

\* An appointment is completed (Booking), which is final.
Complete ==
  /\ \E appt \in Appts \ completed : completed' = completed \cup {appt}
  /\ reply' = None
  /\ UNCHANGED <<reviews, reports, replies, audit, now, tx, during>>

Tick ==
  /\ now < Horizon /\ now' = now + 1
  /\ reply' = None
  /\ UNCHANGED <<tables, tx, during>>

Write(r) == \/ WriteCreate(r) \/ WriteChange(r) \/ WriteReport(r)
            \/ WriteReply(r) \/ WriteResolution(r)

Next ==
  \/ \E r \in Requests :
       \/ Submit(r)
       \/ LoadCreate(r) \/ LoadEdit(r) \/ LoadReport(r) \/ LoadReply(r)
       \/ LoadModeration(r) \/ LoadResolution(r)
       \/ Write(r) \/ AnswerWrite(r)
       \/ ReadOne(r) \/ ReadCount(r) \/ ReadItems(r)
       \/ Fail(r)
  \/ Complete
  \/ Tick

Spec == Init /\ [][Next]_vars

-----------------------------------------------------------------------------
(***************************************************************************)
(* Properties.                                                             *)
(***************************************************************************)

\* The parties of a review: its author, and who may reply to it.
Author(n)     == ClientOf[reviews[n].appt]
Replier(n, a) == a = EmployeeOf[reviews[n].appt] \/ a \in Admins

\* An audit row says that an actor did something to a review.
Told(n, a, action) ==
  \E i \in DOMAIN audit : audit[i].review = n /\ audit[i].actor = a /\ audit[i].action = action

\* What a request has loaded is about the rows it names, and allowed what it is about to do.
Loaded(t) ==
  LET q == t.req
      seen == t.seen
  IN /\ q \in WriteRequest
     /\ q.kind = "create" => ClientOf[q.appt] = q.actor /\ q.appt \in completed
     /\ q.kind # "create" => Known(q)
     /\ q.kind \in {"update", "withdraw"} => q.actor = Author(q.review)
     /\ q.kind \in {"update", "withdraw", "moderate"} =>
          seen \in Review /\ seen.appt = reviews[q.review].appt
     /\ q.kind \in {"moderate", "resolve"} => q.actor \in Admins
     /\ q.kind = "report" => q.actor # Author(q.review)
     /\ q.kind = "reply" =>
          /\ Replier(q.review, q.actor)
          /\ seen # None => seen \in ReviewReply /\ Replier(q.review, seen.author)
                              /\ (\E x \in replies : x.review = q.review)
     /\ q.kind = "resolve" => seen \in ReviewReport /\ (\E x \in reports :
                               x.review = q.review /\ x.reporter = q.reporter)

TxOK(t) ==
  /\ t.pc = "idle"   => t = Idle
  /\ t.pc # "idle"   => t.req \in Inputs
  /\ t.pc = "write"  => Loaded(t)
  /\ t.pc = "items"  => t.req \in ReadRequest
  /\ t.pc = "answer" => t.req \in WriteRequest /\ (t.req.kind # "create" => Known(t.req))

\* The inductive invariant: the types; what requests in flight have loaded (create,
\* _get_owned, get_authorized and their like) still holds in the tables; an appointment that
\* is reviewed is completed and has one review, a review has one reply, of its employee or an
\* administrator, and a reporter, never the author, reports it once.
Consistent ==
  /\ TypeOK
  /\ \A r \in Requests : TxOK(tx[r]) /\ Len(during[r]) <= Len(reviews)
  /\ \A n \in DOMAIN reviews : reviews[n].appt \in completed
  /\ \A m, n \in DOMAIN reviews : reviews[m].appt = reviews[n].appt => m = n
  /\ \A x \in replies : x.review \in DOMAIN reviews /\ Replier(x.review, x.author)
  /\ \A x, y \in replies : x.review = y.review => x = y
  /\ \A x \in reports : x.review \in DOMAIN reviews /\ x.reporter # Author(x.review)
  /\ \A x, y \in reports : x.review = y.review /\ x.reporter = y.reporter => x = y

\* The audit log tells the story of the tables, whatever requests race: it is about reviews
\* that are there; each review was created once, by its author, before anything else
\* happened to it; the replies and reports there are those it tells of, each inserted once;
\* and a review that is not published was hidden or changed by somebody it names.
AuditAgrees ==
  /\ \A i \in DOMAIN audit : audit[i].review \in DOMAIN reviews
  /\ \A n \in DOMAIN reviews : Told(n, Author(n), "REVIEW_CREATED")
  /\ \A i, j \in DOMAIN audit :
       audit[i].action = "REVIEW_CREATED" /\ audit[i].review = audit[j].review => i <= j
  /\ \A x \in reports : Told(x.review, x.reporter, "REVIEW_REPORTED")
  /\ \A i \in DOMAIN audit : audit[i].action = "REVIEW_REPORTED" =>
       \E x \in reports : x.review = audit[i].review /\ x.reporter = audit[i].actor
  /\ \A i, j \in DOMAIN audit :
       /\ audit[i].action = "REVIEW_REPLY_CREATED" /\ audit[i].review = audit[j].review
       /\ audit[j].action \in {"REVIEW_REPLY_CREATED", "REVIEW_REPLY_UPDATED"}
       => i <= j
  /\ \A n \in DOMAIN reviews :
       (\E x \in replies : x.review = n) <=> \E a \in Actors : Told(n, a, "REVIEW_REPLY_CREATED")
  /\ \A n \in DOMAIN reviews : reviews[n].status = "HIDDEN" =>
       \E a \in Actors : (a = Author(n) \/ a \in Admins) /\ Told(n, a, "REVIEW_HIDDEN")

\* The step adds an audit row about a review, by one of some actors, with an action.
Records(n, actors, action) ==
  \E a \in actors, c \in (Statuses \X Statuses) \cup {None} :
    audit' = Append(audit, [review |-> n, actor |-> a, action |-> action, change |-> c])

\* No change goes unrecorded and the log is only appended to, one row with the change, in
\* every method of ReviewService but resolve_report: a new review and new content are
\* recorded as their author's, a review that becomes hidden as hidden by its author or an
\* administrator, one that is published again as restored by an administrator, and a
\* reply as the employee's or an administrator's.
EveryChangeIsAudited ==
  [][/\ audit' # audit => Len(audit') = Len(audit) + 1 /\ SubSeq(audit', 1, Len(audit)) = audit
     /\ Len(reviews') # Len(reviews) =>
          /\ Len(reviews') = Len(reviews) + 1
          /\ Records(Len(reviews'), {ClientOf[reviews'[Len(reviews')].appt]}, "REVIEW_CREATED")
     /\ \A n \in DOMAIN reviews :
          LET old == reviews[n]
              new == reviews'[n]
          IN /\ new.appt = old.appt /\ new.created = old.created
             /\ new.content # old.content => Records(n, {Author(n)}, "REVIEW_UPDATED")
             /\ new.status # old.status =>
                  \/ new.status = "HIDDEN" /\ Records(n, {Author(n)} \cup Admins, "REVIEW_HIDDEN")
                  \/ new.status = "PUBLISHED" /\ Records(n, Admins, "REVIEW_RESTORED")
                  \/ new.status = "FLAGGED" /\ Records(n, Admins, "REVIEW_UPDATED")
             /\ new.note # old.note => audit' # audit
     /\ replies' # replies => \E n \in DOMAIN reviews, action \in
            {"REVIEW_REPLY_CREATED", "REVIEW_REPLY_UPDATED"} :
              Records(n, {EmployeeOf[reviews[n].appt]} \cup Admins, action)]_vars

\* A review that its author withdrew or a moderator hid is shown again only by a moderator's
\* own step, never as the side effect of a request that had loaded it before it was hidden:
\* update loads the row without a lock and writes it later.
OnlyModerationUnhides ==
  [][\A n \in DOMAIN reviews :
       reviews[n].status = "HIDDEN" /\ reviews'[n].status # "HIDDEN" =>
         \E r \in Requests : /\ tx[r].pc = "write" /\ tx'[r].pc = "answer"
                             /\ tx[r].req.kind = "moderate" /\ tx[r].req.review = n
                             /\ tx[r].req.to = reviews'[n].status]_vars

\* What an answer shows has been readable by whom it goes to while the request was handled,
\* though a list is two SELECTs at READ COMMITTED: a review that was never published in the
\* time is shown only to its author and the administrators.  The list of an employee's
\* reviews counts at least those that were published, with the rating asked for, all the
\* time; and a page that is not full is the last: of these reviews it misses no more than
\* the pages before it hold, so a first page that is not full misses none.
AnswersShowThePublished ==
  [][reply' # None /\ reply'.code = 200 =>
       LET r == reply'.to
           q == tx[r].req
       IN /\ \A n \in reply'.shown \cap DOMAIN during[r] :
               \/ \E v \in during[r][n] :
                    v[1] = "PUBLISHED" /\ (q.kind = "browse" => q.rating \in {None, v[2]})
               \/ Author(n) = q.actor \/ IsAdmin(q.actor)
          /\ q.kind = "browse" =>
               LET always == {n \in DOMAIN during[r] :
                                /\ EmployeeOf[reviews[n].appt] = q.employee
                                /\ \A v \in during[r][n] :
                                     v[1] = "PUBLISHED" /\ q.rating \in {None, v[2]}}
               IN /\ Cardinality(always) <= reply'.total
                  /\ Cardinality(reply'.shown) < q.size =>
                       Cardinality(always \ reply'.shown) <= Offset(q)]_vars

\* A request that is refused has changed nothing: "One transaction boundary per request,
\* with rollback on every failure" (app/database.py).
RefusedChangesNothing ==
  [][\A r \in Requests : tx[r].pc = "answer" /\ tx'[r].pc = "idle" =>
       reply'.code \notin {403, 404, 409}]_vars
=============================================================================
