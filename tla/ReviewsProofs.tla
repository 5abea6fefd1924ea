--------------------------- MODULE ReviewsProofs ---------------------------
(***************************************************************************)
(* Proofs about Reviews, for any number of users, appointments and         *)
(* concurrent requests.  Every step but the writes changes only the state  *)
(* of its own request; and a write keeps what the other requests have      *)
(* loaded true: rows are never removed and keep what they are about.       *)
(***************************************************************************)
EXTENDS Reviews, SequenceTheorems, FiniteSetTheorems, TLAPS

-----------------------------------------------------------------------------
(***************************************************************************)
(* Requests.                                                               *)
(***************************************************************************)

WriteKinds == {"create", "update", "withdraw", "report", "reply", "moderate", "resolve"}

LEMMA InputType ==
  ASSUME NEW q \in Inputs
  PROVE  /\ q \in Request /\ q # None /\ q.actor \in Actors
         /\ q \in WriteRequest <=> q.kind \in WriteKinds
         /\ q \in WriteRequest <=> q \notin ReadRequest
<1>1. q \in Request /\ q # None
  BY InputAssumption, NoneAssumption
<1>2. CASE q \in WriteRequest
  <2>1. q.kind \in WriteKinds /\ q.actor \in Actors
    BY <1>2 DEF WriteRequest, CreateRequest, UpdateRequest, WithdrawRequest, ReportRequest,
                ReplyRequest, ModerationRequest, ReportStatusRequest, WriteKinds, Actors
  <2>2. q \notin ReadRequest
    BY <2>1 DEF ReadRequest, WriteKinds
  <2> QED
    BY <1>1, <1>2, <2>1, <2>2
<1>3. CASE q \in ReadRequest
  <2>1. q.kind \notin WriteKinds /\ q.actor \in Actors
    BY <1>3 DEF ReadRequest, WriteKinds, Actors
  <2>2. q \notin WriteRequest
    BY <2>1 DEF WriteRequest, CreateRequest, UpdateRequest, WithdrawRequest, ReportRequest,
                ReplyRequest, ModerationRequest, ReportStatusRequest, WriteKinds
  <2> QED
    BY <1>1, <1>3, <2>1, <2>2
<1> QED
  BY <1>1, <1>2, <1>3 DEF Request

\* What the requests that write consist of.
LEMMA WriteType ==
  ASSUME NEW q \in WriteRequest
  PROVE  /\ q.kind = "create"   => /\ q.actor \in Clients /\ q.appt \in Appts
                                   /\ q.content \in [Fields -> Values]
         /\ q.kind = "update"   => /\ q.actor \in Clients
                                   /\ \A f \in DOMAIN q.change : q.change[f] \in Values
         /\ q.kind = "withdraw" => q.actor \in Clients
         /\ q.kind = "moderate" => q.to \in Statuses /\ q.reason \in Texts
         /\ q.kind = "reply"    => q.text \in Texts
         /\ q.kind = "resolve"  => q.to \in {"RESOLVED", "DISMISSED"}
<1>1. q.kind = "create" => /\ q.actor \in Clients /\ q.appt \in Appts
                           /\ q.content \in [Fields -> Values]
  BY DEF WriteRequest, CreateRequest, UpdateRequest, WithdrawRequest, ReportRequest,
         ReplyRequest, ModerationRequest, ReportStatusRequest
<1>2. q.kind = "update" => q \in UpdateRequest
  BY DEF WriteRequest, CreateRequest, UpdateRequest, WithdrawRequest, ReportRequest,
         ReplyRequest, ModerationRequest, ReportStatusRequest
<1>3. q \in UpdateRequest => /\ q.actor \in Clients
                             /\ \A f \in DOMAIN q.change : q.change[f] \in Values
  BY DEF UpdateRequest
<1>4. /\ q.kind = "withdraw" => q.actor \in Clients
      /\ q.kind = "moderate" => q.to \in Statuses /\ q.reason \in Texts
      /\ q.kind = "reply"    => q.text \in Texts
      /\ q.kind = "resolve"  => q.to \in {"RESOLVED", "DISMISSED"}
  BY DEF WriteRequest, CreateRequest, UpdateRequest, WithdrawRequest, ReportRequest,
         ReplyRequest, ModerationRequest, ReportStatusRequest
<1> QED
  BY <1>1, <1>2, <1>3, <1>4

LEMMA VersionType ==
  ASSUME NEW x \in Review
  PROVE  Version(x) \in Versions
<1>1. x.status \in Statuses /\ x.content \in [Fields -> Values]
  BY DEF Review
<1>2. x.content[Overall] \in Values
  BY <1>1, RatingAssumption
<1> QED
  BY <1>1, <1>2 DEF Version, Versions

LEMMA IdleIsFine == Idle \in Tx /\ TxOK(Idle) /\ Idle.pc = "idle"
  BY DEF Idle, Tx, TxOK

LEMMA Before ==
  ASSUME Consistent, NEW r \in Requests, tx[r].pc # "idle"
  PROVE  /\ tx[r] \in Tx /\ TxOK(tx[r]) /\ tx[r].req \in Inputs
         /\ reviews \in Seq(Review) /\ DOMAIN reviews = 1 .. Len(reviews) /\ Len(reviews) \in Nat
<1>1. tx[r] \in Tx /\ TxOK(tx[r]) /\ reviews \in Seq(Review)
  BY DEF Consistent, TypeOK
<1> QED
  BY <1>1 DEF TxOK

-----------------------------------------------------------------------------
(***************************************************************************)
(* Steps that change one request only.                                     *)
(***************************************************************************)

\* The part of the invariant that is about the tables.
RowsOK ==
  /\ \A n \in DOMAIN reviews : reviews[n].appt \in completed
  /\ \A m, n \in DOMAIN reviews : reviews[m].appt = reviews[n].appt => m = n
  /\ \A x \in replies : x.review \in DOMAIN reviews /\ Replier(x.review, x.author)
  /\ \A x, y \in replies : x.review = y.review => x = y
  /\ \A x \in reports : x.review \in DOMAIN reviews /\ x.reporter # Author(x.review)
  /\ \A x, y \in reports : x.review = y.review /\ x.reporter = y.reporter => x = y

LEMMA LocalStep ==
  ASSUME Consistent, NEW r \in Requests, NEW t \in Tx, TxOK(t),
         tx' = [tx EXCEPT ![r] = t], UNCHANGED <<tables, now>>,
         reply' \in [to : Requests, code : Codes, shown : SUBSET Nat, total : Nat] \cup {None},
         NEW d \in Seq(SUBSET Versions), Len(d) <= Len(reviews),
         during' = [during EXCEPT ![r] = d]
  PROVE  Consistent'
<1>1. UNCHANGED <<completed, reviews, reports, replies, audit, now>>
  BY DEF tables
<1>2. \A s \in Requests : /\ tx'[s] = IF s = r THEN t ELSE tx[s]
                          /\ during'[s] = IF s = r THEN d ELSE during[s]
  BY DEF Consistent, TypeOK
<1>3. TypeOK'
  BY <1>1 DEF Consistent, TypeOK
<1>4. RowsOK'
  BY <1>1 DEF Consistent, RowsOK, Replier, Author
<1>5. ASSUME NEW s \in Requests
      PROVE  TxOK(tx[s])' /\ Len(during'[s]) <= Len(reviews')
  <2>1. TxOK(tx'[s]) /\ Len(during'[s]) <= Len(reviews)
    BY <1>2 DEF Consistent
  <2> QED
    BY <1>1, <2>1 DEF TxOK, Loaded, Known, Author, Replier
<1> QED
  BY <1>3, <1>4, <1>5 DEF Consistent, RowsOK

\* A request goes on, reading and answering no more than it did.
LEMMA ProceedStep ==
  ASSUME Consistent, NEW r \in Requests, NEW t \in Tx, TxOK(t), Proceed(r, t)
  PROVE  Consistent'
<1>1. during[r] \in Seq(SUBSET Versions) /\ Len(during[r]) <= Len(reviews)
  BY DEF Consistent, TypeOK
<1>2. during' = [during EXCEPT ![r] = during[r]]
  BY DEF Proceed, Consistent, TypeOK
<1> QED
  BY <1>1, <1>2, LocalStep DEF Proceed

LEMMA AnswerWithStep ==
  ASSUME Consistent, NEW r \in Requests, NEW code \in Codes, NEW shown \in SUBSET Nat,
         NEW total \in Nat, AnswerWith(r, code, shown, total)
  PROVE  Consistent'
<1>1. reply' \in [to : Requests, code : Codes, shown : SUBSET Nat, total : Nat] \cup {None}
  BY DEF AnswerWith
<1>2. <<>> \in Seq(SUBSET Versions) /\ Len(<<>>) <= Len(reviews)
  BY DEF Consistent, TypeOK
<1> QED
  BY <1>1, <1>2, LocalStep, IdleIsFine DEF AnswerWith

LEMMA AnswerStep ==
  ASSUME Consistent, NEW r \in Requests, NEW code \in Codes, Answer(r, code)
  PROVE  Consistent'
<1>1. {} \in SUBSET Nat /\ 0 \in Nat
  OBVIOUS
<1> QED
  BY <1>1, AnswerWithStep DEF Answer

LEMMA AnyCode == Codes = {200, 201, 204, 403, 404, 409, 500}
  BY DEF Codes

LEMMA SubmitStep ==
  ASSUME Consistent, NEW r \in Requests, Submit(r)
  PROVE  Consistent'
<1>1. PICK q \in Inputs :
        /\ tx' = [tx EXCEPT ![r] = [Idle EXCEPT !.pc = "load", !.req = q]]
        /\ during' = [during EXCEPT ![r] = IF q \in WriteRequest THEN <<>>
                                            ELSE [n \in DOMAIN reviews |-> {Version(reviews[n])}]]
  BY DEF Submit
<1> DEFINE t == [Idle EXCEPT !.pc = "load", !.req = q]
           d == IF q \in WriteRequest THEN <<>>
                ELSE [n \in DOMAIN reviews |-> {Version(reviews[n])}]
<1>2. q \in Request
  BY InputType
<1>3. t \in Tx /\ t.pc = "load" /\ t.req = q
  BY <1>2 DEF Idle, Tx
<1> HIDE DEF t
<1>4. TxOK(t)
  BY <1>3 DEF TxOK
<1>5. d \in Seq(SUBSET Versions) /\ Len(d) <= Len(reviews)
  <2> DEFINE N == Len(reviews)
  <2>1. reviews \in Seq(Review) /\ N \in Nat /\ DOMAIN reviews = 1 .. N
    BY DEF Consistent, TypeOK
  <2>2. ASSUME NEW n \in 1 .. N
        PROVE  {Version(reviews[n])} \in SUBSET Versions
    <3>1. reviews[n] \in Review
      BY <2>1
    <3> QED
      BY <3>1, VersionType
  <2> HIDE DEF N
  <2>3. CASE q \in WriteRequest
    <3>1. d = <<>>
      BY <2>3
    <3> QED
      BY <2>1, <3>1 DEF N
  <2>4. CASE q \notin WriteRequest
    <3>1. d = [n \in 1 .. N |-> {Version(reviews[n])}]
      BY <2>1, <2>4
    <3> HIDE DEF d
    <3>2. d \in Seq(SUBSET Versions) /\ Len(d) = N
      BY <2>1, <2>2, <3>1
    <3> QED
      BY <2>1, <3>2 DEF N
  <2> QED
    BY <2>3, <2>4
<1>6. tx' = [tx EXCEPT ![r] = t] /\ during' = [during EXCEPT ![r] = d]
  BY <1>1 DEF t
<1> HIDE DEF d
<1> QED
  BY <1>3, <1>4, <1>5, <1>6, LocalStep DEF Submit

\* A request has loaded what it needs to write.
LEMMA ReadyStep ==
  ASSUME Consistent, NEW r \in Requests, tx[r].pc # "idle", NEW t \in Tx,
         t.pc = "write", t.req = tx[r].req, Loaded(t), Proceed(r, t)
  PROVE  Consistent'
<1>1. TxOK(t)
  BY Before DEF TxOK
<1> QED
  BY <1>1, ProceedStep

LEMMA LoadCreateStep ==
  ASSUME Consistent, NEW r \in Requests, LoadCreate(r)
  PROVE  Consistent'
<1> DEFINE q == tx[r].req
           t == [tx[r] EXCEPT !.pc = "write"]
<1>1. ASSUME ClientOf[q.appt] = q.actor, IsCompleted(q.appt), q.kind = "create",
             tx[r].pc = "load", Proceed(r, t)
      PROVE  Consistent'
  <2>1. tx[r] \in Tx /\ q \in Inputs /\ q \in WriteRequest
    BY <1>1, Before, InputType DEF WriteKinds
  <2>2. t \in Tx /\ t.pc = "write" /\ t.req = q
    BY <2>1 DEF Tx
  <2> HIDE DEF t
  <2>3. Loaded(t)
    BY <1>1, <2>1, <2>2 DEF Loaded, IsCompleted
  <2> QED
    BY <1>1, <2>2, <2>3, ReadyStep
<1> QED
  BY <1>1, AnswerStep, AnyCode DEF LoadCreate

LEMMA LoadEditStep ==
  ASSUME Consistent, NEW r \in Requests, LoadEdit(r)
  PROVE  Consistent'
<1> DEFINE q == tx[r].req
           t == [tx[r] EXCEPT !.pc = "write", !.seen = reviews[q.review]]
<1>1. ASSUME Known(q), ClientOf[reviews[q.review].appt] = q.actor, q.kind \in {"update", "withdraw"},
             tx[r].pc = "load", Proceed(r, t)
      PROVE  Consistent'
  <2>1. /\ tx[r] \in Tx /\ q \in Inputs /\ q \in WriteRequest /\ reviews \in Seq(Review)
    BY <1>1, Before, InputType DEF WriteKinds
  <2>2. reviews[q.review] \in Review
    BY <1>1, <2>1 DEF Known
  <2>3. t \in Tx /\ t.pc = "write" /\ t.req = q /\ t.seen = reviews[q.review]
    BY <2>1, <2>2 DEF Tx
  <2> HIDE DEF t
  <2>4. Loaded(t)
    BY <1>1, <2>1, <2>2, <2>3 DEF Loaded, Author
  <2> QED
    BY <1>1, <2>3, <2>4, ReadyStep
<1> QED
  BY <1>1, AnswerStep, AnyCode DEF LoadEdit

LEMMA LoadReportStep ==
  ASSUME Consistent, NEW r \in Requests, LoadReport(r)
  PROVE  Consistent'
<1> DEFINE q == tx[r].req
           t == [tx[r] EXCEPT !.pc = "write"]
<1>1. ASSUME Known(q), ClientOf[reviews[q.review].appt] # q.actor, q.kind = "report",
             tx[r].pc = "load", Proceed(r, t)
      PROVE  Consistent'
  <2>1. tx[r] \in Tx /\ q \in Inputs /\ q \in WriteRequest
    BY <1>1, Before, InputType DEF WriteKinds
  <2>2. t \in Tx /\ t.pc = "write" /\ t.req = q
    BY <2>1 DEF Tx
  <2> HIDE DEF t
  <2>3. Loaded(t)
    BY <1>1, <2>1, <2>2 DEF Loaded, Author
  <2> QED
    BY <1>1, <2>2, <2>3, ReadyStep
<1> QED
  BY <1>1, AnswerStep, AnyCode DEF LoadReport

LEMMA LoadReplyStep ==
  ASSUME Consistent, NEW r \in Requests, LoadReply(r)
  PROVE  Consistent'
<1> DEFINE q == tx[r].req
           there == {x \in replies : x.review = q.review}
<1>1. ASSUME NEW x \in IF there = {} THEN {None} ELSE there, Known(q),
             q.actor \in Employees => EmployeeOf[reviews[q.review].appt] = q.actor,
             q.actor \in Employees \/ IsAdmin(q.actor), q.kind = "reply", tx[r].pc = "load",
             Proceed(r, [tx[r] EXCEPT !.pc = "write", !.seen = x])
      PROVE  Consistent'
  <2> DEFINE t == [tx[r] EXCEPT !.pc = "write", !.seen = x]
  <2>1. tx[r] \in Tx /\ q \in Inputs /\ q \in WriteRequest
    BY <1>1, Before, InputType DEF WriteKinds
  <2>2. x = None \/ (x \in replies /\ x.review = q.review)
    BY <1>1
  <2>3. x # None => x \in ReviewReply /\ Replier(x.review, x.author)
    BY <2>2 DEF Consistent, TypeOK
  <2>4. x \in ReviewReply \cup {None}
    BY <2>3
  <2>5. t \in Tx /\ t.pc = "write" /\ t.req = q /\ t.seen = x
    BY <2>1, <2>4 DEF Tx
  <2> HIDE DEF t, there
  <2>6. Replier(q.review, q.actor)
    BY <1>1 DEF Replier, IsAdmin
  <2>7. Loaded(t)
    BY <1>1, <2>1, <2>2, <2>3, <2>5, <2>6 DEF Loaded
  <2> QED
    BY <1>1, <2>5, <2>7, ReadyStep DEF t
<1>2. CASE Answer(r, 404) \/ Answer(r, 403)
  BY <1>2, AnswerStep, AnyCode
<1>3. CASE ~(Answer(r, 404) \/ Answer(r, 403))
  <2>1. /\ Known(q) /\ (q.actor \in Employees => EmployeeOf[reviews[q.review].appt] = q.actor)
        /\ q.actor \in Employees \/ IsAdmin(q.actor)
        /\ q.kind = "reply" /\ tx[r].pc = "load"
        /\ \E x \in IF there = {} THEN {None} ELSE there :
             Proceed(r, [tx[r] EXCEPT !.pc = "write", !.seen = x])
    BY <1>3 DEF LoadReply
  <2> HIDE DEF there
  <2> QED
    BY <1>1, <2>1
<1> QED
  BY <1>2, <1>3

LEMMA LoadModerationStep ==
  ASSUME Consistent, NEW r \in Requests, LoadModeration(r)
  PROVE  Consistent'
<1> DEFINE q == tx[r].req
           t == [tx[r] EXCEPT !.pc = "write", !.seen = reviews[q.review]]
<1>1. ASSUME Known(q), IsAdmin(q.actor), q.kind = "moderate", tx[r].pc = "load", Proceed(r, t)
      PROVE  Consistent'
  <2>1. /\ tx[r] \in Tx /\ q \in Inputs /\ q \in WriteRequest /\ reviews \in Seq(Review)
    BY <1>1, Before, InputType DEF WriteKinds
  <2>2. reviews[q.review] \in Review
    BY <1>1, <2>1 DEF Known
  <2>3. t \in Tx /\ t.pc = "write" /\ t.req = q /\ t.seen = reviews[q.review]
    BY <2>1, <2>2 DEF Tx
  <2> HIDE DEF t
  <2>4. Loaded(t)
    BY <1>1, <2>1, <2>2, <2>3 DEF Loaded, IsAdmin
  <2> QED
    BY <1>1, <2>3, <2>4, ReadyStep
<1> QED
  BY <1>1, AnswerStep, AnyCode DEF LoadModeration

LEMMA LoadResolutionStep ==
  ASSUME Consistent, NEW r \in Requests, LoadResolution(r)
  PROVE  Consistent'
<1> DEFINE q == tx[r].req
<1>1. ASSUME NEW x \in reports, x.review = q.review, x.reporter = q.reporter,
             IsAdmin(q.actor), q.kind = "resolve", tx[r].pc = "load",
             Proceed(r, [tx[r] EXCEPT !.pc = "write", !.seen = x])
      PROVE  Consistent'
  <2> DEFINE t == [tx[r] EXCEPT !.pc = "write", !.seen = x]
  <2>1. /\ tx[r] \in Tx /\ q \in Inputs /\ q \in WriteRequest
    BY <1>1, Before, InputType DEF WriteKinds
  <2>2. x \in ReviewReport /\ Known(q)
    BY <1>1 DEF Consistent, TypeOK, Known
  <2>3. t \in Tx /\ t.pc = "write" /\ t.req = q /\ t.seen = x
    BY <2>1, <2>2 DEF Tx
  <2> HIDE DEF t
  <2>4. Loaded(t)
    BY <1>1, <2>1, <2>2, <2>3 DEF Loaded, IsAdmin
  <2> QED
    BY <1>1, <2>3, <2>4, ReadyStep DEF t
<1>2. CASE Answer(r, 404)
  BY <1>2, AnswerStep, AnyCode
<1>3. CASE ~Answer(r, 404)
  <2>1. /\ IsAdmin(q.actor) /\ q.kind = "resolve" /\ tx[r].pc = "load"
        /\ \E x \in {y \in reports : y.review = q.review /\ y.reporter = q.reporter} :
             Proceed(r, [tx[r] EXCEPT !.pc = "write", !.seen = x])
    BY <1>3 DEF LoadResolution
  <2> QED
    BY <1>1, <2>1
<1> QED
  BY <1>2, <1>3

-----------------------------------------------------------------------------
(***************************************************************************)
(* Steps that write.                                                       *)
(***************************************************************************)

\* Rows are kept, and stay about what they are about.
Kept ==
  /\ completed \subseteq completed' /\ Len(reviews) <= Len(reviews')
  /\ \A n \in DOMAIN reviews : n \in DOMAIN reviews' /\ reviews'[n].appt = reviews[n].appt
  /\ \A x \in replies : \E y \in replies' : y.review = x.review
  /\ \A x \in reports : \E y \in reports' : y.review = x.review /\ y.reporter = x.reporter

\* What has been loaded still holds.
LEMMA LoadedStays ==
  ASSUME Kept, NEW t, Loaded(t)
  PROVE  LET q == t.req
             seen == t.seen
         IN /\ q \in WriteRequest
            /\ q.kind = "create" => ClientOf[q.appt] = q.actor /\ q.appt \in completed'
            /\ q.kind # "create" => q.review \in DOMAIN reviews'
            /\ q.kind \in {"update", "withdraw"} => q.actor = ClientOf[reviews'[q.review].appt]
            /\ q.kind \in {"update", "withdraw", "moderate"} =>
                 seen \in Review /\ seen.appt = reviews'[q.review].appt
            /\ q.kind \in {"moderate", "resolve"} => q.actor \in Admins
            /\ q.kind = "report" => q.actor # ClientOf[reviews'[q.review].appt]
            /\ q.kind = "reply" =>
                 /\ q.actor = EmployeeOf[reviews'[q.review].appt] \/ q.actor \in Admins
                 /\ seen # None =>
                      /\ seen \in ReviewReply
                      /\ (seen.author = EmployeeOf[reviews'[q.review].appt]
                            \/ seen.author \in Admins)
                      /\ (\E x \in replies' : x.review = q.review)
            /\ q.kind = "resolve" =>
                 /\ seen \in ReviewReport
                 /\ (\E x \in reports' : x.review = q.review /\ x.reporter = q.reporter)
  BY DEF Kept, Loaded, Known, Author, Replier

LEMMA TxStays ==
  ASSUME Kept, NEW s \in Requests, tx'[s] = tx[s], TxOK(tx[s])
  PROVE  TxOK(tx[s])'
<1>1. tx[s].pc = "write" => Loaded(tx[s])'
  BY LoadedStays DEF TxOK, Loaded, Known, Author, Replier
<1>2. tx[s].pc = "answer" =>
        tx[s].req \in WriteRequest /\ (tx[s].req.kind # "create" => Known(tx[s].req)')
  BY DEF TxOK, Kept, Known
<1> QED
  BY <1>1, <1>2 DEF TxOK, Loaded, Known, Author, Replier

LEMMA CommittedStep ==
  ASSUME Consistent, NEW r \in Requests, tx[r].pc = "write", Committed(r), Kept, RowsOK',
         reviews' \in Seq(Review), reports' \subseteq ReviewReport,
         replies' \subseteq ReviewReply, audit' \in Seq(ReviewAuditLog)
  PROVE  Consistent'
<1> DEFINE t == [tx[r] EXCEPT !.pc = "answer"]
<1>1. /\ tx' = [tx EXCEPT ![r] = t] /\ reply' = None /\ UNCHANGED <<completed, now>>
      /\ during' = [s \in Requests |-> [n \in DOMAIN during[s] |->
                                           during[s][n] \cup {Version(reviews'[n])}]]
  BY DEF Committed, Consistent, TypeOK
<1>2. /\ tx[r] \in Tx /\ TxOK(tx[r]) /\ tx[r].req \in Inputs
  BY Before
<1>3. t \in Tx /\ t.pc = "answer" /\ t.req = tx[r].req
  BY <1>2 DEF Tx
<1> HIDE DEF t
<1>4. \A s \in Requests : tx'[s] = IF s = r THEN t ELSE tx[s]
  BY <1>1 DEF Consistent, TypeOK
<1>5. ASSUME NEW s \in Requests
      PROVE  during'[s] \in Seq(SUBSET Versions) /\ Len(during'[s]) <= Len(reviews')
  <2> DEFINE d == during[s]
             L == Len(d)
  <2>1. d \in Seq(SUBSET Versions) /\ L \in Nat /\ DOMAIN d = 1 .. L /\ L <= Len(reviews)
    BY DEF Consistent, TypeOK
  <2>2. during'[s] = [n \in DOMAIN d |-> d[n] \cup {Version(reviews'[n])}]
    BY <1>1
  <2> DEFINE M == Len(reviews')
  <2>3. /\ M \in Nat /\ DOMAIN reviews' = 1 .. M /\ Len(reviews) \in Nat
        /\ Len(reviews) <= M /\ \A n \in 1 .. M : reviews'[n] \in Review
    BY DEF Kept, Consistent, TypeOK
  <2> HIDE DEF d, L, M
  <2>4. \A n \in 1 .. L : d[n] \cup {Version(reviews'[n])} \in SUBSET Versions
    <3>1. SUFFICES ASSUME NEW n \in 1 .. L
                   PROVE  d[n] \cup {Version(reviews'[n])} \in SUBSET Versions
      OBVIOUS
    <3>2. n \in 1 .. M
      BY <2>1, <2>3
    <3>3. Version(reviews'[n]) \in Versions
      BY <2>3, <3>2, VersionType
    <3>4. d[n] \in SUBSET Versions
      BY <2>1 DEF L
    <3> QED
      BY <3>3, <3>4
  <2>5. during'[s] = [n \in 1 .. L |-> d[n] \cup {Version(reviews'[n])}]
    BY <2>1, <2>2
  <2>6. during'[s] \in Seq(SUBSET Versions) /\ Len(during'[s]) = L
    BY <2>1, <2>4, <2>5
  <2> QED
    BY <2>1, <2>3, <2>6 DEF M
<1>6. TypeOK'
  BY <1>1, <1>3, <1>5 DEF Consistent, TypeOK
<1>7. ASSUME NEW s \in Requests
      PROVE  TxOK(tx[s])'
  <2>1. CASE s = r
    <3>1. tx'[s] = t
      BY <1>4, <2>1
    <3>2. tx[r].req \in WriteRequest /\ (tx[r].req.kind # "create" => Known(tx[r].req))
      BY <1>2 DEF TxOK, Loaded
    <3> QED
      BY <1>2, <1>3, <3>1, <3>2 DEF TxOK, Known, Kept
  <2>2. CASE s # r
    BY <1>4, <2>2, TxStays DEF Consistent
  <2> QED
    BY <2>1, <2>2
<1> QED
  BY <1>5, <1>6, <1>7 DEF Consistent, RowsOK

Actions == {"REVIEW_CREATED", "REVIEW_UPDATED", "REVIEW_HIDDEN", "REVIEW_RESTORED",
            "REVIEW_REPORTED", "REVIEW_REPLY_CREATED", "REVIEW_REPLY_UPDATED"}

\* One row is added to the log.
LEMMA Logged ==
  ASSUME Consistent, NEW n \in Nat, NEW q, q.actor \in Actors, NEW action \in Actions,
         NEW change \in (Statuses \X Statuses) \cup {None}, Audited(n, q, action, change)
  PROVE  LET L == Len(audit)
         IN /\ L \in Nat /\ DOMAIN audit = 1 .. L
            /\ audit' \in Seq(ReviewAuditLog) /\ Len(audit') = L + 1 /\ DOMAIN audit' = 1 .. L + 1
            /\ \A i \in 1 .. L : audit'[i] = audit[i]
            /\ audit'[L + 1].review = n /\ audit'[L + 1].actor = q.actor
            /\ audit'[L + 1].action = action /\ audit'[L + 1].change = change
            /\ audit' = Append(audit, [review |-> n, actor |-> q.actor, action |-> action,
                                       change |-> change])
            /\ SubSeq(audit', 1, L) = audit
<1> DEFINE row == [review |-> n, actor |-> q.actor, action |-> action, change |-> change]
           L == Len(audit)
<1>1. row \in ReviewAuditLog
  BY DEF ReviewAuditLog, Actions
<1>2. row.review = n /\ row.actor = q.actor /\ row.action = action /\ row.change = change
  OBVIOUS
<1>3. audit' = Append(audit, row) /\ audit \in Seq(ReviewAuditLog)
  BY DEF Audited, Consistent, TypeOK
<1> HIDE DEF row
<1>4. /\ L \in Nat /\ DOMAIN audit = 1 .. L
      /\ audit' \in Seq(ReviewAuditLog) /\ Len(audit') = L + 1 /\ DOMAIN audit' = 1 .. L + 1
      /\ \A i \in 1 .. L : audit'[i] = audit[i]
      /\ audit'[L + 1] = row
  BY <1>1, <1>3
<1>5. SubSeq(audit', 1, L) = audit
  <2> DEFINE s == SubSeq(audit', 1, L)
  <2>1. \A i \in 1 .. L : audit'[i] \in ReviewAuditLog
    BY <1>4
  <2>2. /\ s \in Seq(ReviewAuditLog) /\ Len(s) = L
        /\ \A i \in 1 .. L : s[i] = audit'[i]
    <3>1. /\ s \in Seq(ReviewAuditLog) /\ Len(s) = (IF 1 <= L THEN L - 1 + 1 ELSE 0)
          /\ \A i \in 1 .. L - 1 + 1 : s[i] = audit'[1 + i - 1]
      BY <1>4, <2>1, SubSeqProperties
    <3> QED
      BY <1>4, <3>1
  <2> HIDE DEF s
  <2>3. s = audit
    BY <1>3, <1>4, <2>2, SeqEqual
  <2> QED
    BY <2>3 DEF s
<1> QED
  BY <1>2, <1>3, <1>4, <1>5 DEF row

\* What the insert of a review does.
LEMMA Created ==
  ASSUME Consistent, NEW r \in Requests, WriteCreate(r), ~Answer(r, 409)
  PROVE  LET q == tx[r].req
             N == Len(reviews)
         IN /\ N \in Nat /\ DOMAIN reviews = 1 .. N /\ DOMAIN reviews' = 1 .. N + 1
            /\ reviews' \in Seq(Review) /\ Len(reviews') = N + 1
            /\ \A n \in 1 .. N : reviews'[n] = reviews[n]
            /\ reviews'[N + 1].appt = q.appt /\ reviews'[N + 1].status = "PUBLISHED"
            /\ Audited(N + 1, q, "REVIEW_CREATED", None)
            /\ UNCHANGED <<completed, reports, replies>> /\ Committed(r)
            /\ q.actor = ClientOf[q.appt] /\ q.appt \in completed /\ ~Reviewed(q.appt)
            /\ q.actor \in Actors /\ tx[r].pc = "write"
<1> DEFINE q == tx[r].req
           N == Len(reviews)
           row == [appt |-> q.appt, content |-> q.content, status |-> "PUBLISHED",
                   note |-> None, created |-> now]
<1>1. /\ tx[r].pc = "write" /\ q.kind = "create" /\ ~Reviewed(q.appt)
      /\ reviews' = Append(reviews, row) /\ Audited(N + 1, q, "REVIEW_CREATED", None)
      /\ UNCHANGED <<completed, reports, replies>> /\ Committed(r)
  BY DEF WriteCreate, Committed
<1>2. /\ q \in Inputs /\ Loaded(tx[r]) /\ reviews \in Seq(Review) /\ now \in Times
      /\ DOMAIN reviews = 1 .. N /\ N \in Nat
  BY <1>1, Before DEF TxOK, Consistent, TypeOK
<1>3. /\ q \in WriteRequest /\ ClientOf[q.appt] = q.actor /\ q.appt \in completed
  BY <1>1, <1>2 DEF Loaded
<1>4. q.appt \in Appts /\ q.content \in [Fields -> Values] /\ q.actor \in Actors
  BY <1>1, <1>2, <1>3, WriteType, InputType
<1>5. row \in Review /\ row.appt = q.appt /\ row.status = "PUBLISHED"
  BY <1>2, <1>4 DEF Review, Statuses
<1> HIDE DEF row
<1>6. /\ reviews' \in Seq(Review) /\ Len(reviews') = N + 1 /\ DOMAIN reviews' = 1 .. N + 1
      /\ \A n \in 1 .. N : reviews'[n] = reviews[n]
      /\ reviews'[N + 1] = row
  BY <1>1, <1>2, <1>5
<1> QED
  BY <1>1, <1>2, <1>3, <1>4, <1>5, <1>6

LEMMA WriteCreateStep ==
  ASSUME Consistent, NEW r \in Requests, WriteCreate(r)
  PROVE  Consistent'
<1> DEFINE q == tx[r].req
           N == Len(reviews)
<1>1. CASE Answer(r, 409)
  BY <1>1, AnswerStep, AnyCode
<1>2. CASE ~Answer(r, 409)
  <2>1. /\ N \in Nat /\ DOMAIN reviews = 1 .. N /\ DOMAIN reviews' = 1 .. N + 1
        /\ reviews' \in Seq(Review) /\ Len(reviews') = N + 1
        /\ \A n \in 1 .. N : reviews'[n] = reviews[n]
        /\ reviews'[N + 1].appt = q.appt
        /\ Audited(N + 1, q, "REVIEW_CREATED", None)
        /\ UNCHANGED <<completed, reports, replies>> /\ Committed(r)
        /\ q.appt \in completed /\ ~Reviewed(q.appt)
        /\ q.actor \in Actors /\ tx[r].pc = "write"
    BY <1>2, Created
  <2>2. audit' \in Seq(ReviewAuditLog)
    <3>1. N + 1 \in Nat /\ "REVIEW_CREATED" \in Actions
      BY <2>1 DEF Actions
    <3> QED
      BY <2>1, <3>1, Logged
  <2>3. Kept
    BY <2>1 DEF Kept
  <2>4. reports \subseteq ReviewReport /\ replies \subseteq ReviewReply /\ RowsOK
    BY DEF Consistent, TypeOK, RowsOK
  <2> HIDE DEF N, q
  <2>5. RowsOK'
    <3>1. /\ \A n \in DOMAIN reviews' : reviews'[n].appt \in completed
          /\ \A m, n \in DOMAIN reviews' : reviews'[m].appt = reviews'[n].appt => m = n
      <4>1. \A n \in DOMAIN reviews' : n \in DOMAIN reviews \/ n = N + 1
        BY <2>1
      <4>2. \A n \in DOMAIN reviews : reviews'[n].appt = reviews[n].appt
                                      /\ reviews[n].appt # q.appt
        BY <2>1 DEF Reviewed
      <4> QED
        BY <2>1, <2>4, <4>1, <4>2 DEF RowsOK
    <3>2. /\ \A n \in DOMAIN reviews : n \in DOMAIN reviews' /\ reviews'[n] = reviews[n]
          /\ \A n \in DOMAIN reviews : Author(n)' = Author(n)
          /\ \A n \in DOMAIN reviews : \A a : Replier(n, a)' = Replier(n, a)
      BY <2>1 DEF Author, Replier
    <3> QED
      BY <2>1, <2>4, <3>1, <3>2 DEF RowsOK
  <2> QED
    BY <2>1, <2>2, <2>3, <2>4, <2>5, CommittedStep
<1> QED
  BY <1>1, <1>2

\* What the UPDATE of a review does: a column changes only if the request wants it to.
LEMMA Changed ==
  ASSUME Consistent, NEW r \in Requests, WriteChange(r)
  PROVE  LET q == tx[r].req
             n == q.review
         IN /\ q.kind \in {"update", "withdraw", "moderate"} /\ n \in DOMAIN reviews
            /\ n \in Nat /\ q.actor \in Actors /\ tx[r].pc = "write"
            /\ reviews' \in Seq(Review) /\ Len(reviews') = Len(reviews)
            /\ DOMAIN reviews' = DOMAIN reviews
            /\ \A m \in DOMAIN reviews \ {n} : reviews'[m] = reviews[m]
            /\ reviews'[n].appt = reviews[n].appt /\ reviews'[n].created = reviews[n].created
            /\ reviews'[n].content # reviews[n].content => q.kind = "update"
            /\ reviews'[n].status # reviews[n].status =>
                 \/ q.kind = "withdraw" /\ reviews'[n].status = "HIDDEN"
                 \/ q.kind = "moderate" /\ reviews'[n].status = q.to
            /\ q.kind \in {"update", "withdraw"} => q.actor = Author(n)
            /\ q.kind = "moderate" => q.actor \in Admins /\ q.to \in Statuses
            /\ \E change \in (Statuses \X Statuses) \cup {None} :
                 Audited(n, q, Action(q), change)
            /\ UNCHANGED <<completed, reports, replies>> /\ Committed(r)
<1> DEFINE q == tx[r].req
           n == q.review
           old == reviews[n]
           seen == tx[r].seen
           wanted == Draft(q, seen)
           content == [f \in Fields |-> Written(old.content[f], seen.content[f],
                                                wanted.content[f])]
           status == Written(old.status, seen.status, wanted.status)
           note == Written(old.note, seen.note, wanted.note)
           new == [old EXCEPT !.content = content, !.status = status, !.note = note]
           change == IF q.kind = "moderate" THEN <<seen.status, q.to>> ELSE None
<1>1. /\ tx[r].pc = "write" /\ q.kind \in {"update", "withdraw", "moderate"}
      /\ Audited(n, q, Action(q), change)
      /\ UNCHANGED <<completed, reports, replies>> /\ Committed(r)
  BY DEF WriteChange, Committed
<1>2. /\ q \in Inputs /\ Loaded(tx[r]) /\ reviews \in Seq(Review) /\ q.actor \in Actors
  BY <1>1, Before, InputType DEF TxOK
<1>3. /\ q \in WriteRequest /\ n \in DOMAIN reviews /\ seen \in Review
      /\ q.kind \in {"update", "withdraw"} => q.actor = Author(n)
      /\ q.kind = "moderate" => q.actor \in Admins
  BY <1>1, <1>2 DEF Loaded, Known
<1>4. old \in Review /\ n \in Nat
  BY <1>2, <1>3
<1>5. reviews' = [reviews EXCEPT ![n] = new]
  BY DEF WriteChange
<1>6. /\ q.kind = "update" => \A f \in DOMAIN q.change : q.change[f] \in Values
      /\ q.kind = "moderate" => q.to \in Statuses /\ q.reason \in Texts
  BY <1>3, WriteType
<1>7. /\ wanted.content \in [Fields -> Values] /\ wanted.status \in Statuses
      /\ wanted.note \in Texts \cup {None, Withdrawal}
      /\ q.kind # "update" => wanted.content = seen.content
      /\ q.kind = "update" => wanted.status = seen.status
      /\ q.kind = "withdraw" => wanted.status = "HIDDEN"
      /\ q.kind = "moderate" => wanted.status = q.to
  <2>1. CASE q.kind = "update"
    <3> DEFINE c == [f \in Fields |-> IF f \in DOMAIN q.change THEN q.change[f]
                                      ELSE seen.content[f]]
    <3>1. wanted = [seen EXCEPT !.content = c]
      BY <2>1 DEF Draft
    <3>2. c \in [Fields -> Values]
      BY <1>3, <1>6, <2>1 DEF Review
    <3> HIDE DEF c, wanted
    <3> QED
      BY <1>3, <2>1, <3>1, <3>2 DEF Review
  <2>2. CASE q.kind = "withdraw"
    <3>1. wanted = [seen EXCEPT !.status = "HIDDEN", !.note = Withdrawal]
      BY <2>2 DEF Draft
    <3> HIDE DEF wanted
    <3> QED
      BY <1>3, <2>2, <3>1 DEF Review, Statuses
  <2>3. CASE q.kind = "moderate"
    <3>1. wanted = [seen EXCEPT !.status = q.to, !.note = q.reason]
      BY <2>3 DEF Draft
    <3> HIDE DEF wanted
    <3> QED
      BY <1>3, <1>6, <2>3, <3>1 DEF Review
  <2> QED
    BY <1>1, <2>1, <2>2, <2>3
<1> HIDE DEF wanted
<1>8. content \in [Fields -> Values]
  BY <1>3, <1>4, <1>7 DEF Written, Review
<1>9. status \in Statuses /\ note \in Texts \cup {None, Withdrawal}
  BY <1>3, <1>4, <1>7 DEF Written, Review
<1>10. content # old.content => q.kind = "update"
  <2>1. q.kind # "update" => content = [f \in Fields |-> old.content[f]]
    BY <1>7 DEF Written
  <2>2. old.content \in [Fields -> Values]
    BY <1>4 DEF Review
  <2> QED
    BY <2>1, <2>2
<1>11. status # old.status => \/ q.kind = "withdraw" /\ status = "HIDDEN"
                              \/ q.kind = "moderate" /\ status = q.to
  BY <1>1, <1>7 DEF Written
<1> HIDE DEF content, status, note
<1>12. /\ new \in Review /\ new.content = content /\ new.status = status
       /\ new.appt = old.appt /\ new.created = old.created
  BY <1>4, <1>8, <1>9 DEF Review
<1> HIDE DEF new
<1>13. /\ reviews' \in Seq(Review) /\ Len(reviews') = Len(reviews)
       /\ DOMAIN reviews' = DOMAIN reviews /\ reviews'[n] = new
       /\ \A m \in DOMAIN reviews \ {n} : reviews'[m] = reviews[m]
  BY <1>2, <1>3, <1>5, <1>12
<1>14. change \in (Statuses \X Statuses) \cup {None}
  BY <1>3, <1>6 DEF Review
<1> HIDE DEF change
<1> QED
  BY <1>1, <1>2, <1>3, <1>4, <1>6, <1>10, <1>11, <1>12, <1>13, <1>14

LEMMA ActionType ==
  ASSUME NEW q, q.kind \in {"update", "withdraw", "moderate"},
         q.kind = "moderate" => q.to \in Statuses
  PROVE  Action(q) \in {"REVIEW_UPDATED", "REVIEW_HIDDEN", "REVIEW_RESTORED"}
  BY DEF Action, Statuses

LEMMA WriteChangeStep ==
  ASSUME Consistent, NEW r \in Requests, WriteChange(r)
  PROVE  Consistent'
<1> DEFINE q == tx[r].req
           n == q.review
<1>1. /\ q.kind \in {"update", "withdraw", "moderate"} /\ n \in DOMAIN reviews /\ n \in Nat
      /\ q.actor \in Actors /\ tx[r].pc = "write"
      /\ q.kind = "moderate" => q.to \in Statuses
      /\ reviews' \in Seq(Review) /\ Len(reviews') = Len(reviews)
      /\ DOMAIN reviews' = DOMAIN reviews
      /\ \A m \in DOMAIN reviews : reviews'[m].appt = reviews[m].appt
      /\ \E change \in (Statuses \X Statuses) \cup {None} : Audited(n, q, Action(q), change)
      /\ UNCHANGED <<completed, reports, replies>> /\ Committed(r)
  <2>1. /\ \A m \in DOMAIN reviews \ {n} : reviews'[m] = reviews[m]
        /\ reviews'[n].appt = reviews[n].appt
    BY Changed
  <2>2. \A m \in DOMAIN reviews : reviews'[m].appt = reviews[m].appt
    BY <2>1
  <2> QED
    BY <2>2, Changed
<1>2. audit' \in Seq(ReviewAuditLog)
  <2>1. Action(q) \in Actions
    BY <1>1, ActionType DEF Actions
  <2> QED
    BY <1>1, <2>1, Logged
<1>3. Len(reviews) \in Nat /\ reports \subseteq ReviewReport /\ replies \subseteq ReviewReply
  BY DEF Consistent, TypeOK
<1>4. Kept
  BY <1>1, <1>3 DEF Kept
<1>5. RowsOK'
  BY <1>1 DEF Consistent, RowsOK, Replier, Author
<1> QED
  BY <1>1, <1>2, <1>3, <1>4, <1>5, CommittedStep

\* What the insert of a report does.
LEMMA Reported ==
  ASSUME Consistent, NEW r \in Requests, WriteReport(r), ~Answer(r, 409)
  PROVE  LET q == tx[r].req
             row == [review |-> q.review, reporter |-> q.actor, status |-> "OPEN"]
         IN /\ row \in ReviewReport /\ q.review \in DOMAIN reviews /\ q.review \in Nat
            /\ q.actor \in Actors /\ q.actor # Author(q.review)
            /\ ~(\E x \in reports : x.review = q.review /\ x.reporter = q.actor)
            /\ reports' = reports \cup {row} /\ Audited(q.review, q, "REVIEW_REPORTED", None)
            /\ UNCHANGED <<completed, reviews, replies>> /\ Committed(r)
            /\ tx[r].pc = "write"
<1> DEFINE q == tx[r].req
           row == [review |-> q.review, reporter |-> q.actor, status |-> "OPEN"]
<1>1. /\ tx[r].pc = "write" /\ q.kind = "report"
      /\ ~(\E x \in reports : x.review = q.review /\ x.reporter = q.actor)
      /\ reports' = reports \cup {row} /\ Audited(q.review, q, "REVIEW_REPORTED", None)
      /\ UNCHANGED <<completed, reviews, replies>> /\ Committed(r)
  BY DEF WriteReport, Committed
<1>2. /\ q \in Inputs /\ Loaded(tx[r]) /\ reviews \in Seq(Review) /\ q.actor \in Actors
  BY <1>1, Before, InputType DEF TxOK
<1>3. /\ q.review \in DOMAIN reviews /\ q.review \in Nat /\ q.actor # Author(q.review)
  BY <1>1, <1>2 DEF Loaded, Known
<1>4. row \in ReviewReport
  BY <1>2, <1>3 DEF ReviewReport
<1> QED
  BY <1>1, <1>2, <1>3, <1>4

LEMMA WriteReportStep ==
  ASSUME Consistent, NEW r \in Requests, WriteReport(r)
  PROVE  Consistent'
<1> DEFINE q == tx[r].req
           row == [review |-> q.review, reporter |-> q.actor, status |-> "OPEN"]
<1>1. CASE Answer(r, 409)
  BY <1>1, AnswerStep, AnyCode
<1>2. CASE ~Answer(r, 409)
  <2>1. /\ row \in ReviewReport /\ q.review \in DOMAIN reviews /\ q.review \in Nat
        /\ q.actor \in Actors /\ q.actor # Author(q.review)
        /\ ~(\E x \in reports : x.review = q.review /\ x.reporter = q.actor)
        /\ reports' = reports \cup {row} /\ Audited(q.review, q, "REVIEW_REPORTED", None)
        /\ UNCHANGED <<completed, reviews, replies>> /\ Committed(r)
        /\ tx[r].pc = "write"
    BY <1>2, Reported
  <2>2. row.review = q.review /\ row.reporter = q.actor
    OBVIOUS
  <2> HIDE DEF row
  <2>3. audit' \in Seq(ReviewAuditLog)
    <3>1. "REVIEW_REPORTED" \in Actions
      BY DEF Actions
    <3> QED
      BY <2>1, <3>1, Logged
  <2>4. /\ reports \subseteq ReviewReport /\ replies \subseteq ReviewReply /\ RowsOK
        /\ reviews \in Seq(Review) /\ Len(reviews) \in Nat
    BY DEF Consistent, TypeOK, RowsOK
  <2>5. Kept
    BY <2>1, <2>4 DEF Kept
  <2>6. RowsOK'
    <3>1. \A n : Author(n)' = Author(n) /\ \A a : Replier(n, a)' = Replier(n, a)
      BY <2>1 DEF Author, Replier
    <3> QED
      BY <2>1, <2>2, <2>4, <3>1 DEF RowsOK
  <2> QED
    BY <2>1, <2>3, <2>4, <2>5, <2>6, CommittedStep
<1> QED
  BY <1>1, <1>2

\* What a reply does: it is the review's, or takes the place of the one that was.
LEMMA Replies ==
  ASSUME Consistent, NEW r \in Requests, WriteReply(r), ~Answer(r, 500)
  PROVE  LET q == tx[r].req
         IN /\ q.review \in DOMAIN reviews /\ q.review \in Nat /\ q.actor \in Actors
            /\ Replier(q.review, q.actor) /\ tx[r].pc = "write"
            /\ replies' \subseteq ReviewReply
            /\ \A x \in replies : \E y \in replies' : y.review = x.review
            /\ \A y \in replies' : \/ y \in replies
                                   \/ y.review = q.review /\ Replier(q.review, y.author)
            /\ \A x, y \in replies' : x.review = y.review => x = y
            /\ \E y \in replies' : y.review = q.review
            /\ \/ ~Replied(q.review) /\ Audited(q.review, q, "REVIEW_REPLY_CREATED", None)
               \/ Replied(q.review) /\ Audited(q.review, q, "REVIEW_REPLY_UPDATED", None)
            /\ \A n : Replied(n)' => Replied(n) \/ n = q.review
            /\ UNCHANGED <<completed, reviews, reports>> /\ Committed(r)
<1> DEFINE q == tx[r].req
           seen == tx[r].seen
<1>1. /\ tx[r].pc = "write" /\ q.kind = "reply"
      /\ UNCHANGED <<completed, reviews, reports>> /\ Committed(r)
  BY DEF WriteReply, Committed
<1>2. /\ q \in Inputs /\ Loaded(tx[r]) /\ reviews \in Seq(Review) /\ q.actor \in Actors
      /\ replies \subseteq ReviewReply /\ \A x, y \in replies : x.review = y.review => x = y
      /\ \A x \in replies : Replier(x.review, x.author)
  BY <1>1, Before, InputType DEF TxOK, Consistent, TypeOK
<1>3. /\ q \in WriteRequest /\ q.review \in DOMAIN reviews /\ q.review \in Nat
      /\ Replier(q.review, q.actor)
      /\ seen # None => /\ seen \in ReviewReply
                        /\ (\E x \in replies : x.review = q.review)
  BY <1>1, <1>2 DEF Loaded, Known
<1>4. q.text \in Texts
  BY <1>1, <1>3, WriteType
<1>5. CASE seen = None
  <2> DEFINE row == [review |-> q.review, author |-> q.actor, text |-> q.text]
  <2>1. /\ ~Replied(q.review) /\ replies' = replies \cup {row}
        /\ Audited(q.review, q, "REVIEW_REPLY_CREATED", None)
    BY <1>5 DEF WriteReply
  <2>2. row \in ReviewReply /\ row.review = q.review /\ row.author = q.actor
    BY <1>2, <1>3, <1>4 DEF ReviewReply
  <2> HIDE DEF row
  <2>3. /\ replies' \subseteq ReviewReply
        /\ \A x \in replies : x \in replies'
        /\ \A y \in replies' : y \in replies \/ y = row
    BY <1>2, <2>1, <2>2
  <2>4. \A x, y \in replies' : x.review = y.review => x = y
    BY <1>2, <2>1, <2>2, <2>3 DEF Replied
  <2>5. \A n : Replied(n)' => Replied(n) \/ n = q.review
    BY <2>2, <2>3 DEF Replied
  <2>6. \E y \in replies' : y.review = q.review
    BY <2>1, <2>2
  <2> QED
    BY <1>1, <1>2, <1>3, <2>1, <2>2, <2>3, <2>4, <2>5, <2>6
<1>6. CASE seen # None
  <2> DEFINE after(x) == IF x.review # q.review THEN x
                         ELSE [x EXCEPT !.author = Written(x.author, seen.author, q.actor),
                                        !.text = Written(x.text, seen.text, q.text)]
  <2>1. /\ replies' = {after(x) : x \in replies}
        /\ Audited(q.review, q, "REVIEW_REPLY_UPDATED", None)
    BY <1>6 DEF WriteReply
  <2>2. Replied(q.review)
    BY <1>3, <1>6 DEF Replied
  <2>3. ASSUME NEW x \in replies
        PROVE  /\ after(x) \in ReviewReply /\ after(x).review = x.review
               /\ x.review # q.review => after(x) = x
               /\ x.review = q.review => Replier(q.review, after(x).author)
    <3>1. x \in ReviewReply /\ Replier(x.review, x.author) /\ seen \in ReviewReply
      BY <1>2, <1>3, <1>6
    <3>2. CASE x.review # q.review
      BY <3>1, <3>2
    <3>3. CASE x.review = q.review
      <4> DEFINE a == Written(x.author, seen.author, q.actor)
                 c == Written(x.text, seen.text, q.text)
      <4>1. a \in {x.author, q.actor} /\ c \in {x.text, q.text}
        BY DEF Written
      <4>2. a \in Actors /\ c \in Texts /\ Replier(q.review, a)
        BY <1>2, <1>3, <1>4, <3>1, <3>3, <4>1 DEF ReviewReply
      <4>3. after(x) = [x EXCEPT !.author = a, !.text = c]
        BY <3>3
      <4> HIDE DEF a, c, after
      <4>4. after(x) \in ReviewReply /\ after(x).review = x.review /\ after(x).author = a
        BY <3>1, <4>2, <4>3 DEF ReviewReply
      <4> QED
        BY <3>3, <4>2, <4>4
    <3> QED
      BY <3>2, <3>3
  <2> HIDE DEF after
  <2>4. replies' \subseteq ReviewReply
    BY <2>1, <2>3
  <2>5. \A x \in replies : \E y \in replies' : y.review = x.review
    BY <2>1, <2>3
  <2>6. \A y \in replies' : \/ y \in replies
                            \/ y.review = q.review /\ Replier(q.review, y.author)
    BY <2>1, <2>3
  <2>7. \A x, y \in replies' : x.review = y.review => x = y
    BY <1>2, <2>1, <2>3
  <2>8. \E y \in replies' : y.review = q.review
    BY <1>3, <1>6, <2>5
  <2>9. \A n : Replied(n)' => Replied(n) \/ n = q.review
    BY <2>6 DEF Replied
  <2> QED
    BY <1>1, <1>2, <1>3, <2>1, <2>2, <2>4, <2>5, <2>6, <2>7, <2>8, <2>9
<1> QED
  BY <1>5, <1>6

LEMMA WriteReplyStep ==
  ASSUME Consistent, NEW r \in Requests, WriteReply(r)
  PROVE  Consistent'
<1> DEFINE q == tx[r].req
<1>1. CASE Answer(r, 500)
  BY <1>1, AnswerStep, AnyCode
<1>2. CASE ~Answer(r, 500)
  <2>1. /\ q.review \in DOMAIN reviews /\ q.review \in Nat /\ q.actor \in Actors
        /\ Replier(q.review, q.actor) /\ tx[r].pc = "write"
        /\ replies' \subseteq ReviewReply
        /\ \A x \in replies : \E y \in replies' : y.review = x.review
        /\ \A y \in replies' : \/ y \in replies
                               \/ y.review = q.review /\ Replier(q.review, y.author)
        /\ \A x, y \in replies' : x.review = y.review => x = y
        /\ \/ ~Replied(q.review) /\ Audited(q.review, q, "REVIEW_REPLY_CREATED", None)
           \/ Replied(q.review) /\ Audited(q.review, q, "REVIEW_REPLY_UPDATED", None)
        /\ UNCHANGED <<completed, reviews, reports>> /\ Committed(r)
    BY <1>2, Replies
  <2>2. audit' \in Seq(ReviewAuditLog)
    <3>1. {"REVIEW_REPLY_CREATED", "REVIEW_REPLY_UPDATED"} \subseteq Actions
      BY DEF Actions
    <3> QED
      BY <2>1, <3>1, Logged
  <2>3. /\ reports \subseteq ReviewReport /\ RowsOK
        /\ reviews \in Seq(Review) /\ Len(reviews) \in Nat
    BY DEF Consistent, TypeOK, RowsOK
  <2>4. Kept
    BY <2>1, <2>3 DEF Kept
  <2>5. RowsOK'
    <3>1. \A n : Author(n)' = Author(n) /\ \A a : Replier(n, a)' = Replier(n, a)
      BY <2>1 DEF Author, Replier
    <3> QED
      BY <2>1, <2>3, <3>1 DEF RowsOK
  <2> QED
    BY <2>1, <2>2, <2>3, <2>4, <2>5, CommittedStep
<1> QED
  BY <1>1, <1>2

\* A resolution changes the status of reports, and nothing else.
LEMMA Resolved ==
  ASSUME Consistent, NEW r \in Requests, WriteResolution(r)
  PROVE  /\ reports' \subseteq ReviewReport
         /\ \A x \in reports : \E y \in reports' : y.review = x.review /\ y.reporter = x.reporter
         /\ \A y \in reports' : \E x \in reports : y.review = x.review /\ y.reporter = x.reporter
         /\ \A x, y \in reports' : x.review = y.review /\ x.reporter = y.reporter => x = y
         /\ UNCHANGED <<completed, reviews, replies, audit>> /\ Committed(r)
         /\ tx[r].pc = "write"
<1> DEFINE q == tx[r].req
           seen == tx[r].seen
           after(x) == IF x.review # q.review \/ x.reporter # q.reporter THEN x
                       ELSE [x EXCEPT !.status = Written(x.status, seen.status, q.to)]
<1>1. /\ tx[r].pc = "write" /\ q.kind = "resolve" /\ reports' = {after(x) : x \in reports}
      /\ UNCHANGED <<completed, reviews, replies, audit>> /\ Committed(r)
  BY DEF WriteResolution, Committed
<1>2. /\ Loaded(tx[r]) /\ reports \subseteq ReviewReport
      /\ \A x, y \in reports : x.review = y.review /\ x.reporter = y.reporter => x = y
  BY <1>1, Before DEF TxOK, Consistent, TypeOK
<1>3. q \in WriteRequest /\ q.to \in {"RESOLVED", "DISMISSED"}
  <2>1. q \in WriteRequest
    BY <1>1, <1>2 DEF Loaded
  <2> QED
    BY <1>1, <2>1, WriteType
<1>4. ASSUME NEW x \in reports
      PROVE  /\ after(x) \in ReviewReport /\ after(x).review = x.review
             /\ after(x).reporter = x.reporter
  <2> DEFINE c == Written(x.status, seen.status, q.to)
  <2>1. x \in ReviewReport
    BY <1>2
  <2>2. c \in {"OPEN", "RESOLVED", "DISMISSED"}
    BY <1>3, <2>1 DEF Written, ReviewReport
  <2> HIDE DEF c
  <2>3. [x EXCEPT !.status = c] \in ReviewReport /\ [x EXCEPT !.status = c].review = x.review
        /\ [x EXCEPT !.status = c].reporter = x.reporter
    BY <2>1, <2>2 DEF ReviewReport
  <2> QED
    BY <2>1, <2>3 DEF c
<1> HIDE DEF after
<1>5. \A x, y \in reports' : x.review = y.review /\ x.reporter = y.reporter => x = y
  BY <1>1, <1>2, <1>4
<1> QED
  BY <1>1, <1>4, <1>5

LEMMA WriteResolutionStep ==
  ASSUME Consistent, NEW r \in Requests, WriteResolution(r)
  PROVE  Consistent'
<1>1. /\ reports' \subseteq ReviewReport
      /\ \A x \in reports : \E y \in reports' : y.review = x.review /\ y.reporter = x.reporter
      /\ \A y \in reports' : \E x \in reports : y.review = x.review /\ y.reporter = x.reporter
      /\ \A x, y \in reports' : x.review = y.review /\ x.reporter = y.reporter => x = y
      /\ UNCHANGED <<completed, reviews, replies, audit>> /\ Committed(r)
      /\ tx[r].pc = "write"
  BY Resolved
<1>2. /\ replies \subseteq ReviewReply /\ RowsOK /\ audit \in Seq(ReviewAuditLog)
      /\ reviews \in Seq(Review) /\ Len(reviews) \in Nat
  BY DEF Consistent, TypeOK, RowsOK
<1>3. Kept
  BY <1>1, <1>2 DEF Kept
<1>4. RowsOK'
  <2>1. \A n : Author(n)' = Author(n) /\ \A a : Replier(n, a)' = Replier(n, a)
    BY <1>1 DEF Author, Replier
  <2>2. \A x \in reports' : x.review \in DOMAIN reviews /\ x.reporter # Author(x.review)
    BY <1>1, <1>2 DEF RowsOK
  <2> QED
    BY <1>1, <1>2, <2>1, <2>2 DEF RowsOK
<1> QED
  BY <1>1, <1>2, <1>3, <1>4, CommittedStep

-----------------------------------------------------------------------------
(***************************************************************************)
(* The invariant.                                                          *)
(***************************************************************************)

\* A page shows rows that were selected.
LEMMA PageRows ==
  ASSUME NEW q, NEW rows \in Pages(reviews, q)
  PROVE  rows \subseteq Selected(reviews, q)
<1> DEFINE all == Selected(reviews, q)
<1>1. rows \in SUBSET all
  BY DEF Pages
<1> HIDE DEF all
<1> QED
  BY <1>1 DEF all

LEMMA ReadStep ==
  ASSUME Consistent, NEW r \in Requests, ReadOne(r) \/ ReadCount(r) \/ ReadItems(r)
  PROVE  Consistent'
<1> DEFINE q == tx[r].req
           shown == Selected(reviews, q)
<1>1. tx[r].pc # "idle"
  BY DEF ReadOne, ReadCount, ReadItems
<1>2. /\ tx[r] \in Tx /\ TxOK(tx[r]) /\ q \in Inputs /\ DOMAIN reviews = 1 .. Len(reviews)
      /\ Len(reviews) \in Nat /\ tx[r].total \in Nat
  BY <1>1, Before DEF Tx
<1>3. shown \in SUBSET (1 .. Len(reviews)) /\ shown \in SUBSET Nat
  <2>1. shown \subseteq DOMAIN reviews
    BY Zenon DEF Selected
  <2>2. 1 .. Len(reviews) \subseteq Nat
    BY <1>2
  <2> HIDE DEF shown
  <2> QED
    BY <1>2, <2>1, <2>2, Zenon
<1>4. Cardinality(shown) \in Nat
  <2>1. IsFiniteSet(1 .. Len(reviews))
    BY <1>2, FS_Interval
  <2>2. IsFiniteSet(shown)
    BY <1>3, <2>1, FS_Subset
  <2> QED
    BY <2>2, FS_CardinalityType
<1> HIDE DEF shown
<1>5. CASE ReadOne(r)
  BY <1>3, <1>4, <1>5, AnswerStep, AnswerWithStep, AnyCode DEF ReadOne, shown
<1>6. CASE ReadItems(r)
  <2>1. PICK rows \in Pages(reviews, q) : AnswerWith(r, 200, rows, tx[r].total)
    BY <1>6 DEF ReadItems
  <2>2. rows \in SUBSET Nat
    BY <1>3, <2>1, PageRows DEF shown
  <2>3. 200 \in Codes /\ tx[r].total \in Nat
    BY <1>2, AnyCode
  <2> HIDE DEF q
  <2> QED
    BY <2>1, <2>2, <2>3, AnswerWithStep
<1>7. CASE ReadCount(r)
  <2>1. CASE Answer(r, 404)
    BY <2>1, AnswerStep, AnyCode
  <2>2. CASE ~Answer(r, 404)
    <3> DEFINE t == [tx[r] EXCEPT !.pc = "items", !.total = Cardinality(shown)]
    <3>1. q.kind \in {"browse", "mine", "queue"} /\ Proceed(r, t)
      BY <1>7, <2>2 DEF ReadCount, shown
    <3>2. q \in ReadRequest
      BY <1>2, <3>1, InputType DEF WriteKinds
    <3>3. t \in Tx /\ t.pc = "items" /\ t.req = q
      BY <1>2, <1>4 DEF Tx
    <3> HIDE DEF t
    <3>4. TxOK(t)
      BY <1>2, <3>2, <3>3 DEF TxOK
    <3> QED
      BY <3>1, <3>3, <3>4, ProceedStep
  <2> QED
    BY <2>1, <2>2
<1> QED
  BY <1>5, <1>6, <1>7

LEMMA OtherStep ==
  ASSUME Consistent, Complete \/ Tick
  PROVE  Consistent'
<1>1. /\ UNCHANGED <<reviews, reports, replies, audit, tx, during>> /\ reply' = None
      /\ completed \subseteq completed' /\ completed' \subseteq Appts /\ now' \in Times
  BY BoundAssumption DEF Complete, Tick, tables, Consistent, TypeOK, Times
<1>2. TypeOK'
  BY <1>1 DEF Consistent, TypeOK
<1>3. Kept /\ RowsOK'
  BY <1>1 DEF Consistent, TypeOK, RowsOK, Kept, Replier, Author
<1>4. \A r \in Requests : TxOK(tx[r])'
  BY <1>1, <1>3, TxStays DEF Consistent
<1> QED
  BY <1>1, <1>2, <1>3, <1>4 DEF Consistent, RowsOK

LEMMA Inductive ==
  ASSUME Consistent, [Next]_vars
  PROVE  Consistent'
<1>1. CASE UNCHANGED vars
  BY <1>1 DEF vars, Consistent, TypeOK, TxOK, Loaded, Known, Author, Replier
<1>2. ASSUME NEW r \in Requests, AnswerWrite(r)
      PROVE  Consistent'
  <2>1. PICK code \in {200, 201, 204, 404} : Answer(r, code)
    BY <1>2 DEF AnswerWrite, SuccessCode
  <2> QED
    BY <2>1, AnswerStep, AnyCode
<1>3. ASSUME NEW r \in Requests, Fail(r)
      PROVE  Consistent'
  BY <1>3, AnswerStep, AnyCode DEF Fail
<1>4. ASSUME NEW r \in Requests, Write(r)
      PROVE  Consistent'
  BY <1>4, WriteCreateStep, WriteChangeStep, WriteReportStep, WriteReplyStep,
     WriteResolutionStep DEF Write
<1>5. ASSUME NEW r \in Requests,
             \/ LoadCreate(r) \/ LoadEdit(r) \/ LoadReport(r) \/ LoadReply(r)
             \/ LoadModeration(r) \/ LoadResolution(r)
      PROVE  Consistent'
  BY <1>5, LoadCreateStep, LoadEditStep, LoadReportStep, LoadReplyStep, LoadModerationStep,
     LoadResolutionStep
<1>6. ASSUME NEW r \in Requests, ReadOne(r) \/ ReadCount(r) \/ ReadItems(r)
      PROVE  Consistent'
  BY <1>6, ReadStep
<1>7. CASE Complete \/ Tick
  BY <1>7, OtherStep
<1> QED
  BY <1>1, <1>2, <1>3, <1>4, <1>5, <1>6, <1>7, SubmitStep DEF Next

LEMMA Initially == Init => Consistent
<1> SUFFICES ASSUME Init
             PROVE  Consistent
  OBVIOUS
<1>1. /\ reviews = <<>> /\ DOMAIN reviews = {} /\ replies = {} /\ reports = {}
      /\ \A r \in Requests : tx[r] = Idle /\ during[r] = <<>>
  BY DEF Init
<1>2. TypeOK
  BY IdleIsFine, BoundAssumption DEF Init, TypeOK, Times
<1>3. \A r \in Requests : TxOK(tx[r]) /\ Len(during[r]) <= Len(reviews)
  BY <1>1, IdleIsFine
<1> QED
  BY <1>1, <1>2, <1>3 DEF Consistent

\* Reviews, replies and reports stay what they should be, whatever requests race.
THEOREM Invariance == Spec => []Consistent
<1>1. Init => Consistent
  BY Initially
<1>2. Consistent /\ [Next]_vars => Consistent'
  BY Inductive
<1> QED
  BY <1>1, <1>2, PTL DEF Spec

-----------------------------------------------------------------------------
(***************************************************************************)
(* Steps that change the tables.                                           *)
(***************************************************************************)

\* A write that is committed: those of an insert are not refused by a constraint.
Commits(r) ==
  \/ WriteCreate(r) /\ ~Answer(r, 409)
  \/ WriteChange(r)
  \/ WriteReport(r) /\ ~Answer(r, 409)
  \/ WriteReply(r) /\ ~Answer(r, 500)
  \/ WriteResolution(r)

LEMMA OnlyWrites ==
  ASSUME [Next]_vars
  PROVE  \/ UNCHANGED <<reviews, reports, replies, audit>>
         \/ \E r \in Requests : Commits(r)
<1> DEFINE Same == UNCHANGED <<reviews, reports, replies, audit>>
<1>1. ASSUME NEW r \in Requests, NEW t, Proceed(r, t)
      PROVE  Same
  BY <1>1 DEF Proceed, tables
<1>2. ASSUME NEW r \in Requests, NEW code, Answer(r, code)
      PROVE  Same
  BY <1>2 DEF Answer, AnswerWith, tables
<1>3. CASE UNCHANGED vars \/ Complete \/ Tick
  BY <1>3 DEF vars, Complete, Tick, tables
<1>4. ASSUME NEW r \in Requests, Submit(r)
      PROVE  Same
  BY <1>4 DEF Submit, tables
<1> HIDE DEF Same
<1>5. ASSUME NEW r \in Requests,
             \/ LoadCreate(r) \/ LoadEdit(r) \/ LoadReport(r) \/ LoadReply(r)
             \/ LoadModeration(r) \/ LoadResolution(r)
      PROVE  Same
  <2>1. CASE LoadCreate(r) \/ LoadEdit(r) \/ LoadReport(r) \/ LoadModeration(r)
    BY <1>1, <1>2, <2>1 DEF LoadCreate, LoadEdit, LoadReport, LoadModeration
  <2>2. CASE LoadReply(r)
    <3>1. (\E code : Answer(r, code)) \/ (\E t : Proceed(r, t))
      BY <2>2, Zenon DEF LoadReply
    <3> QED
      BY <1>1, <1>2, <3>1
  <2>3. CASE LoadResolution(r)
    <3>1. (\E code : Answer(r, code)) \/ (\E t : Proceed(r, t))
      BY <2>3, Zenon DEF LoadResolution
    <3> QED
      BY <1>1, <1>2, <3>1
  <2> QED
    BY <1>5, <2>1, <2>2, <2>3
<1>6. ASSUME NEW r \in Requests, Write(r)
      PROVE  Same \/ Commits(r)
  BY <1>2, <1>6 DEF Write, Commits
<1>7. ASSUME NEW r \in Requests, AnswerWrite(r) \/ ReadOne(r) \/ ReadCount(r) \/ Fail(r)
      PROVE  Same
  <2>1. ASSUME NEW code, NEW shown, NEW total, AnswerWith(r, code, shown, total)
        PROVE  Same
    BY <2>1 DEF AnswerWith, tables, Same
  <2> QED
    BY <1>1, <1>2, <1>7, <2>1 DEF AnswerWrite, ReadOne, ReadCount, Fail
<1>8. ASSUME NEW r \in Requests, ReadItems(r)
      PROVE  Same
  BY <1>8 DEF ReadItems, AnswerWith, tables, Same
<1>9. ASSUME \E r \in Requests :
             \/ Submit(r)
             \/ LoadCreate(r) \/ LoadEdit(r) \/ LoadReport(r) \/ LoadReply(r)
             \/ LoadModeration(r) \/ LoadResolution(r)
             \/ Write(r) \/ AnswerWrite(r)
             \/ ReadOne(r) \/ ReadCount(r) \/ ReadItems(r)
             \/ Fail(r)
      PROVE  Same \/ \E r \in Requests : Commits(r)
  BY <1>4, <1>5, <1>6, <1>7, <1>8, <1>9
<1> QED
  BY <1>3, <1>9 DEF Next, Same

-----------------------------------------------------------------------------
(***************************************************************************)
(* What was hidden stays hidden until a moderator shows it.                *)
(***************************************************************************)

LEMMA UnhidesStep ==
  ASSUME Consistent, [Next]_vars, NEW n \in DOMAIN reviews,
         reviews[n].status = "HIDDEN", reviews'[n].status # "HIDDEN"
  PROVE  \E r \in Requests : /\ tx[r].pc = "write" /\ tx'[r].pc = "answer"
                             /\ tx[r].req.kind = "moderate" /\ tx[r].req.review = n
                             /\ tx[r].req.to = reviews'[n].status
<1>1. PICK r \in Requests : Commits(r)
  BY OnlyWrites
<1>2. CASE WriteCreate(r) /\ ~Answer(r, 409)
  <2>1. DOMAIN reviews = 1 .. Len(reviews) /\ \A m \in 1 .. Len(reviews) : reviews'[m] = reviews[m]
    BY <1>2, Created
  <2> QED
    BY <2>1
<1>3. CASE WriteReport(r) /\ ~Answer(r, 409)
  <2>1. reviews' = reviews
    BY <1>3, Reported
  <2> QED
    BY <2>1
<1>4. CASE WriteReply(r) /\ ~Answer(r, 500)
  <2>1. reviews' = reviews
    BY <1>4, Replies
  <2> QED
    BY <2>1
<1>5. CASE WriteResolution(r)
  <2>1. reviews' = reviews
    BY <1>5, Resolved
  <2> QED
    BY <2>1
<1>6. CASE WriteChange(r)
  <2> DEFINE q == tx[r].req
  <2>1. /\ \A m \in DOMAIN reviews \ {q.review} : reviews'[m] = reviews[m]
        /\ reviews'[q.review].status # reviews[q.review].status =>
             \/ q.kind = "withdraw" /\ reviews'[q.review].status = "HIDDEN"
             \/ q.kind = "moderate" /\ reviews'[q.review].status = q.to
        /\ tx[r].pc = "write" /\ Committed(r)
    BY <1>6, Changed
  <2>2. q.review = n
    BY <2>1
  <2>3. tx[r] \in Tx /\ tx'[r].pc = "answer"
    BY <2>1 DEF Committed, Consistent, TypeOK, Tx
  <2> QED
    BY <2>1, <2>2, <2>3
<1> QED
  BY <1>1, <1>2, <1>3, <1>4, <1>5, <1>6 DEF Commits

\* A review that is hidden is shown again by the step of a moderator who asks for that, and
\* by no request that had loaded it before it was hidden.
THEOREM HiddenStays == Spec => OnlyModerationUnhides
<1> DEFINE A == \A n \in DOMAIN reviews :
                  reviews[n].status = "HIDDEN" /\ reviews'[n].status # "HIDDEN" =>
                    \E r \in Requests : /\ tx[r].pc = "write" /\ tx'[r].pc = "answer"
                                        /\ tx[r].req.kind = "moderate" /\ tx[r].req.review = n
                                        /\ tx[r].req.to = reviews'[n].status
<1>1. Consistent /\ [Next]_vars => [A]_vars
  BY UnhidesStep
<1>2. []Consistent /\ [][Next]_vars => [][A]_vars
  BY <1>1, PTL
<1> QED
  BY <1>2, Invariance, PTL DEF Spec, OnlyModerationUnhides

-----------------------------------------------------------------------------
(***************************************************************************)
(* Every change is audited.                                                *)
(***************************************************************************)

\* The log grows by the row of a write.
LEMMA RecordStep ==
  ASSUME Consistent, NEW n \in Nat, NEW q, q.actor \in Actors, NEW action \in Actions,
         NEW change \in (Statuses \X Statuses) \cup {None}, Audited(n, q, action, change)
  PROVE  /\ Len(audit') = Len(audit) + 1 /\ SubSeq(audit', 1, Len(audit)) = audit
         /\ audit' # audit
         /\ \A actors : q.actor \in actors => Records(n, actors, action)
<1>1. /\ Len(audit) \in Nat /\ Len(audit') = Len(audit) + 1
      /\ SubSeq(audit', 1, Len(audit)) = audit
  BY Logged
<1>2. \A actors : q.actor \in actors => Records(n, actors, action)
  BY DEF Audited, Records
<1>3. audit' # audit
  BY <1>1
<1> QED
  BY <1>1, <1>2, <1>3

\* What the columns and the rows that have changed are recorded as.
Recorded ==
  /\ audit' # audit => Len(audit') = Len(audit) + 1 /\ SubSeq(audit', 1, Len(audit)) = audit
  /\ Len(reviews') # Len(reviews) =>
       /\ Len(reviews') = Len(reviews) + 1
       /\ Records(Len(reviews'), {ClientOf[reviews'[Len(reviews')].appt]}, "REVIEW_CREATED")
  /\ \A n \in DOMAIN reviews :
       LET old == reviews[n]
           new == reviews'[n]
       IN /\ new.appt = old.appt /\ new.created = old.created
          /\ new.content # old.content => Records(n, {Author(n)}, "REVIEW_UPDATED")
          /\ new.status # old.status =>
               \/ new.status = "HIDDEN" /\ Records(n, {Author(n)} \cup Admins, "REVIEW_HIDDEN")
               \/ new.status = "PUBLISHED" /\ Records(n, Admins, "REVIEW_RESTORED")
               \/ new.status = "FLAGGED" /\ Records(n, Admins, "REVIEW_UPDATED")
          /\ new.note # old.note => audit' # audit
  /\ replies' # replies => \E n \in DOMAIN reviews, action \in
         {"REVIEW_REPLY_CREATED", "REVIEW_REPLY_UPDATED"} :
           Records(n, {EmployeeOf[reviews[n].appt]} \cup Admins, action)

LEMMA RecordedSame ==
  ASSUME UNCHANGED <<reviews, replies>>,
         audit' # audit => Len(audit') = Len(audit) + 1 /\ SubSeq(audit', 1, Len(audit)) = audit
  PROVE  Recorded
  BY DEF Recorded

LEMMA RecordedStep ==
  ASSUME Consistent, [Next]_vars
  PROVE  Recorded
<1>1. CASE UNCHANGED <<reviews, reports, replies, audit>>
  BY <1>1, RecordedSame
<1>2. ASSUME NEW r \in Requests, WriteCreate(r), ~Answer(r, 409)
      PROVE  Recorded
  <2> DEFINE q == tx[r].req
             N == Len(reviews)
  <2>1. /\ N \in Nat /\ DOMAIN reviews = 1 .. N /\ Len(reviews') = N + 1
        /\ \A n \in 1 .. N : reviews'[n] = reviews[n]
        /\ reviews'[N + 1].appt = q.appt /\ q.actor = ClientOf[q.appt] /\ q.actor \in Actors
        /\ Audited(N + 1, q, "REVIEW_CREATED", None) /\ replies' = replies
    BY <1>2, Created
  <2>2. /\ Len(audit') = Len(audit) + 1 /\ SubSeq(audit', 1, Len(audit)) = audit
        /\ Records(N + 1, {q.actor}, "REVIEW_CREATED")
    <3>1. N + 1 \in Nat /\ "REVIEW_CREATED" \in Actions /\ q.actor \in {q.actor}
      BY <2>1 DEF Actions
    <3> QED
      BY <2>1, <3>1, RecordStep
  <2> HIDE DEF N, q
  <2>3. /\ Len(reviews') = N + 1
        /\ Records(Len(reviews'), {ClientOf[reviews'[Len(reviews')].appt]}, "REVIEW_CREATED")
    BY <2>1, <2>2
  <2> QED
    BY <2>1, <2>2, <2>3 DEF Recorded, N
<1>3. ASSUME NEW r \in Requests, WriteChange(r)
      PROVE  Recorded
  <2> DEFINE q == tx[r].req
             n == q.review
  <2>1. /\ q.kind \in {"update", "withdraw", "moderate"} /\ n \in DOMAIN reviews /\ n \in Nat
        /\ q.actor \in Actors /\ Len(reviews') = Len(reviews)
        /\ \A m \in DOMAIN reviews \ {n} : reviews'[m] = reviews[m]
        /\ reviews'[n].appt = reviews[n].appt /\ reviews'[n].created = reviews[n].created
        /\ reviews'[n].content # reviews[n].content => q.kind = "update"
        /\ reviews'[n].status # reviews[n].status =>
             \/ q.kind = "withdraw" /\ reviews'[n].status = "HIDDEN"
             \/ q.kind = "moderate" /\ reviews'[n].status = q.to
        /\ q.kind \in {"update", "withdraw"} => q.actor = Author(n)
        /\ q.kind = "moderate" => q.actor \in Admins /\ q.to \in Statuses
        /\ replies' = replies
    BY <1>3, Changed
  <2>2. PICK change \in (Statuses \X Statuses) \cup {None} : Audited(n, q, Action(q), change)
    BY <1>3, Changed
  <2>3. Action(q) \in Actions
    BY <2>1, ActionType DEF Actions
  <2>4. /\ Len(audit') = Len(audit) + 1 /\ SubSeq(audit', 1, Len(audit)) = audit
        /\ audit' # audit
        /\ \A actors : q.actor \in actors => Records(n, actors, Action(q))
    BY <2>1, <2>2, <2>3, RecordStep
  <2>5. reviews'[n].content # reviews[n].content => Records(n, {Author(n)}, "REVIEW_UPDATED")
    BY <2>1, <2>4 DEF Action
  <2>6. reviews'[n].status # reviews[n].status =>
          LET s == reviews'[n].status
          IN \/ s = "HIDDEN" /\ Records(n, {Author(n)} \cup Admins, "REVIEW_HIDDEN")
             \/ s = "PUBLISHED" /\ Records(n, Admins, "REVIEW_RESTORED")
             \/ s = "FLAGGED" /\ Records(n, Admins, "REVIEW_UPDATED")
    <3>1. CASE q.kind = "withdraw" /\ reviews'[n].status = "HIDDEN"
      BY <2>1, <2>4, <3>1 DEF Action
    <3>2. CASE q.kind = "moderate" /\ reviews'[n].status = q.to
      <4>1. q.to \in {"PUBLISHED", "HIDDEN", "FLAGGED"} /\ q.actor \in Admins
        BY <2>1, <3>2 DEF Statuses
      <4>2. /\ q.to = "PUBLISHED" => Action(q) = "REVIEW_RESTORED"
            /\ q.to = "HIDDEN" => Action(q) = "REVIEW_HIDDEN"
            /\ q.to = "FLAGGED" => Action(q) = "REVIEW_UPDATED"
        BY <3>2 DEF Action
      <4> QED
        BY <2>4, <3>2, <4>1, <4>2
    <3> QED
      BY <2>1, <3>1, <3>2
  <2> HIDE DEF n, q
  <2> QED
    BY <2>1, <2>4, <2>5, <2>6 DEF Recorded
<1>4. ASSUME NEW r \in Requests, WriteReport(r), ~Answer(r, 409)
      PROVE  Recorded
  <2> DEFINE q == tx[r].req
  <2>1. /\ q.review \in Nat /\ q.actor \in Actors /\ UNCHANGED <<reviews, replies>>
        /\ Audited(q.review, q, "REVIEW_REPORTED", None)
    BY <1>4, Reported
  <2>2. "REVIEW_REPORTED" \in Actions
    BY DEF Actions
  <2>3. Len(audit') = Len(audit) + 1 /\ SubSeq(audit', 1, Len(audit)) = audit
    BY <2>1, <2>2, RecordStep
  <2> QED
    BY <2>1, <2>3, RecordedSame
<1>5. ASSUME NEW r \in Requests, WriteReply(r), ~Answer(r, 500)
      PROVE  Recorded
  <2> DEFINE q == tx[r].req
             n == q.review
  <2>1. /\ n \in DOMAIN reviews /\ n \in Nat /\ q.actor \in Actors /\ reviews' = reviews
        /\ Replier(n, q.actor)
        /\ \/ Audited(n, q, "REVIEW_REPLY_CREATED", None)
           \/ Audited(n, q, "REVIEW_REPLY_UPDATED", None)
    BY <1>5, Replies
  <2>2. {"REVIEW_REPLY_CREATED", "REVIEW_REPLY_UPDATED"} \subseteq Actions
    BY DEF Actions
  <2>3. PICK action \in {"REVIEW_REPLY_CREATED", "REVIEW_REPLY_UPDATED"} :
          Audited(n, q, action, None)
    BY <2>1
  <2>4. /\ Len(audit') = Len(audit) + 1 /\ SubSeq(audit', 1, Len(audit)) = audit
        /\ \A actors : q.actor \in actors => Records(n, actors, action)
    BY <2>1, <2>2, <2>3, RecordStep
  <2>5. q.actor \in {EmployeeOf[reviews[n].appt]} \cup Admins
    BY <2>1 DEF Replier
  <2> HIDE DEF n, q
  <2> QED
    BY <2>1, <2>4, <2>5 DEF Recorded
<1>6. ASSUME NEW r \in Requests, WriteResolution(r)
      PROVE  Recorded
  BY <1>6, Resolved, RecordedSame
<1> QED
  BY <1>1, <1>2, <1>3, <1>4, <1>5, <1>6, OnlyWrites DEF Commits

\* No change of a review or a reply goes unrecorded, and the log is only appended to.
THEOREM ChangesAreAudited == Spec => EveryChangeIsAudited
<1> DEFINE A ==
      /\ audit' # audit => Len(audit') = Len(audit) + 1 /\ SubSeq(audit', 1, Len(audit)) = audit
      /\ Len(reviews') # Len(reviews) =>
           /\ Len(reviews') = Len(reviews) + 1
           /\ Records(Len(reviews'), {ClientOf[reviews'[Len(reviews')].appt]}, "REVIEW_CREATED")
      /\ \A n \in DOMAIN reviews :
           LET old == reviews[n]
               new == reviews'[n]
           IN /\ new.appt = old.appt /\ new.created = old.created
              /\ new.content # old.content => Records(n, {Author(n)}, "REVIEW_UPDATED")
              /\ new.status # old.status =>
                   \/ new.status = "HIDDEN" /\ Records(n, {Author(n)} \cup Admins, "REVIEW_HIDDEN")
                   \/ new.status = "PUBLISHED" /\ Records(n, Admins, "REVIEW_RESTORED")
                   \/ new.status = "FLAGGED" /\ Records(n, Admins, "REVIEW_UPDATED")
              /\ new.note # old.note => audit' # audit
      /\ replies' # replies => \E n \in DOMAIN reviews, action \in
             {"REVIEW_REPLY_CREATED", "REVIEW_REPLY_UPDATED"} :
               Records(n, {EmployeeOf[reviews[n].appt]} \cup Admins, action)
<1>1. Consistent /\ [Next]_vars => [A]_vars
  BY RecordedStep DEF Recorded
<1>2. []Consistent /\ [][Next]_vars => [][A]_vars
  BY <1>1, PTL
<1> QED
  BY <1>2, Invariance, PTL DEF Spec, EveryChangeIsAudited

-----------------------------------------------------------------------------
(***************************************************************************)
(* The audit log tells the story of the tables.                            *)
(***************************************************************************)

\* AuditAgrees, strengthened: a reply is updated only where there is one.
Story ==
  /\ AuditAgrees
  /\ \A i \in DOMAIN audit : audit[i].action = "REVIEW_REPLY_UPDATED" => Replied(audit[i].review)

\* The changes of a step are what the row it adds to the log says of them.
Agrees(n, a, action) ==
  /\ n \in DOMAIN reviews' /\ a \in Actors /\ DOMAIN reviews \subseteq DOMAIN reviews'
  /\ \A m \in DOMAIN reviews : reviews'[m].appt = reviews[m].appt
  /\ \A m \in DOMAIN reviews' \ DOMAIN reviews :
       m = n /\ action = "REVIEW_CREATED" /\ a = Author(m)'
  /\ action = "REVIEW_CREATED" => n \notin DOMAIN reviews
  /\ reports \subseteq reports'
  /\ \A x \in reports' : x \in reports \/ (x.review = n /\ x.reporter = a
                                            /\ action = "REVIEW_REPORTED")
  /\ action = "REVIEW_REPORTED" => \E x \in reports' : x.review = n /\ x.reporter = a
  /\ action = "REVIEW_REPLY_CREATED" => ~Replied(n)
  /\ action = "REVIEW_REPLY_UPDATED" => Replied(n)
  /\ \A m : Replied(m)' <=> (Replied(m) \/ (m = n /\ action = "REVIEW_REPLY_CREATED"))
  /\ \A m \in DOMAIN reviews' : reviews'[m].status = "HIDDEN" =>
       \/ m \in DOMAIN reviews /\ reviews[m].status = "HIDDEN"
       \/ m = n /\ action = "REVIEW_HIDDEN" /\ (a = Author(m)' \/ a \in Admins)

\* The log is longer by a row.
Longer(n, a, action) ==
  LET L == Len(audit)
  IN /\ L \in Nat /\ DOMAIN audit = 1 .. L /\ DOMAIN audit' = 1 .. L + 1
     /\ \A i \in 1 .. L : audit'[i] = audit[i]
     /\ audit'[L + 1].review = n /\ audit'[L + 1].actor = a /\ audit'[L + 1].action = action

LEMMA ToldSo ==
  ASSUME NEW n, NEW a, NEW action, Longer(n, a, action)
  PROVE  \A m, b, x : Told(m, b, x)' <=> (Told(m, b, x) \/ (m = n /\ b = a /\ x = action))
<1>1. /\ DOMAIN audit' = DOMAIN audit \cup {Len(audit) + 1}
      /\ \A i \in DOMAIN audit : audit'[i] = audit[i]
  BY DEF Longer
<1> QED
  BY <1>1 DEF Longer, Told

LEMMA StoryStep ==
  ASSUME Consistent, Story, NEW n, NEW a, NEW action, Longer(n, a, action), Agrees(n, a, action)
  PROVE  Story'
<1> DEFINE L == Len(audit)
<1>1. /\ L \in Nat /\ DOMAIN audit = 1 .. L /\ DOMAIN audit' = 1 .. L + 1
      /\ \A i \in 1 .. L : audit'[i] = audit[i]
      /\ audit'[L + 1].review = n /\ audit'[L + 1].actor = a /\ audit'[L + 1].action = action
  BY DEF Longer
<1> HIDE DEF L
<1>2. \A i \in DOMAIN audit' : (i \in DOMAIN audit /\ i < L + 1 /\ audit'[i] = audit[i]) \/ i = L + 1
  BY <1>1
<1>3. \A m, b, x : Told(m, b, x)' <=> (Told(m, b, x) \/ (m = n /\ b = a /\ x = action))
  BY ToldSo
<1>4. \A m \in DOMAIN reviews : Author(m)' = Author(m)
  BY DEF Agrees, Author
<1>5. \A i \in DOMAIN audit : audit[i].review \in DOMAIN reviews
  BY DEF Story, AuditAgrees
<1>6. \A i \in DOMAIN audit' : audit'[i].review \in DOMAIN reviews'
  BY <1>1, <1>2, <1>5 DEF Agrees
<1>7. \A m \in DOMAIN reviews' : Told(m, Author(m), "REVIEW_CREATED")'
  <2>1. \A m \in DOMAIN reviews : Told(m, Author(m), "REVIEW_CREATED")
    BY DEF Story, AuditAgrees
  <2> QED
    BY <1>3, <1>4, <2>1 DEF Agrees
<1>8. \A i, j \in DOMAIN audit' :
        audit'[i].action = "REVIEW_CREATED" /\ audit'[i].review = audit'[j].review => i <= j
  <2>1. SUFFICES ASSUME NEW i \in DOMAIN audit', NEW j \in DOMAIN audit',
                        audit'[i].action = "REVIEW_CREATED", audit'[i].review = audit'[j].review
                 PROVE  i <= j
    OBVIOUS
  <2>2. CASE i \in DOMAIN audit /\ j \in DOMAIN audit
    BY <1>1, <2>1, <2>2 DEF Story, AuditAgrees
  <2>3. CASE j = L + 1
    BY <1>1, <2>3
  <2>4. CASE i = L + 1 /\ j \in DOMAIN audit
    <3>1. n \notin DOMAIN reviews /\ audit[j].review = n
      BY <1>1, <2>1, <2>4 DEF Agrees
    <3> QED
      BY <1>5, <2>4, <3>1
  <2> QED
    BY <1>2, <2>2, <2>3, <2>4
<1>9. \A x \in reports' : Told(x.review, x.reporter, "REVIEW_REPORTED")'
  <2>1. \A x \in reports : Told(x.review, x.reporter, "REVIEW_REPORTED")
    BY DEF Story, AuditAgrees
  <2> QED
    BY <1>3, <2>1 DEF Agrees
<1>10. \A i \in DOMAIN audit' : audit'[i].action = "REVIEW_REPORTED" =>
         \E x \in reports' : x.review = audit'[i].review /\ x.reporter = audit'[i].actor
  <2>1. \A i \in DOMAIN audit : audit[i].action = "REVIEW_REPORTED" =>
          \E x \in reports : x.review = audit[i].review /\ x.reporter = audit[i].actor
    BY DEF Story, AuditAgrees
  <2> QED
    BY <1>1, <1>2, <2>1 DEF Agrees
<1>11. \A m \in DOMAIN reviews :
         Replied(m) <=> \E b \in Actors : Told(m, b, "REVIEW_REPLY_CREATED")
  BY DEF Story, AuditAgrees, Replied
<1>12. \A i \in DOMAIN audit' : audit'[i].action = "REVIEW_REPLY_UPDATED" =>
          Replied(audit[i].review)'
  <2>1. \A i \in DOMAIN audit : audit[i].action = "REVIEW_REPLY_UPDATED" =>
          Replied(audit[i].review)
    BY DEF Story
  <2>2. /\ \A m : Replied(m) => Replied(m)'
        /\ action = "REVIEW_REPLY_UPDATED" => Replied(n)
    BY DEF Agrees
  <2>3. SUFFICES ASSUME NEW i \in DOMAIN audit', audit'[i].action = "REVIEW_REPLY_UPDATED"
                 PROVE  Replied(audit[i].review)'
    OBVIOUS
  <2>4. Replied(audit'[i].review)
    BY <1>1, <1>2, <2>1, <2>2, <2>3
  <2> QED
    BY <2>2, <2>4 DEF Replied
<1>13. \A i, j \in DOMAIN audit' :
         /\ audit'[i].action = "REVIEW_REPLY_CREATED" /\ audit'[i].review = audit'[j].review
         /\ audit'[j].action \in {"REVIEW_REPLY_CREATED", "REVIEW_REPLY_UPDATED"}
         => i <= j
  <2>1. SUFFICES ASSUME NEW i \in DOMAIN audit', NEW j \in DOMAIN audit',
                        audit'[i].action = "REVIEW_REPLY_CREATED",
                        audit'[i].review = audit'[j].review,
                        audit'[j].action \in {"REVIEW_REPLY_CREATED", "REVIEW_REPLY_UPDATED"}
                 PROVE  i <= j
    OBVIOUS
  <2>2. CASE i \in DOMAIN audit /\ j \in DOMAIN audit
    BY <1>1, <2>1, <2>2 DEF Story, AuditAgrees
  <2>3. CASE j = L + 1
    BY <1>1, <2>3
  <2>4. CASE i = L + 1 /\ j \in DOMAIN audit
    <3>1. /\ ~Replied(n) /\ audit[j].review = n /\ n \in DOMAIN reviews
          /\ audit[j].action \in {"REVIEW_REPLY_CREATED", "REVIEW_REPLY_UPDATED"}
      BY <1>1, <1>5, <2>1, <2>4 DEF Agrees
    <3>2. audit[j].action = "REVIEW_REPLY_CREATED"
      BY <2>4, <3>1 DEF Story
    <3>3. audit[j] \in ReviewAuditLog
      BY <2>4 DEF Consistent, TypeOK
    <3>4. audit[j].actor \in Actors /\ Told(n, audit[j].actor, "REVIEW_REPLY_CREATED")
      BY <2>4, <3>1, <3>2, <3>3 DEF Told, ReviewAuditLog
    <3> QED
      BY <1>11, <3>1, <3>4
  <2> QED
    BY <1>2, <2>2, <2>3, <2>4
<1>14. \A m \in DOMAIN reviews' :
         Replied(m)' <=> \E b \in Actors : Told(m, b, "REVIEW_REPLY_CREATED")'
  <2>1. SUFFICES ASSUME NEW m \in DOMAIN reviews'
                 PROVE  Replied(m)' <=> \E b \in Actors : Told(m, b, "REVIEW_REPLY_CREATED")'
    OBVIOUS
  <2>2. m \notin DOMAIN reviews => ~Replied(m) /\ \A b : ~Told(m, b, "REVIEW_REPLY_CREATED")
    BY <1>5 DEF Told, Replied, Consistent
  <2> QED
    BY <1>3, <1>11, <2>1, <2>2 DEF Agrees
<1>15. \A m \in DOMAIN reviews' : reviews'[m].status = "HIDDEN" =>
         \E b \in Actors : (b = Author(m)' \/ b \in Admins) /\ Told(m, b, "REVIEW_HIDDEN")'
  <2>1. \A m \in DOMAIN reviews : reviews[m].status = "HIDDEN" =>
          \E b \in Actors : (b = Author(m) \/ b \in Admins) /\ Told(m, b, "REVIEW_HIDDEN")
    BY DEF Story, AuditAgrees
  <2> QED
    BY <1>3, <1>4, <2>1 DEF Agrees
<1> QED
  BY <1>6, <1>7, <1>8, <1>9, <1>10, <1>12, <1>13, <1>14, <1>15
  DEF Story, AuditAgrees, Told, Author, Replied

LEMMA LongerStep ==
  ASSUME Consistent, NEW n \in Nat, NEW q, q.actor \in Actors, NEW action \in Actions,
         NEW change \in (Statuses \X Statuses) \cup {None}, Audited(n, q, action, change)
  PROVE  Longer(n, q.actor, action)
  BY Logged DEF Longer

\* The rows keep their meaning, and what is not mentioned does not change.
LEMMA CreateAgrees ==
  ASSUME Consistent, NEW r \in Requests, WriteCreate(r), ~Answer(r, 409)
  PROVE  \E n, a, action : Longer(n, a, action) /\ Agrees(n, a, action)
<1> DEFINE q == tx[r].req
           n == Len(reviews) + 1
<1>1. /\ n \in Nat /\ DOMAIN reviews = 1 .. n - 1 /\ DOMAIN reviews' = 1 .. n
      /\ \A m \in 1 .. n - 1 : reviews'[m] = reviews[m]
      /\ reviews'[n].appt = q.appt /\ reviews'[n].status = "PUBLISHED"
      /\ Audited(n, q, "REVIEW_CREATED", None) /\ UNCHANGED <<reports, replies>>
      /\ q.actor = ClientOf[q.appt] /\ q.actor \in Actors
  BY Created
<1>2. "REVIEW_CREATED" \in Actions
  BY DEF Actions
<1>3. Longer(n, q.actor, "REVIEW_CREATED")
  BY <1>1, <1>2, LongerStep
<1> DEFINE a == q.actor
           appt == q.appt
<1>4. /\ n \in Nat /\ DOMAIN reviews = 1 .. n - 1 /\ DOMAIN reviews' = 1 .. n
      /\ \A m \in 1 .. n - 1 : reviews'[m] = reviews[m]
      /\ reviews'[n].appt = appt /\ reviews'[n].status = "PUBLISHED"
      /\ UNCHANGED <<reports, replies>> /\ a = ClientOf[appt] /\ a \in Actors
      /\ Longer(n, a, "REVIEW_CREATED")
  BY <1>1, <1>3
<1> HIDE DEF n, q, a, appt
<1>5. Agrees(n, a, "REVIEW_CREATED")
  <2>1. \A m : Replied(m)' <=> Replied(m)
    BY <1>4 DEF Replied
  <2>2. \A m \in DOMAIN reviews' : m \notin DOMAIN reviews => m = n /\ Author(m)' = a
    BY <1>4 DEF Author
  <2>3. DOMAIN reviews \subseteq DOMAIN reviews' /\ n \in DOMAIN reviews' /\ n \notin DOMAIN reviews
    <3>1. /\ n \in Nat /\ n # 0 /\ DOMAIN reviews = 1 .. n - 1 /\ DOMAIN reviews' = 1 .. n
      <4>1. Len(reviews) \in Nat
        BY DEF Consistent, TypeOK
      <4> QED
        BY <1>4, <4>1 DEF n
    <3> QED
      BY <3>1
  <2>4. \A m \in DOMAIN reviews : reviews'[m] = reviews[m]
    BY <1>4
  <2>5. \A m \in DOMAIN reviews' : reviews'[m].status = "HIDDEN" =>
          m \in DOMAIN reviews /\ reviews[m].status = "HIDDEN"
    BY <1>4, <2>2, <2>4
  <2> QED
    BY <1>4, <2>1, <2>2, <2>3, <2>4, <2>5 DEF Agrees
<1> QED
  BY <1>4, <1>5

LEMMA ChangeAgrees ==
  ASSUME Consistent, NEW r \in Requests, WriteChange(r)
  PROVE  \E n, a, action : Longer(n, a, action) /\ Agrees(n, a, action)
<1> DEFINE q == tx[r].req
           n == q.review
           a == q.actor
           action == Action(q)
<1>1. /\ q.kind \in {"update", "withdraw", "moderate"} /\ n \in DOMAIN reviews /\ n \in Nat
      /\ a \in Actors /\ DOMAIN reviews' = DOMAIN reviews
      /\ \A m \in DOMAIN reviews \ {n} : reviews'[m] = reviews[m]
      /\ reviews'[n].appt = reviews[n].appt
      /\ reviews'[n].status # reviews[n].status =>
           \/ q.kind = "withdraw" /\ reviews'[n].status = "HIDDEN"
           \/ q.kind = "moderate" /\ reviews'[n].status = q.to
      /\ q.kind \in {"update", "withdraw"} => a = Author(n)
      /\ q.kind = "moderate" => a \in Admins /\ q.to \in Statuses
      /\ UNCHANGED <<reports, replies>>
  BY Changed
<1>2. PICK change \in (Statuses \X Statuses) \cup {None} : Audited(n, q, action, change)
  BY Changed
<1>3. action \in {"REVIEW_UPDATED", "REVIEW_HIDDEN", "REVIEW_RESTORED"}
  BY <1>1, ActionType
<1>4. Longer(n, a, action)
  <2>1. action \in Actions
    BY <1>3 DEF Actions
  <2> HIDE DEF action
  <2> QED
    BY <1>1, <1>2, <2>1, LongerStep
<1>5. reviews'[n].status = "HIDDEN" /\ reviews[n].status # "HIDDEN" =>
        action = "REVIEW_HIDDEN" /\ (a = Author(n) \/ a \in Admins)
  BY <1>1 DEF Action
<1> HIDE DEF n, q, a, action
<1>6. \A m \in DOMAIN reviews : Author(m)' = Author(m)
  BY <1>1 DEF Author
<1>7. \A m : Replied(m)' <=> Replied(m)
  BY <1>1 DEF Replied
<1>8. Agrees(n, a, action)
  BY <1>1, <1>3, <1>5, <1>6, <1>7 DEF Agrees
<1> QED
  BY <1>4, <1>8

LEMMA ReportAgrees ==
  ASSUME Consistent, NEW r \in Requests, WriteReport(r), ~Answer(r, 409)
  PROVE  \E n, a, action : Longer(n, a, action) /\ Agrees(n, a, action)
<1> DEFINE q == tx[r].req
           n == q.review
           a == q.actor
           row == [review |-> q.review, reporter |-> q.actor, status |-> "OPEN"]
<1>1. /\ n \in DOMAIN reviews /\ n \in Nat /\ a \in Actors /\ reports' = reports \cup {row}
      /\ Audited(n, q, "REVIEW_REPORTED", None) /\ UNCHANGED <<reviews, replies>>
  BY Reported
<1>2. "REVIEW_REPORTED" \in Actions
  BY DEF Actions
<1>3. Longer(n, a, "REVIEW_REPORTED")
  BY <1>1, <1>2, LongerStep
<1>4. row.review = n /\ row.reporter = a
  OBVIOUS
<1> HIDE DEF n, q, a, row
<1>5. Agrees(n, a, "REVIEW_REPORTED")
  BY <1>1, <1>4 DEF Agrees, Replied
<1> QED
  BY <1>3, <1>5

LEMMA ReplyAgrees ==
  ASSUME Consistent, NEW r \in Requests, WriteReply(r), ~Answer(r, 500)
  PROVE  \E n, a, action : Longer(n, a, action) /\ Agrees(n, a, action)
<1> DEFINE q == tx[r].req
           n == q.review
           a == q.actor
<1>1. /\ n \in DOMAIN reviews /\ n \in Nat /\ a \in Actors /\ UNCHANGED <<reviews, reports>>
      /\ \A x \in replies : \E y \in replies' : y.review = x.review
      /\ \E y \in replies' : y.review = n
      /\ \/ ~Replied(n) /\ Audited(n, q, "REVIEW_REPLY_CREATED", None)
         \/ Replied(n) /\ Audited(n, q, "REVIEW_REPLY_UPDATED", None)
      /\ \A m : Replied(m)' => Replied(m) \/ m = n
  BY Replies
<1>2. {"REVIEW_REPLY_CREATED", "REVIEW_REPLY_UPDATED"} \subseteq Actions
  BY DEF Actions
<1>3. \/ ~Replied(n) /\ Longer(n, a, "REVIEW_REPLY_CREATED")
      \/ Replied(n) /\ Longer(n, a, "REVIEW_REPLY_UPDATED")
  BY <1>1, <1>2, LongerStep
<1> HIDE DEF n, q, a
<1>4. /\ \A m : Replied(m) => Replied(m)'
      /\ \A m : m = n => Replied(m)'
  BY <1>1 DEF Replied
<1>5. CASE ~Replied(n) /\ Longer(n, a, "REVIEW_REPLY_CREATED")
  <2>1. \A m : Replied(m)' <=> (Replied(m) \/ m = n)
    BY <1>1, <1>4 DEF Replied
  <2>2. Agrees(n, a, "REVIEW_REPLY_CREATED")
    BY <1>1, <1>5, <2>1 DEF Agrees
  <2> QED
    BY <1>5, <2>2
<1>6. CASE Replied(n) /\ Longer(n, a, "REVIEW_REPLY_UPDATED")
  <2>1. \A m : Replied(m)' <=> Replied(m)
    BY <1>1, <1>4, <1>6 DEF Replied
  <2>2. Agrees(n, a, "REVIEW_REPLY_UPDATED")
    BY <1>1, <1>6, <2>1 DEF Agrees
  <2> QED
    BY <1>6, <2>2
<1> QED
  BY <1>3, <1>5, <1>6

LEMMA StoryKept ==
  ASSUME Consistent, Story, [Next]_vars
  PROVE  Story'
<1>1. CASE UNCHANGED <<reviews, reports, replies, audit>>
  BY <1>1 DEF Story, AuditAgrees, Told, Author, Replied
<1>2. ASSUME NEW r \in Requests, WriteResolution(r)
      PROVE  Story'
  <2>1. /\ \A x \in reports : \E y \in reports' : y.review = x.review /\ y.reporter = x.reporter
        /\ \A y \in reports' : \E x \in reports : y.review = x.review /\ y.reporter = x.reporter
        /\ UNCHANGED <<reviews, replies, audit>>
    BY <1>2, Resolved
  <2>2. /\ \A x \in reports' : Told(x.review, x.reporter, "REVIEW_REPORTED")
        /\ \A i \in DOMAIN audit : audit[i].action = "REVIEW_REPORTED" =>
             \E x \in reports' : x.review = audit[i].review /\ x.reporter = audit[i].actor
    BY <2>1 DEF Story, AuditAgrees
  <2> QED
    BY <2>1, <2>2 DEF Story, AuditAgrees, Told, Author, Replied
<1>3. ASSUME NEW r \in Requests, Commits(r), ~WriteResolution(r)
      PROVE  Story'
  <2>1. PICK n, a, action : Longer(n, a, action) /\ Agrees(n, a, action)
    BY <1>3, CreateAgrees, ChangeAgrees, ReportAgrees, ReplyAgrees DEF Commits
  <2> QED
    BY <2>1, StoryStep
<1> QED
  BY <1>1, <1>2, <1>3, OnlyWrites

\* The audit log agrees with the tables, whatever requests race.
THEOREM LogAgrees == Spec => []AuditAgrees
<1>1. Init => Story
  BY DEF Init, Story, AuditAgrees
<1>2. Consistent /\ Story /\ [Next]_vars => Story'
  BY StoryKept
<1>3. Story => AuditAgrees
  BY DEF Story
<1> QED
  BY <1>1, <1>2, <1>3, Invariance, PTL DEF Spec

-----------------------------------------------------------------------------
(***************************************************************************)
(* What is read was published while the request was handled: `during' has  *)
(* the version each review has now, from the arrival of the request on,    *)
(* and a list, once counted, has counted at least the reviews that have    *)
(* been in it all the time, since these only become fewer.                 *)
(***************************************************************************)

\* The reviews of an employee that have been published, with the rating that a request asks
\* for, all the time.
Throughout(d, q) ==
  {n \in DOMAIN d : /\ EmployeeOf[reviews[n].appt] = q.employee
                    /\ \A v \in d[n] : v[1] = "PUBLISHED" /\ q.rating \in {None, v[2]}}

Watching(t, d) ==
  /\ \A n \in DOMAIN d : n \in DOMAIN reviews /\ Version(reviews[n]) \in d[n]
  /\ t.pc = "items" =>
       /\ t.req.kind \in {"browse", "mine", "queue"} /\ ~TurnedAway(t.req)
       /\ t.req.kind = "browse" => Cardinality(Throughout(d, t.req)) <= t.total

Watched == \A r \in Requests : Watching(tx[r], during[r])

\* A step of one request, which touches no review.
LEMMA LocalWatch ==
  ASSUME Consistent, Watched, NEW r \in Requests, NEW t, NEW d, Watching(t, d),
         UNCHANGED reviews, tx' = [tx EXCEPT ![r] = t], during' = [during EXCEPT ![r] = d]
  PROVE  Watched'
<1>1. \A s \in Requests : /\ tx'[s] = IF s = r THEN t ELSE tx[s]
                          /\ during'[s] = IF s = r THEN d ELSE during[s]
  BY DEF Consistent, TypeOK
<1>2. \A s \in Requests : Watching(tx'[s], during'[s])
  BY <1>1 DEF Watched
<1>3. ASSUME NEW s \in Requests
      PROVE  Watching(tx[s], during[s])'
  BY <1>2 DEF Watching, Throughout, TurnedAway
<1> QED
  BY <1>3 DEF Watched

LEMMA AnswerWatch ==
  ASSUME Consistent, Watched, NEW r \in Requests, NEW code, NEW shown, NEW total,
         AnswerWith(r, code, shown, total)
  PROVE  Watched'
<1>1. Watching(Idle, <<>>)
  BY DEF Watching, Idle
<1> QED
  BY <1>1, LocalWatch DEF AnswerWith, tables

\* A request that goes on to anything but the second SELECT of a list.
LEMMA ProceedWatch ==
  ASSUME Consistent, Watched, NEW r \in Requests, NEW t, t.pc # "items", Proceed(r, t)
  PROVE  Watched'
<1>1. Watching(t, during[r])
  BY DEF Watched, Watching
<1>2. during' = [during EXCEPT ![r] = during[r]] /\ UNCHANGED reviews
  BY DEF Proceed, tables, Consistent, TypeOK
<1> QED
  BY <1>1, <1>2, LocalWatch DEF Proceed

LEMMA SubmitWatch ==
  ASSUME Consistent, Watched, NEW r \in Requests, Submit(r)
  PROVE  Watched'
<1>1. PICK q \in Inputs :
        /\ tx' = [tx EXCEPT ![r] = [Idle EXCEPT !.pc = "load", !.req = q]]
        /\ during' = [during EXCEPT ![r] = IF q \in WriteRequest THEN <<>>
                                            ELSE [n \in DOMAIN reviews |-> {Version(reviews[n])}]]
  BY DEF Submit
<1> DEFINE t == [Idle EXCEPT !.pc = "load", !.req = q]
           d == IF q \in WriteRequest THEN <<>>
                ELSE [n \in DOMAIN reviews |-> {Version(reviews[n])}]
<1>2. t.pc = "load" /\ \A n \in DOMAIN d : n \in DOMAIN reviews /\ Version(reviews[n]) \in d[n]
  BY DEF Idle
<1>3. Watching(t, d)
  BY <1>2 DEF Watching
<1> HIDE DEF t, d
<1> QED
  BY <1>1, <1>3, LocalWatch DEF Submit, tables, t, d

LEMMA LoadWatch ==
  ASSUME Consistent, Watched, NEW r \in Requests,
         \/ LoadCreate(r) \/ LoadEdit(r) \/ LoadReport(r) \/ LoadReply(r)
         \/ LoadModeration(r) \/ LoadResolution(r)
  PROVE  Watched'
<1>1. tx[r].pc = "load"
  BY DEF LoadCreate, LoadEdit, LoadReport, LoadReply, LoadModeration, LoadResolution
<1>2. tx[r] \in Tx
  BY <1>1, Before
<1>3. ASSUME NEW code, Answer(r, code)
      PROVE  Watched'
  BY <1>3, AnswerWatch DEF Answer
<1>4. ASSUME NEW t, t.pc = "write", Proceed(r, t)
      PROVE  Watched'
  BY <1>4, ProceedWatch
<1>5. /\ [tx[r] EXCEPT !.pc = "write"].pc = "write"
      /\ \A x : [tx[r] EXCEPT !.pc = "write", !.seen = x].pc = "write"
  BY <1>2 DEF Tx
<1>6. CASE LoadCreate(r)
  BY <1>3, <1>4, <1>5, <1>6 DEF LoadCreate
<1>7. CASE LoadEdit(r)
  BY <1>3, <1>4, <1>5, <1>7 DEF LoadEdit
<1>8. CASE LoadReport(r)
  BY <1>3, <1>4, <1>5, <1>8 DEF LoadReport
<1>9. CASE LoadReply(r)
  <2>1. \/ \E code : Answer(r, code)
        \/ \E x : Proceed(r, [tx[r] EXCEPT !.pc = "write", !.seen = x])
    BY <1>9, Zenon DEF LoadReply
  <2> QED
    BY <1>3, <1>4, <1>5, <2>1
<1>10. CASE LoadModeration(r)
  BY <1>3, <1>4, <1>5, <1>10 DEF LoadModeration
<1>11. CASE LoadResolution(r)
  <2>1. \/ \E code : Answer(r, code)
        \/ \E x : Proceed(r, [tx[r] EXCEPT !.pc = "write", !.seen = x])
    BY <1>11, Zenon DEF LoadResolution
  <2> QED
    BY <1>3, <1>4, <1>5, <2>1
<1> QED
  BY <1>6, <1>7, <1>8, <1>9, <1>10, <1>11

\* A commit: the statuses of the moment are added, and no review changes its appointment.
LEMMA CommitsWatch ==
  ASSUME Consistent, Watched, NEW r \in Requests, Commits(r)
  PROVE  Watched'
<1>1. /\ Committed(r) /\ tx[r].pc = "write"
      /\ \A n \in DOMAIN reviews : n \in DOMAIN reviews' /\ reviews'[n].appt = reviews[n].appt
  <2>1. CASE WriteCreate(r) /\ ~Answer(r, 409)
    BY <2>1, Created
  <2>2. CASE WriteChange(r)
    BY <2>2, Changed
  <2>3. CASE WriteReport(r) /\ ~Answer(r, 409)
    BY <2>3, Reported
  <2>4. CASE WriteReply(r) /\ ~Answer(r, 500)
    BY <2>4, Replies
  <2>5. CASE WriteResolution(r)
    BY <2>5, Resolved
  <2> QED
    BY <2>1, <2>2, <2>3, <2>4, <2>5 DEF Commits
<1>2. tx[r] \in Tx /\ \A s \in Requests : s # r => tx'[s] = tx[s]
  BY <1>1, Before DEF Committed, Consistent, TypeOK
<1>3. tx'[r].pc = "answer"
  BY <1>1, <1>2 DEF Committed, Consistent, TypeOK, Tx
<1>4. ASSUME NEW s \in Requests
      PROVE  Watching(tx[s], during[s])'
  <2> DEFINE d == during[s]
             e == tx[s].req
  <2>1. /\ during'[s] = [n \in DOMAIN d |-> d[n] \cup {Version(reviews'[n])}]
        /\ DOMAIN during'[s] = DOMAIN d
    BY <1>1 DEF Committed
  <2>2. \A n \in DOMAIN during'[s] : n \in DOMAIN reviews' /\ Version(reviews'[n]) \in during'[s][n]
    BY <1>1, <2>1 DEF Watched, Watching
  <2>3. ASSUME tx'[s].pc = "items"
        PROVE  /\ tx'[s] = tx[s] /\ tx[s].pc = "items"
               /\ tx[s].req.kind = "browse" =>
                    Cardinality(Throughout(during[s], e)') <= tx[s].total
    <3>1. tx'[s] = tx[s] /\ tx[s].pc = "items"
      BY <1>2, <1>3, <2>3
    <3>3. Throughout(during[s], e)' \subseteq Throughout(during[s], e)
      <4>1. Throughout(during[s], e)' =
              {n \in DOMAIN during'[s] :
                 /\ EmployeeOf[reviews'[n].appt] = e.employee
                 /\ \A v \in during'[s][n] : v[1] = "PUBLISHED" /\ e.rating \in {None, v[2]}}
        BY <3>1 DEF Throughout
      <4>2. ASSUME NEW n \in DOMAIN during'[s], EmployeeOf[reviews'[n].appt] = e.employee
            PROVE  n \in DOMAIN d /\ EmployeeOf[reviews[n].appt] = e.employee
                   /\ d[n] \subseteq during'[s][n]
        BY <1>1, <2>1, <4>2 DEF Watched, Watching
      <4> QED
        BY <4>1, <4>2 DEF Throughout
    <3>4. /\ IsFiniteSet(Throughout(during[s], e))
          /\ Cardinality(Throughout(during[s], e)) \in Nat
      <4>1. DOMAIN d = 1 .. Len(d) /\ Len(d) \in Nat
        BY DEF Consistent, TypeOK
      <4>2. IsFiniteSet(DOMAIN d)
        BY <4>1, FS_Interval
      <4>3. Throughout(during[s], e) \subseteq DOMAIN d
        BY DEF Throughout
      <4>4. IsFiniteSet(Throughout(during[s], e))
        BY <4>2, <4>3, FS_Subset
      <4> QED
        BY <4>4, FS_CardinalityType
    <3> DEFINE T == Throughout(during[s], e)
               U == Throughout(during[s], e)'
    <3>5. Cardinality(U) <= Cardinality(T) /\ Cardinality(U) \in Nat
      <4> HIDE DEF T, U
      <4>1. U \in SUBSET T /\ IsFiniteSet(T)
        BY <3>3, <3>4 DEF T, U
      <4>2. Cardinality(U) <= Cardinality(T) /\ IsFiniteSet(U)
        BY <4>1, FS_Subset
      <4> QED
        BY <4>2, FS_CardinalityType
    <3>6. tx[s].req.kind = "browse" => Cardinality(T) <= tx[s].total
      BY <3>1 DEF Watched, Watching
    <3>7. tx[s].total \in Nat
      BY <3>1, Before DEF Tx
    <3> HIDE DEF T, U
    <3>8. tx[s].req.kind = "browse" => Cardinality(U) <= tx[s].total
      BY <3>4, <3>5, <3>6, <3>7 DEF T
    <3> QED
      BY <3>1, <3>8 DEF U
  <2>4. tx'[s].pc = "items" => tx[s].req.kind \in {"browse", "mine", "queue"} /\ ~TurnedAway(tx[s].req)
    BY <2>3 DEF Watched, Watching
  <2> QED
    BY <2>2, <2>3, <2>4 DEF Watching, TurnedAway, Throughout
<1> QED
  BY <1>4 DEF Watched

\* What a SELECT finds: some of the reviews there are, and of a list all that are published
\* and the employee's.
LEMMA SelectedRows ==
  ASSUME Consistent, Watched, NEW r \in Requests, tx[r].pc # "idle"
  PROVE  LET q == tx[r].req
             shown == Selected(reviews, q)
         IN /\ shown \subseteq DOMAIN reviews /\ IsFiniteSet(shown)
            /\ Cardinality(shown) \in Nat
            /\ q.kind = "browse" => Throughout(during[r], q) \subseteq shown
<1> DEFINE q == tx[r].req
           shown == Selected(reviews, q)
<1>1. shown \subseteq DOMAIN reviews
  BY Zenon DEF Selected
<1>2. DOMAIN reviews = 1 .. Len(reviews) /\ Len(reviews) \in Nat
  BY Before
<1>3. IsFiniteSet(shown) /\ Cardinality(shown) \in Nat
  <2>1. IsFiniteSet(DOMAIN reviews)
    BY <1>2, FS_Interval
  <2> HIDE DEF shown
  <2>2. IsFiniteSet(shown)
    BY <1>1, <2>1, FS_Subset
  <2> QED
    BY <2>2, FS_CardinalityType
<1>4. ASSUME q.kind = "browse", NEW n \in Throughout(during[r], q)
      PROVE  n \in shown
  <2>1. n \in DOMAIN reviews /\ EmployeeOf[reviews[n].appt] = q.employee
        /\ IsListed(reviews[n], q.rating)
    BY DEF Throughout, Watched, Watching, Version, IsListed
  <2> QED
    BY <1>4, <2>1 DEF Selected
<1> QED
  BY <1>1, <1>3, <1>4

LEMMA CountWatch ==
  ASSUME Consistent, Watched, NEW r \in Requests, ReadCount(r)
  PROVE  Watched'
<1> DEFINE q == tx[r].req
           shown == Selected(reviews, q)
           t == [tx[r] EXCEPT !.pc = "items", !.total = Cardinality(shown)]
<1>1. tx[r].pc # "idle" /\ q.kind \in {"browse", "mine", "queue"}
  BY DEF ReadCount
<1>2. CASE Answer(r, 404)
  BY <1>2, AnswerWatch DEF Answer
<1>3. CASE ~TurnedAway(q) /\ Proceed(r, t)
  <2>1. tx[r] \in Tx
    BY <1>1, Before
  <2>2. t.pc = "items" /\ t.req = q /\ t.total = Cardinality(shown)
    BY <2>1 DEF Tx
  <2> DEFINE T == Throughout(during[r], q)
  <2>3. q.kind = "browse" => Cardinality(T) <= Cardinality(shown)
    <3>1. IsFiniteSet(shown) /\ (q.kind = "browse" => T \in SUBSET shown)
      BY <1>1, SelectedRows
    <3> HIDE DEF T, shown
    <3> QED
      BY <3>1, FS_Subset
  <2> HIDE DEF t, shown
  <2>4. Watching(t, during[r])
    BY <1>1, <1>3, <2>2, <2>3 DEF Watched, Watching
  <2>5. during' = [during EXCEPT ![r] = during[r]] /\ UNCHANGED reviews
        /\ tx' = [tx EXCEPT ![r] = t]
    BY <1>3 DEF Proceed, tables, Consistent, TypeOK
  <2> QED
    BY <2>4, <2>5, LocalWatch
<1> QED
  BY <1>2, <1>3 DEF ReadCount

LEMMA WatchKept ==
  ASSUME Consistent, Watched, [Next]_vars
  PROVE  Watched'
<1>1. ASSUME NEW r \in Requests, NEW code, Answer(r, code)
      PROVE  Watched'
  BY <1>1, AnswerWatch DEF Answer
<1>2. CASE UNCHANGED vars \/ Complete \/ Tick
  <2>1. UNCHANGED <<reviews, tx, during>>
    BY <1>2 DEF vars, tables, Complete, Tick
  <2> QED
    BY <2>1 DEF Watched, Watching, Throughout, TurnedAway
<1>3. ASSUME NEW r \in Requests, Write(r)
      PROVE  Watched'
  BY <1>1, <1>3, CommitsWatch DEF Write, Commits
<1>4. ASSUME NEW r \in Requests, AnswerWrite(r) \/ Fail(r)
      PROVE  Watched'
  BY <1>1, <1>4 DEF AnswerWrite, Fail
<1>5. ASSUME NEW r \in Requests, ReadOne(r)
      PROVE  Watched'
  <2>1. \/ Answer(r, 404)
        \/ \E shown, total : AnswerWith(r, 200, shown, total)
    BY <1>5 DEF ReadOne
  <2> QED
    BY <1>1, <2>1, AnswerWatch
<1>6. ASSUME NEW r \in Requests, ReadItems(r)
      PROVE  Watched'
  <2>1. \E shown : AnswerWith(r, 200, shown, tx[r].total)
    BY <1>6 DEF ReadItems
  <2> QED
    BY <2>1, AnswerWatch
<1>7. ASSUME \E r \in Requests :
             \/ Submit(r)
             \/ LoadCreate(r) \/ LoadEdit(r) \/ LoadReport(r) \/ LoadReply(r)
             \/ LoadModeration(r) \/ LoadResolution(r)
             \/ Write(r) \/ AnswerWrite(r)
             \/ ReadOne(r) \/ ReadCount(r) \/ ReadItems(r)
             \/ Fail(r)
      PROVE  Watched'
  BY <1>3, <1>4, <1>5, <1>6, <1>7, SubmitWatch, LoadWatch, CountWatch
<1> QED
  BY <1>2, <1>7 DEF Next

\* A review has been one to show to a request, at some time.
Readable(n, q, d) ==
  \/ \E v \in d[n] : v[1] = "PUBLISHED" /\ (q.kind = "browse" => q.rating \in {None, v[2]})
  \/ Author(n) = q.actor \/ IsAdmin(q.actor)

\* What AnswersShowThePublished says of one answer.
Shows(r, shown, total) ==
  LET q == tx[r].req
  IN /\ \A n \in shown \cap DOMAIN during[r] :
          Readable(n, q, during[r])
     /\ q.kind = "browse" =>
          LET always == Throughout(during[r], q)
          IN /\ Cardinality(always) <= total
             /\ Cardinality(shown) < q.size =>
                  Cardinality(always \ shown) <= Offset(q)

\* A review that a SELECT of the request finds was published at some time since the request
\* arrived, or is the reader's to see.
LEMMA SelectedIsReadable ==
  ASSUME Consistent, Watched, NEW r \in Requests,
         \/ tx[r].pc = "load" /\ tx[r].req.kind \in {"get", "appointment"}
         \/ tx[r].pc = "items",
         NEW n \in Selected(reviews, tx[r].req) \cap DOMAIN during[r]
  PROVE  Readable(n, tx[r].req, during[r])
<1> DEFINE q == tx[r].req
           v == Version(reviews[n])
<1>1. n \in DOMAIN reviews /\ v \in during[r][n]
      /\ v[1] = reviews[n].status /\ v[2] = reviews[n].content[Overall]
  BY DEF Watched, Watching, Version
<1> HIDE DEF v
<1>2. CASE q.kind = "get"
  BY <1>1, <1>2 DEF Selected, Authorized, Author, Readable
<1>3. CASE q.kind = "appointment"
  BY <1>1, <1>3 DEF Selected, Authorized, Author, Readable
<1>4. CASE q.kind = "browse"
  <2>1. IsListed(reviews[n], q.rating)
    BY <1>4 DEF Selected
  <2> QED
    BY <1>1, <2>1 DEF IsListed, Readable
<1>5. CASE q.kind = "mine"
  BY <1>1, <1>5 DEF Selected, Author, Readable
<1>6. CASE q.kind = "queue" /\ tx[r].pc = "items"
  BY <1>6 DEF Watched, Watching, TurnedAway, Readable
<1> QED
  BY <1>2, <1>3, <1>4, <1>5, <1>6 DEF Watched, Watching

\* What a page that is not full misses of the rows selected was on the pages before it.
LEMMA PageMisses ==
  ASSUME NEW q, q.page \in Counts, q.size \in Counts, IsFiniteSet(Selected(reviews, q)),
         NEW shown \in Pages(reviews, q), Cardinality(shown) < q.size,
         NEW always, always \subseteq Selected(reviews, q)
  PROVE  Cardinality(always \ shown) <= Offset(q)
<1> DEFINE rows == Selected(reviews, q)
           before == Offset(q)
<1>1. PICK skipped \in SUBSET (rows \ shown) :
        /\ Cardinality(skipped) <= before
        /\ Cardinality(shown) < q.size => skipped \cup shown = rows
  BY Zenon DEF Pages
<1>2. before \in Nat
  <2>1. q.page - 1 \in Nat /\ q.size \in Nat
    BY DEF Counts
  <2> QED
    BY <2>1 DEF Offset
<1> HIDE DEF rows, before
<1>3. IsFiniteSet(skipped) /\ always \ shown \in SUBSET skipped
  <2>1. skipped \subseteq rows /\ IsFiniteSet(rows)
    BY DEF rows
  <2>2. IsFiniteSet(skipped)
    BY <2>1, FS_Subset
  <2> QED
    BY <1>1, <2>2 DEF rows
<1>4. /\ Cardinality(always \ shown) <= Cardinality(skipped)
      /\ IsFiniteSet(always \ shown)
  BY <1>3, FS_Subset
<1>5. Cardinality(always \ shown) \in Nat /\ Cardinality(skipped) \in Nat
  BY <1>3, <1>4, FS_CardinalityType
<1>6. Cardinality(always \ shown) <= before
  BY <1>1, <1>2, <1>4, <1>5
<1> QED
  BY <1>6 DEF before

LEMMA BrowseType ==
  ASSUME NEW q \in Inputs, q.kind = "browse"
  PROVE  q.page \in Counts /\ q.size \in Counts
<1>1. q \in ReadRequest
  BY InputType DEF WriteKinds
<1> QED
  BY <1>1 DEF ReadRequest

\* Only three steps answer with 200.
LEMMA Answers ==
  ASSUME Consistent, Watched, Next, reply' # None, reply'.code = 200
  PROVE  LET r == reply'.to IN r \in Requests /\ Shows(r, reply'.shown, reply'.total)
<1>1. ASSUME NEW r \in Requests, NEW code, NEW shown, NEW total, AnswerWith(r, code, shown, total)
      PROVE  /\ reply'.to = r /\ reply'.shown = shown /\ reply'.total = total
             /\ code = 200
  BY <1>1 DEF AnswerWith
<1>2. ASSUME NEW r \in Requests, NEW code, Answer(r, code), code # 200
      PROVE  FALSE
  BY <1>1, <1>2 DEF Answer
<1>3. ASSUME NEW r \in Requests, NEW t, Proceed(r, t)
      PROVE  FALSE
  BY <1>3 DEF Proceed
<1>4. ASSUME NEW r \in Requests, Committed(r)
      PROVE  FALSE
  BY <1>4 DEF Committed
<1>5. ASSUME NEW r \in Requests, Submit(r) \/ Fail(r)
      PROVE  FALSE
  <2>1. CASE Submit(r)
    BY <2>1, Zenon DEF Submit
  <2>2. CASE Fail(r)
    BY <1>2, <2>2 DEF Fail
  <2> QED
    BY <1>5, <2>1, <2>2
<1>6. ASSUME NEW r \in Requests,
             \/ LoadCreate(r) \/ LoadEdit(r) \/ LoadReport(r)
             \/ LoadModeration(r)
      PROVE  FALSE
  BY <1>2, <1>3, <1>6 DEF LoadCreate, LoadEdit, LoadReport, LoadModeration
<1>7. ASSUME NEW r \in Requests, LoadReply(r) \/ LoadResolution(r)
      PROVE  FALSE
  <2>1. \/ Answer(r, 404) \/ Answer(r, 403)
        \/ \E t : Proceed(r, t)
    BY <1>7, Zenon DEF LoadReply, LoadResolution
  <2> QED
    BY <1>2, <1>3, <2>1
<1>8. ASSUME NEW r \in Requests, Write(r)
      PROVE  FALSE
  <2>1. ~Answer(r, 409) /\ ~Answer(r, 500) /\ ~Committed(r)
    BY <1>2, <1>4
  <2>2. ~WriteCreate(r)
    BY <2>1, Zenon DEF WriteCreate
  <2>3. ~WriteChange(r)
    BY <2>1, Zenon DEF WriteChange
  <2>4. ~WriteReport(r)
    BY <2>1, Zenon DEF WriteReport
  <2>5. ~WriteReply(r)
    BY <2>1, Zenon DEF WriteReply
  <2>6. ~WriteResolution(r)
    BY <2>1, Zenon DEF WriteResolution
  <2> QED
    BY <1>8, <2>2, <2>3, <2>4, <2>5, <2>6 DEF Write
<1>9. ASSUME NEW r \in Requests, AnswerWrite(r)
      PROVE  reply'.to = r /\ Shows(r, reply'.shown, reply'.total)
  <2>1. tx[r].req \in WriteRequest /\ tx[r].req \in Inputs
    BY <1>9, Before DEF AnswerWrite, TxOK
  <2>2. tx[r].req.kind # "browse"
    BY <2>1, InputType DEF WriteKinds
  <2>3. \E code : AnswerWith(r, code, {}, 0)
    BY <1>9 DEF AnswerWrite, Answer
  <2> QED
    BY <1>1, <2>2, <2>3 DEF Shows
<1>10. ASSUME NEW r \in Requests, ReadOne(r)
       PROVE  reply'.to = r /\ Shows(r, reply'.shown, reply'.total)
  <2> DEFINE shown == Selected(reviews, tx[r].req)
  <2>1. AnswerWith(r, 200, shown, Cardinality(shown))
        /\ tx[r].req.kind \in {"get", "appointment"} /\ tx[r].pc = "load"
    BY <1>2, <1>10 DEF ReadOne
  <2> QED
    BY <1>1, <2>1, SelectedIsReadable DEF Shows
<1>11. ASSUME NEW r \in Requests, ReadItems(r)
       PROVE  reply'.to = r /\ Shows(r, reply'.shown, reply'.total)
  <2> DEFINE q == tx[r].req
  <2>1. PICK shown \in Pages(reviews, q) : AnswerWith(r, 200, shown, tx[r].total)
    BY <1>11 DEF ReadItems
  <2>2. reply'.to = r /\ reply'.shown = shown /\ reply'.total = tx[r].total
    BY <1>1, <2>1
  <2>3. tx[r].pc = "items"
    BY <1>11 DEF ReadItems
  <2>4. shown \subseteq Selected(reviews, q)
    BY PageRows
  <2>5. \A n \in shown \cap DOMAIN during[r] : Readable(n, q, during[r])
    BY <2>3, <2>4, SelectedIsReadable
  <2>6. q.kind = "browse" => Cardinality(Throughout(during[r], q)) <= tx[r].total
    BY <2>3 DEF Watched, Watching
  <2>7. q.kind = "browse" /\ Cardinality(shown) < q.size =>
          Cardinality(Throughout(during[r], q) \ shown) <= Offset(q)
    <3> DEFINE always == Throughout(during[r], q)
    <3>1. SUFFICES ASSUME q.kind = "browse", Cardinality(shown) < q.size
                   PROVE  Cardinality(always \ shown) <= Offset(q)
      OBVIOUS
    <3>2. q \in Inputs
      BY <2>3, Before
    <3>3. q.page \in Counts /\ q.size \in Counts
      BY <3>1, <3>2, BrowseType
    <3>4. always \subseteq Selected(reviews, q) /\ IsFiniteSet(Selected(reviews, q))
      BY <2>3, <3>1, SelectedRows
    <3>5. shown \in Pages(reviews, q)
      BY <2>1
    <3> HIDE DEF q, always
    <3> QED
      BY <3>1, <3>3, <3>4, <3>5, PageMisses
  <2> QED
    BY <2>2, <2>5, <2>6, <2>7 DEF Shows
<1>12. ASSUME NEW r \in Requests, ReadCount(r)
       PROVE  FALSE
  BY <1>2, <1>3, <1>12 DEF ReadCount
<1>13. ~Complete /\ ~Tick
  BY Zenon DEF Complete, Tick
<1>14. PICK r \in Requests :
         \/ Submit(r)
         \/ LoadCreate(r) \/ LoadEdit(r) \/ LoadReport(r) \/ LoadReply(r)
         \/ LoadModeration(r) \/ LoadResolution(r)
         \/ Write(r) \/ AnswerWrite(r)
         \/ ReadOne(r) \/ ReadCount(r) \/ ReadItems(r)
         \/ Fail(r)
  BY <1>13, Zenon DEF Next
<1>15. AnswerWrite(r) \/ ReadOne(r) \/ ReadItems(r)
  BY <1>5, <1>6, <1>7, <1>8, <1>12, <1>14
<1> QED
  BY <1>9, <1>10, <1>11, <1>15

\* What an answer shows was published at some time while the request was handled, unless its
\* reader is its author or an administrator; a list of an employee's reviews, two SELECTs at
\* READ COMMITTED, counts those that were in it all the time, and a page of it that is not
\* full misses no more of them than the pages before it hold.
THEOREM AnswersAreRight == Spec => AnswersShowThePublished
<1> DEFINE A == reply' # None /\ reply'.code = 200 =>
       LET r == reply'.to
           q == tx[r].req
       IN /\ \A n \in reply'.shown \cap DOMAIN during[r] :
               \/ \E v \in during[r][n] :
                    v[1] = "PUBLISHED" /\ (q.kind = "browse" => q.rating \in {None, v[2]})
               \/ Author(n) = q.actor \/ IsAdmin(q.actor)
          /\ q.kind = "browse" =>
               LET always == {n \in DOMAIN during[r] :
                                /\ EmployeeOf[reviews[n].appt] = q.employee
                                /\ \A v \in during[r][n] :
                                     v[1] = "PUBLISHED" /\ q.rating \in {None, v[2]}}
               IN /\ Cardinality(always) <= reply'.total
                  /\ Cardinality(reply'.shown) < q.size =>
                       Cardinality(always \ reply'.shown) <= Offset(q)
<1>1. Init => Watched
  BY DEF Init, Watched, Watching, Idle
<1>2. Consistent /\ Watched /\ [Next]_vars => Watched'
  BY WatchKept
<1>3. Consistent /\ Watched /\ [Next]_vars => [A]_vars
  BY Answers DEF Shows, Throughout, Readable
<1>4. Spec => [](Consistent /\ Watched)
  BY <1>1, <1>2, Invariance, PTL DEF Spec
<1>5. [](Consistent /\ Watched) /\ [][Next]_vars => [][A]_vars
  BY <1>3, PTL
<1> QED
  BY <1>4, <1>5, PTL DEF Spec, AnswersShowThePublished
=============================================================================
