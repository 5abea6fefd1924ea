--------------------------- MODULE CalendarProofs ---------------------------
(***************************************************************************)
(* Proofs about Calendar, for any calendar and any number of requests: the *)
(* rows satisfy the constraints of their tables, what is offered is        *)
(* exactly what can be worked, and a booking or a move honours every row   *)
(* that stood while it was made.                                           *)
(***************************************************************************)
EXTENDS Calendar, IntervalProofs

USE LocalAssumption, NumberAssumption

-----------------------------------------------------------------------------
(***************************************************************************)
(* The rows fit.                                                           *)
(***************************************************************************)

Pcs == {"idle", "load", "check", "write", "find", "exceptions", "hours", "breaks", "blocks",
        "appointments", "insert"}

\* A transaction of rows R; what a calculation has read is of no interest here.
TxShape(t, R) ==
  t \in [pc : Pcs, req : Inputs \cup {None}, seen : Row \cup {None},
         windows : {t.windows}, taken : {t.taken}, standing : SUBSET DOMAIN R]

\* Each handler runs for its own kind of request, and a row that an update has found is
\* never removed.
Suits(t, R) ==
  /\ t.pc # "idle" => t.req \in Inputs
  /\ t.pc = "load" => t.req.kind = "update"
  /\ t.pc \in {"check", "write"} =>
       \/ t.req.kind = "create"
       \/ t.req.kind = "update" /\ t.req.id \in DOMAIN R
  /\ t.pc \in Pcs \ {"idle", "load", "check", "write"} => t.req.kind \in {"ask", "book", "move"}
  /\ t.pc = "insert" => t.req.kind \in {"book", "move"}

Sound(t, R) == TxShape(t, R) /\ Suits(t, R)

Inv ==
  /\ rows \in Seq(Row) /\ appts \in SUBSET Spaces
  /\ DOMAIN tx = Requests /\ tx = [r \in Requests |-> tx[r]]
  /\ \A r \in Requests : Sound(tx[r], rows)
  /\ RowsFit

LEMMA InvConsistent == Inv => Consistent
  BY DEF Inv, Consistent, TypeOK, Sound, TxShape, Pcs, Spaces

\* The kinds of the requests.
LEMMA OfInput ==
  ASSUME NEW q \in Inputs
  PROVE  /\ q.kind \in {"create", "update", "book", "move", "ask"}
         /\ q.kind \in {"create", "update"} => q.row \in Row
         /\ q.kind \in {"book", "move"} => q.start \in Int
  BY InputAssumption DEF Wanted

LEMMA InitInv == Init => Inv
  BY DEF Init, Inv, Idle, Sound, TxShape, Suits, Pcs, Row, RowsFit

\* A step that changes no row and gives r a sound transaction.
LEMMA ProceedStep ==
  ASSUME Inv, NEW r \in Requests, NEW t, Sound(t, rows), Proceed(r, t)
  PROVE  Inv'
<1>1. tx' = [s \in Requests |-> IF s = r THEN t ELSE tx[s]] BY DEF Proceed, Inv
<1>2. rows' = rows /\ appts' = appts BY DEF Proceed
<1>3. \A s \in Requests : Sound(tx'[s], rows) BY <1>1 DEF Inv
<1>4. RowsFit' BY <1>2 DEF Inv, RowsFit
<1> QED BY <1>1, <1>2, <1>3, <1>4 DEF Inv, Sound, TxShape, Suits

LEMMA IdleSound == ASSUME NEW R PROVE Sound(Idle, R)
  BY DEF Sound, TxShape, Suits, Idle, Pcs

LEMMA AnswerStep ==
  ASSUME Inv, NEW r \in Requests, NEW code, NEW slots, Answer(r, code, slots)
  PROVE  Inv'
<1>1. tx' = [s \in Requests |-> IF s = r THEN Idle ELSE tx[s]] BY DEF Answer, Inv
<1>2. rows' = rows /\ appts' = appts BY DEF Answer
<1>3. \A s \in Requests : Sound(tx'[s], rows) BY <1>1, IdleSound DEF Inv
<1>4. RowsFit' BY <1>2 DEF Inv, RowsFit
<1> QED BY <1>1, <1>2, <1>3, <1>4 DEF Inv, Sound, TxShape, Suits

LEMMA SubmitStep ==
  ASSUME Inv, NEW r \in Requests, Submit(r)
  PROVE  Inv'
<1>1. PICK q \in Inputs :
        Proceed(r, [Idle EXCEPT !.pc = FirstStep(q), !.req = q, !.standing = DOMAIN rows])
  BY DEF Submit
<1> DEFINE t == [Idle EXCEPT !.pc = FirstStep(q), !.req = q, !.standing = DOMAIN rows]
<1>2. /\ FirstStep(q) \in {"load", "check", "write", "find", "exceptions"}
      /\ FirstStep(q) = "load" => q.kind = "update"
      /\ FirstStep(q) \in {"check", "write"} => q.kind = "create"
      /\ FirstStep(q) \in {"find", "exceptions"} => q.kind \in {"ask", "book", "move"}
  BY OfInput DEF FirstStep
<1>3. Sound(t, rows) BY <1>2 DEF Sound, TxShape, Suits, Idle, Pcs
<1>4. Proceed(r, t) BY <1>1
<1> HIDE DEF t
<1> QED BY <1>3, <1>4, ProceedStep

LEMMA LoadStep ==
  ASSUME Inv, NEW r \in Requests, Load(r)
  PROVE  Inv'
<1> DEFINE q == tx[r].req
<1>1. CASE Answer(r, 404, {}) BY <1>1, AnswerStep
<1>2. CASE /\ q.id \in DOMAIN rows
           /\ Proceed(r, [tx[r] EXCEPT !.seen = rows[q.id],
                            !.pc = IF q.row.kind = "exception" THEN "check" ELSE "write"])
  <2> DEFINE t == [tx[r] EXCEPT !.seen = rows[q.id],
                      !.pc = IF q.row.kind = "exception" THEN "check" ELSE "write"]
  <2>1. Sound(tx[r], rows) /\ tx[r].pc = "load" BY DEF Inv, Load
  <2>2. rows[q.id] \in Row BY <1>2 DEF Inv
  <2>3. Sound(t, rows) BY <1>2, <2>1, <2>2 DEF Sound, TxShape, Suits, Pcs
  <2>4. Proceed(r, t) BY <1>2
  <2> HIDE DEF t
  <2> QED BY <2>3, <2>4, ProceedStep
<1> QED BY <1>1, <1>2 DEF Load

LEMMA FindStep ==
  ASSUME Inv, NEW r \in Requests, Find(r)
  PROVE  Inv'
<1>1. CASE Answer(r, 409, {}) BY <1>1, AnswerStep
<1>2. CASE Proceed(r, [tx[r] EXCEPT !.pc = "exceptions"])
  <2> DEFINE t == [tx[r] EXCEPT !.pc = "exceptions"]
  <2>1. Sound(tx[r], rows) /\ tx[r].pc = "find" BY DEF Inv, Find
  <2>2. Sound(t, rows) BY <2>1 DEF Sound, TxShape, Suits, Pcs
  <2>3. Proceed(r, t) BY <1>2
  <2> HIDE DEF t
  <2> QED BY <2>2, <2>3, ProceedStep
<1> QED BY <1>1, <1>2 DEF Find

LEMMA CheckStep ==
  ASSUME Inv, NEW r \in Requests, CheckException(r)
  PROVE  Inv'
<1>1. CASE Answer(r, 409, {}) BY <1>1, AnswerStep
<1>2. CASE Proceed(r, [tx[r] EXCEPT !.pc = "write"])
  <2> DEFINE t == [tx[r] EXCEPT !.pc = "write"]
  <2>1. Sound(tx[r], rows) /\ tx[r].pc = "check" BY DEF Inv, CheckException
  <2>2. Sound(t, rows) BY <2>1 DEF Sound, TxShape, Suits, Pcs
  <2>3. Proceed(r, t) BY <1>2
  <2> HIDE DEF t
  <2> QED BY <2>2, <2>3, ProceedStep
<1> QED BY <1>1, <1>2 DEF CheckException

\* A column is written as it was asked or left as it was, so the row has the types of both.
LEMMA UpdatedRow ==
  ASSUME NEW seen, NEW row \in Row, NEW old \in Row
  PROVE  Updated(seen, row, old) \in Row
  BY DEF Updated, Row

\* A row that fits is put among rows that fit.  Two of a kind differ whichever of them is
\* the new one, because a day off has no times and every other row has.
LEMMA StillFit ==
  ASSUME NEW id, NEW new \in Row, rows \in Seq(Row), RowsFit,
         NEW R, R \in Seq(Row), DOMAIN R = DOMAIN rows \cup {id}, R[id] = new,
         \A n \in DOMAIN rows \ {id} : R[n] = rows[n],
         Fits(new, DOMAIN rows \ {id}), rows' = R
  PROVE  RowsFit'
<1>1. \A n \in DOMAIN R : WellFormed(R[n]) BY DEF RowsFit, Fits
<1>2. ASSUME NEW n \in DOMAIN rows \ {id}, rows[n].kind = new.kind
      PROVE  /\ ~(rows[n].off /\ rows[n].active /\ new.off /\ new.active)
             /\ \/ new.kind = "block" \/ new.off
                \/ rows[n].start # new.start \/ rows[n].end # new.end
  BY <1>2 DEF Fits, DayOffFree, WindowFree
<1>3. ASSUME NEW n \in DOMAIN rows \ {id}, rows[n].kind = new.kind
      PROVE  \/ rows[n].kind = "block" \/ rows[n].off
             \/ rows[n].start # new.start \/ rows[n].end # new.end
  <2>1. WellFormed(rows[n]) /\ WellFormed(new) BY DEF RowsFit, Fits
  <2>2. CASE new.off BY <2>1, <2>2 DEF WellFormed
  <2>3. CASE ~new.off BY <1>2, <1>3, <2>3
  <2> QED BY <2>2, <2>3
<1>4. ASSUME NEW m \in DOMAIN R, NEW n \in DOMAIN R, m # n, R[m].kind = R[n].kind
      PROVE  /\ ~(R[m].off /\ R[m].active /\ R[n].off /\ R[n].active)
             /\ \/ R[m].kind = "block" \/ R[m].off
                \/ R[m].start # R[n].start \/ R[m].end # R[n].end
  <2>1. CASE m # id /\ n # id BY <1>4, <2>1 DEF RowsFit
  <2>2. CASE m = id BY <1>2, <1>4, <2>2
  <2>3. CASE n = id BY <1>2, <1>3, <1>4, <2>3
  <2> QED BY <2>1, <2>2, <2>3
<1> QED BY <1>1, <1>4 DEF RowsFit, WellFormed

\* A row replaced in place.
LEMMA Replaced ==
  ASSUME rows \in Seq(Row), NEW id \in DOMAIN rows, NEW new \in Row
  PROVE  /\ [rows EXCEPT ![id] = new] \in Seq(Row)
         /\ DOMAIN [rows EXCEPT ![id] = new] = DOMAIN rows \cup {id}
         /\ [rows EXCEPT ![id] = new][id] = new
         /\ \A n \in DOMAIN rows \ {id} : [rows EXCEPT ![id] = new][n] = rows[n]
<1> DEFINE R == [rows EXCEPT ![id] = new]
<1>1. DOMAIN rows = 1 .. Len(rows) /\ Len(rows) \in Nat OBVIOUS
<1>2. DOMAIN R = 1 .. Len(rows) /\ R[id] = new BY <1>1
<1>3. \A n \in DOMAIN rows \ {id} : R[n] = rows[n] OBVIOUS
<1>4. R \in Seq(Row) BY ExceptSeq, <1>1
<1> QED BY <1>1, <1>2, <1>3, <1>4

LEMMA WriteStep ==
  ASSUME Inv, NEW r \in Requests, Write(r)
  PROVE  Inv'
<1> DEFINE q == tx[r].req
           id == IF q.kind = "create" THEN Len(rows) + 1 ELSE q.id
           new == IF q.kind = "create" THEN q.row ELSE Updated(tx[r].seen, q.row, rows[id])
           R == IF q.kind = "create" THEN Append(rows, new) ELSE [rows EXCEPT ![id] = new]
<1>1. CASE Answer(r, 409, {}) BY <1>1, AnswerStep
<1>2. CASE /\ Fits(new, DOMAIN rows \ {id}) /\ rows' = R /\ appts' = appts
           /\ tx' = [s \in Requests |->
                       IF s = r THEN Idle ELSE [tx[s] EXCEPT !.standing = @ \ {id}]]
  <2>1. rows \in Seq(Row) /\ RowsFit /\ Sound(tx[r], rows) BY DEF Inv
  <2>2. q \in Inputs /\ tx[r].pc = "write" BY <2>1 DEF Sound, Suits, Write
  <2>3. q.kind = "create" \/ (q.kind = "update" /\ q.id \in DOMAIN rows)
    BY <2>1, <2>2 DEF Sound, Suits
  <2>4. q.row \in Row BY <2>2, <2>3, OfInput
  <2>5. /\ new \in Row /\ R \in Seq(Row) /\ DOMAIN R = DOMAIN rows \cup {id} /\ R[id] = new
        /\ \A n \in DOMAIN rows \ {id} : R[n] = rows[n]
    <3>1. CASE q.kind = "create" BY <2>1, <2>4, <3>1
    <3>2. CASE q.kind # "create"
      <4>1. id \in DOMAIN rows BY <2>3, <3>2
      <4>2. rows[id] \in Row BY <2>1, <4>1
      <4>3. new \in Row BY <2>4, <3>2, <4>2, UpdatedRow
      <4>4. R = [rows EXCEPT ![id] = new] BY <3>2
      <4> HIDE DEF new, R, id
      <4> QED BY <2>1, <4>1, <4>3, <4>4, Replaced
    <3> QED BY <3>1, <3>2
  <2>6. rows' = R /\ Fits(new, DOMAIN rows \ {id}) BY <1>2
  <2>7. \A s \in Requests : Sound(tx'[s], rows')
    <3> HIDE DEF R, new
    <3>1. DOMAIN rows \subseteq DOMAIN rows' BY <2>5, <2>6
    <3>2. TAKE s \in Requests
    <3>3. CASE s = r BY <1>2, <3>3, IdleSound
    <3>4. CASE s # r
      <4>1. tx'[s] = [tx[s] EXCEPT !.standing = @ \ {id}] BY <1>2, <3>4
      <4>2. Sound(tx[s], rows) BY DEF Inv
      <4> HIDE DEF id
      <4> QED BY <3>1, <4>1, <4>2 DEF Sound, TxShape, Suits
    <3> QED BY <3>3, <3>4
  <2> HIDE DEF R, new, id
  <2>8. RowsFit' BY <2>1, <2>5, <2>6, StillFit
  <2>9. DOMAIN tx' = Requests /\ tx' = [s \in Requests |-> tx'[s]] BY <1>2
  <2> QED BY <1>2, <2>5, <2>6, <2>7, <2>8, <2>9 DEF Inv
<1> QED BY <1>1, <1>2 DEF Write

\* The end of a calculation, and the reads that lead there.
LEMMA OfferedStep ==
  ASSUME Inv, NEW r \in Requests, NEW slots, Offered(r, slots),
         tx[r].pc \in {"exceptions", "hours", "appointments"}
  PROVE  Inv'
<1>1. CASE \E code : Answer(r, code, slots) BY <1>1, AnswerStep
<1>2. CASE tx[r].req.kind # "ask" /\ Proceed(r, [tx[r] EXCEPT !.pc = "insert"])
  <2> DEFINE t == [tx[r] EXCEPT !.pc = "insert"]
  <2>1. Sound(tx[r], rows) BY DEF Inv
  <2>2. Sound(t, rows) BY <1>2, <2>1 DEF Sound, TxShape, Suits, Pcs
  <2>3. Proceed(r, t) BY <1>2
  <2> HIDE DEF t
  <2> QED BY <2>2, <2>3, ProceedStep
<1> QED BY <1>1, <1>2 DEF Offered

\* A calculation goes on to another read, whatever it has read: a transaction that differs
\* in where it stands and in what it has read is as sound as before.
LEMMA ReadOn ==
  ASSUME Inv, NEW r \in Requests, NEW t, Proceed(r, t),
         tx[r].pc \in {"exceptions", "hours", "breaks", "blocks"},
         t.pc \in {"hours", "breaks", "blocks", "appointments"},
         t \in [pc : {t.pc}, req : {tx[r].req}, seen : {tx[r].seen}, windows : {t.windows},
                taken : {t.taken}, standing : {tx[r].standing}]
  PROVE  Inv'
<1>1. Sound(tx[r], rows) BY DEF Inv
<1>2. Sound(t, rows) BY <1>1 DEF Sound, TxShape, Suits, Pcs
<1> QED BY <1>2, ProceedStep

LEMMA WorkedStep ==
  ASSUME Inv, NEW r \in Requests, NEW S, Worked(r, S), tx[r].pc \in {"exceptions", "hours"}
  PROVE  Inv'
<1>1. CASE Answer(r, 422, {}) BY <1>1, AnswerStep
<1>2. CASE Offered(r, {}) BY <1>2, OfferedStep
<1>3. CASE Proceed(r, [tx[r] EXCEPT !.windows = Spans(S), !.pc = "breaks"])
  <2> DEFINE t == [tx[r] EXCEPT !.windows = Spans(S), !.pc = "breaks"]
  <2>1. Sound(tx[r], rows) BY DEF Inv
  <2>2. /\ t.pc = "breaks"
        /\ t \in [pc : {t.pc}, req : {tx[r].req}, seen : {tx[r].seen}, windows : {t.windows},
                  taken : {t.taken}, standing : {tx[r].standing}]
    BY <2>1 DEF Sound, TxShape
  <2>3. Proceed(r, t) BY <1>3
  <2> HIDE DEF t
  <2> QED BY <2>2, <2>3, ReadOn
<1> QED BY <1>1, <1>2, <1>3 DEF Worked

LEMMA ReadExceptionsStep ==
  ASSUME Inv, NEW r \in Requests, ReadExceptions(r)
  PROVE  Inv'
<1>1. CASE Proceed(r, [tx[r] EXCEPT !.pc = "hours"])
  <2> DEFINE t == [tx[r] EXCEPT !.pc = "hours"]
  <2>1. Sound(tx[r], rows) /\ tx[r].pc = "exceptions" BY DEF Inv, ReadExceptions
  <2>2. /\ t.pc = "hours"
        /\ t \in [pc : {t.pc}, req : {tx[r].req}, seen : {tx[r].seen}, windows : {t.windows},
                  taken : {t.taken}, standing : {tx[r].standing}]
    BY <2>1 DEF Sound, TxShape
  <2>3. Proceed(r, t) BY <1>1
  <2> HIDE DEF t
  <2> QED BY <2>1, <2>2, <2>3, ReadOn
<1>2. CASE Offered(r, {}) BY <1>2, OfferedStep DEF ReadExceptions
<1>3. CASE Worked(r, Active("exception")) BY <1>3, WorkedStep DEF ReadExceptions
<1> QED BY <1>1, <1>2, <1>3 DEF ReadExceptions

LEMMA ReadBreaksStep ==
  ASSUME Inv, NEW r \in Requests, ReadBreaks(r)
  PROVE  Inv'
<1> DEFINE t == [tx[r] EXCEPT !.taken = Spans(Active("break")), !.pc = "blocks"]
<1>1. CASE Answer(r, 422, {}) BY <1>1, AnswerStep
<1>2. CASE Proceed(r, t)
  <2>1. Sound(tx[r], rows) /\ tx[r].pc = "breaks" BY DEF Inv, ReadBreaks
  <2>2. /\ t.pc = "blocks"
        /\ t \in [pc : {t.pc}, req : {tx[r].req}, seen : {tx[r].seen}, windows : {t.windows},
                  taken : {t.taken}, standing : {tx[r].standing}]
    BY <2>1 DEF Sound, TxShape
  <2> HIDE DEF t
  <2> QED BY <1>2, <2>1, <2>2, ReadOn
<1> QED BY <1>1, <1>2 DEF ReadBreaks

LEMMA ReadBlocksStep ==
  ASSUME Inv, NEW r \in Requests, ReadBlocks(r)
  PROVE  Inv'
<1> DEFINE t == [tx[r] EXCEPT !.taken = @ \cup OfDay(Active("block")),
                              !.pc = "appointments"]
<1>1. Sound(tx[r], rows) /\ tx[r].pc = "blocks" BY DEF Inv, ReadBlocks
<1>2. /\ t.pc = "appointments"
      /\ t \in [pc : {t.pc}, req : {tx[r].req}, seen : {tx[r].seen}, windows : {t.windows},
                taken : {t.taken}, standing : {tx[r].standing}]
  BY <1>1 DEF Sound, TxShape
<1>3. Answer(r, 422, {}) \/ Proceed(r, t) BY DEF ReadBlocks
<1> HIDE DEF t
<1> QED BY <1>1, <1>2, <1>3, AnswerStep, ReadOn

LEMMA InsertStep ==
  ASSUME Inv, NEW r \in Requests, Insert(r)
  PROVE  Inv'
<1> DEFINE new == Taking(tx[r].req.start)
           others == appts \ Leaving(tx[r].req)
<1>1. CASE Answer(r, 409, {}) BY <1>1, AnswerStep
<1>2. CASE /\ appts' = others \cup {new} /\ rows' = rows
           /\ tx' = [tx EXCEPT ![r] = Idle]
  <2>1. Sound(tx[r], rows) /\ tx[r].pc = "insert" BY DEF Inv, Insert
  <2>2. tx[r].req \in Inputs /\ tx[r].req.kind \in {"book", "move"} BY <2>1 DEF Sound, Suits
  <2>3. tx[r].req.start \in Int BY <2>2, OfInput
  <2>4. new \in Spaces BY <2>3 DEF Taking, Span, Spaces
  <2> HIDE DEF new
  <2>5. appts' \in SUBSET Spaces BY <1>2, <2>4 DEF Inv
  <2>6. tx' = [s \in Requests |-> IF s = r THEN Idle ELSE tx[s]] BY <1>2 DEF Inv
  <2>7. \A s \in Requests : Sound(tx'[s], rows) BY <2>6, IdleSound DEF Inv
  <2>8. RowsFit' BY <1>2 DEF Inv, RowsFit
  <2> QED BY <1>2, <2>5, <2>6, <2>7, <2>8 DEF Inv, Sound, TxShape, Suits
<1> QED BY <1>1, <1>2 DEF Insert

LEMMA NextInv == Inv /\ [Next]_vars => Inv'
<1> SUFFICES ASSUME Inv, [Next]_vars PROVE Inv' OBVIOUS
<1>1. CASE UNCHANGED vars
  BY <1>1 DEF vars, Inv, Sound, TxShape, Suits, RowsFit
<1>2. CASE Cancel
  <2>1. RowsFit' BY <1>2 DEF Cancel, Inv, RowsFit
  <2> QED BY <1>2, <2>1 DEF Cancel, Inv, Sound, TxShape, Suits
<1>3. ASSUME NEW r \in Requests,
             \/ Submit(r) \/ Load(r) \/ CheckException(r) \/ Write(r) \/ Find(r)
             \/ ReadExceptions(r) \/ ReadHours(r) \/ ReadBreaks(r) \/ ReadBlocks(r)
             \/ ReadAppointments(r) \/ Insert(r) \/ Fail(r)
      PROVE  Inv'
  <2>1. CASE Submit(r) BY <2>1, SubmitStep
  <2>2. CASE Load(r) BY <2>2, LoadStep
  <2>3. CASE CheckException(r) BY <2>3, CheckStep
  <2>4. CASE Write(r) BY <2>4, WriteStep
  <2>5. CASE ReadExceptions(r) BY <2>5, ReadExceptionsStep
  <2>6. CASE ReadHours(r) BY <2>6, WorkedStep DEF ReadHours
  <2>7. CASE ReadBreaks(r) BY <2>7, ReadBreaksStep
  <2>8. CASE ReadBlocks(r) BY <2>8, ReadBlocksStep
  <2>9. CASE ReadAppointments(r) BY <2>9, OfferedStep DEF ReadAppointments
  <2>10. CASE Insert(r) BY <2>10, InsertStep
  <2>11. CASE Fail(r) BY <2>11, AnswerStep DEF Fail
  <2>12. CASE Find(r) BY <2>12, FindStep
  <2> QED BY <1>3, <2>1, <2>2, <2>3, <2>4, <2>5, <2>6, <2>7, <2>8, <2>9, <2>10, <2>11, <2>12
<1> QED BY <1>1, <1>2, <1>3 DEF Next

\* Whatever administrators and clients send at once, and however their updates mix the
\* columns of a row, the committed rows satisfy the check and unique constraints of the
\* schedule's four tables.
THEOREM RowsAlwaysFit == Spec => []Consistent
<1>1. Init => Inv BY InitInv
<1>2. Inv /\ [Next]_vars => Inv' BY NextInv
<1>3. Inv => Consistent BY InvConsistent
<1> QED BY <1>1, <1>2, <1>3, PTL DEF Spec

-----------------------------------------------------------------------------
(***************************************************************************)
(* What a calculation has read.  It holds finite sets of intervals; what   *)
(* still stands of the rows since its request arrived is among them; and   *)
(* if everything stands, its windows are those of the rows.                *)
(***************************************************************************)

Finite(S) == S \in SUBSET Interval /\ IsFiniteSet(S)

\* The active rows of a kind that stand.
Standing(t, R, kind) ==
  {R[n] : n \in {m \in t.standing : R[m].kind = kind /\ R[m].active}}

\* Those that make the work windows.
Opening(t, R) ==
  IF Standing(t, R, "exception") # {} THEN Standing(t, R, "exception")
                                      ELSE Standing(t, R, "hours")

Reads(t, R) ==
  /\ Finite(t.windows) /\ Finite(t.taken)
  /\ t.pc = "hours" => Standing(t, R, "exception") = {}
  /\ t.pc \in {"breaks", "blocks", "appointments", "insert"} =>
       /\ \A row \in Standing(t, R, "exception") : ~row.off
       /\ t.standing = DOMAIN R => t.windows = Spans(Opening(t, R))
       /\ \A x \in t.windows : Day.start <= x.start /\ x.end <= Day.end
  /\ t.pc \in {"blocks", "appointments", "insert"} =>
       Spans(Standing(t, R, "break")) \subseteq t.taken
  /\ t.pc \in {"appointments", "insert"} => OfDay(Standing(t, R, "block")) \subseteq t.taken
  /\ t.pc = "insert" =>
       t.req.start .. t.req.start + Duration - 1 \subseteq Instants(t.windows) \ Instants(t.taken)

\* An update has found a row of its kind.
Found(t, R) ==
  t.pc \in {"check", "write"} /\ t.req.kind = "update" => R[t.req.id].kind = t.req.row.kind

RowsWanted == \A n \in DOMAIN rows : Wanted(rows[n])

Read ==
  /\ RowsWanted /\ Finite(appts)
  /\ \A r \in Requests : Found(tx[r], rows) /\ Reads(tx[r], rows)

LEMMA NothingRead ==
  ASSUME NEW R, NEW t, t.windows = {}, t.taken = {},
         t.pc \in {"idle", "load", "check", "write", "find", "exceptions"}
  PROVE  Reads(t, R)
  BY FS_EmptySet DEF Reads, Finite

LEMMA InitRead == Init => Read
<1> SUFFICES ASSUME Init PROVE Read OBVIOUS
<1>1. rows = <<>> /\ appts = {} /\ \A r \in Requests : tx[r] = Idle BY DEF Init
<1>2. Found(Idle, rows) BY DEF Found, Idle
<1>3. Reads(Idle, rows) BY NothingRead DEF Idle
<1>4. Finite({}) BY FS_EmptySet DEF Finite
<1> QED BY <1>1, <1>2, <1>3, <1>4 DEF Read, RowsWanted

\* A step that changes one transaction only.
LEMMA ProceedRead ==
  ASSUME Inv, Read, NEW r \in Requests, NEW t, Found(t, rows), Reads(t, rows), Proceed(r, t)
  PROVE  Read'
<1>1. tx' = [s \in Requests |-> IF s = r THEN t ELSE tx[s]] BY DEF Proceed, Inv
<1>2. rows' = rows /\ appts' = appts BY DEF Proceed
<1>3. \A s \in Requests : Found(tx'[s], rows') /\ Reads(tx'[s], rows')
  BY <1>1, <1>2 DEF Read
<1> QED BY <1>2, <1>3 DEF Read, RowsWanted

LEMMA AnswerRead ==
  ASSUME Inv, Read, NEW r \in Requests, NEW code, NEW slots, Answer(r, code, slots)
  PROVE  Read'
<1>1. tx' = [s \in Requests |-> IF s = r THEN Idle ELSE tx[s]] BY DEF Answer, Inv
<1>2. rows' = rows /\ appts' = appts BY DEF Answer
<1>3. Found(Idle, rows) /\ Reads(Idle, rows) BY NothingRead DEF Found, Idle
<1>4. \A s \in Requests : Found(tx'[s], rows') /\ Reads(tx'[s], rows')
  BY <1>1, <1>2, <1>3 DEF Read
<1> QED BY <1>2, <1>4 DEF Read, RowsWanted

LEMMA SubmitRead ==
  ASSUME Inv, Read, NEW r \in Requests, Submit(r)
  PROVE  Read'
<1>1. PICK q \in Inputs :
        Proceed(r, [Idle EXCEPT !.pc = FirstStep(q), !.req = q, !.standing = DOMAIN rows])
  BY DEF Submit
<1> DEFINE t == [Idle EXCEPT !.pc = FirstStep(q), !.req = q, !.standing = DOMAIN rows]
<1>2. /\ FirstStep(q) \in {"load", "check", "write", "find", "exceptions"}
      /\ FirstStep(q) \in {"check", "write"} => q.kind = "create"
  BY OfInput DEF FirstStep
<1>3. t.pc = FirstStep(q) /\ t.req = q /\ t.windows = {} /\ t.taken = {} BY DEF Idle
<1>4. Proceed(r, t) BY <1>1
<1> HIDE DEF t
<1>5. Found(t, rows) BY <1>2, <1>3 DEF Found
<1>6. Reads(t, rows) BY <1>2, <1>3, NothingRead
<1> QED BY <1>4, <1>5, <1>6, ProceedRead

\* A transaction that has read as much as the one before, and has not begun to calculate.
LEMMA SameRead ==
  ASSUME Read, NEW r \in Requests, NEW t, t.windows = tx[r].windows, t.taken = tx[r].taken,
         t.pc \in {"check", "write", "exceptions"}
  PROVE  Reads(t, rows)
  BY DEF Read, Reads

LEMMA LoadRead ==
  ASSUME Inv, Read, NEW r \in Requests, Load(r)
  PROVE  Read'
<1> DEFINE q == tx[r].req
<1>1. CASE Answer(r, 404, {}) BY <1>1, AnswerRead
<1>2. CASE /\ rows[q.id].kind = q.row.kind
           /\ Proceed(r, [tx[r] EXCEPT !.seen = rows[q.id],
                            !.pc = IF q.row.kind = "exception" THEN "check" ELSE "write"])
  <2> DEFINE t == [tx[r] EXCEPT !.seen = rows[q.id],
                      !.pc = IF q.row.kind = "exception" THEN "check" ELSE "write"]
  <2>1. Sound(tx[r], rows) BY DEF Inv
  <2>2. /\ t.windows = tx[r].windows /\ t.taken = tx[r].taken /\ t.req = q
        /\ t.pc \in {"check", "write"}
    BY <2>1 DEF Sound, TxShape
  <2>3. Proceed(r, t) BY <1>2
  <2> HIDE DEF t
  <2>4. Found(t, rows) BY <1>2, <2>2 DEF Found
  <2>5. Reads(t, rows) BY <2>2, SameRead
  <2> QED BY <2>3, <2>4, <2>5, ProceedRead
<1> QED BY <1>1, <1>2 DEF Load

LEMMA FindRead ==
  ASSUME Inv, Read, NEW r \in Requests, Find(r)
  PROVE  Read'
<1>1. CASE Answer(r, 409, {}) BY <1>1, AnswerRead
<1>2. CASE Proceed(r, [tx[r] EXCEPT !.pc = "exceptions"])
  <2> DEFINE t == [tx[r] EXCEPT !.pc = "exceptions"]
  <2>1. Sound(tx[r], rows) BY DEF Inv
  <2>2. t.windows = tx[r].windows /\ t.taken = tx[r].taken /\ t.pc = "exceptions"
    BY <2>1 DEF Sound, TxShape
  <2>3. Proceed(r, t) BY <1>2
  <2> HIDE DEF t
  <2>4. Found(t, rows) BY <2>2 DEF Found
  <2>5. Reads(t, rows) BY <2>2, SameRead
  <2> QED BY <2>3, <2>4, <2>5, ProceedRead
<1> QED BY <1>1, <1>2 DEF Find

LEMMA CheckRead ==
  ASSUME Inv, Read, NEW r \in Requests, CheckException(r)
  PROVE  Read'
<1>1. CASE Answer(r, 409, {}) BY <1>1, AnswerRead
<1>2. CASE Proceed(r, [tx[r] EXCEPT !.pc = "write"])
  <2> DEFINE t == [tx[r] EXCEPT !.pc = "write"]
  <2>1. Sound(tx[r], rows) /\ tx[r].pc = "check" BY DEF Inv, CheckException
  <2>2. /\ t.windows = tx[r].windows /\ t.taken = tx[r].taken /\ t.req = tx[r].req
        /\ t.pc = "write"
    BY <2>1 DEF Sound, TxShape
  <2>3. Proceed(r, t) BY <1>2
  <2> HIDE DEF t
  <2>4. Found(t, rows) BY <2>1, <2>2 DEF Found, Read
  <2>5. Reads(t, rows) BY <2>2, SameRead
  <2> QED BY <2>3, <2>4, <2>5, ProceedRead
<1> QED BY <1>1, <1>2 DEF CheckException

\* The image of a finite set under a function.
LEMMA FiniteImage ==
  ASSUME NEW S, IsFiniteSet(S), NEW f, DOMAIN f = S
  PROVE  IsFiniteSet({f[x] : x \in S})
<1> DEFINE T == {f[x] : x \in S}
           g == [x \in S |-> f[x]]
<1>1. g \in Surjection(S, T) BY DEF Surjection
<1> QED BY <1>1, FS_Surjection

\* The active rows of a kind.
LEMMA ActiveOf ==
  ASSUME rows \in Seq(Row), RowsWanted, NEW kind
  PROVE  /\ IsFiniteSet(Active(kind))
         /\ \A row \in Active(kind) : Wanted(row) /\ row.kind = kind /\ row.active
<1> DEFINE ids == {m \in DOMAIN rows : rows[m].kind = kind /\ rows[m].active}
           f == [n \in ids |-> rows[n]]
<1>1. DOMAIN rows = 1 .. Len(rows) /\ Len(rows) \in Nat OBVIOUS
<1>2. IsFiniteSet(1 .. Len(rows)) BY <1>1, FS_Interval
<1>3. IsFiniteSet(ids) BY <1>1, <1>2, FS_Subset
<1>4. IsFiniteSet({f[n] : n \in ids})
  <2>1. DOMAIN f = ids OBVIOUS
  <2> HIDE DEF f, ids
  <2> QED BY <1>3, <2>1, FiniteImage
<1>5. Active(kind) = {f[n] : n \in ids} BY DEF Active
<1>6. \A row \in Active(kind) : Wanted(row) /\ row.kind = kind /\ row.active
  BY DEF Active, RowsWanted
<1> QED BY <1>4, <1>5, <1>6

\* A row of local times that exist on this day is an interval of the day.
LEMMA SpanOf ==
  ASSUME NEW row, Wanted(row), row.kind # "block", ~row.off,
         Utc[row.start] # None, Utc[row.end] # None
  PROVE  /\ Span(Utc[row.start], Utc[row.end]) \in Interval
         /\ Day.start <= Utc[row.start] /\ Utc[row.end] <= Day.end
<1>1. row.start \in Local /\ row.end \in Local /\ row.start < row.end
  BY DEF Wanted, WellFormed
<1>2. Utc[row.start] \in Int /\ Utc[row.end] \in Int /\ Utc[row.start] < Utc[row.end]
  BY <1>1
<1> QED BY <1>1, <1>2, DayAssumption DEF Span, Interval, Spaces

LEMMA SpansWithin ==
  ASSUME NEW S, IsFiniteSet(S), \A row \in S : Wanted(row) /\ row.kind # "block", ~InGap(S)
  PROVE  /\ Finite(Spans(S))
         /\ \A x \in Spans(S) : Day.start <= x.start /\ x.end <= Day.end
<1> DEFINE timed == {x \in S : ~x.off}
           f == [row \in timed |-> Span(Utc[row.start], Utc[row.end])]
<1>1. ASSUME NEW row \in timed
      PROVE  /\ f[row] \in Interval
             /\ Day.start <= f[row].start /\ f[row].end <= Day.end
  BY SpanOf DEF InGap, Span
<1>2. IsFiniteSet(timed) BY FS_Subset
<1>3. Spans(S) = {f[row] : row \in timed} BY DEF Spans
<1>4. IsFiniteSet({f[row] : row \in timed})
  <2>1. DOMAIN f = timed OBVIOUS
  <2> HIDE DEF f, timed
  <2> QED BY <1>2, <2>1, FiniteImage
<1> HIDE DEF f, timed
<1> QED BY <1>1, <1>3, <1>4 DEF Finite

\* The intervals of blocks, and those of appointments.
LEMMA OfDayFinite ==
  ASSUME NEW S, IsFiniteSet(S),
         \A x \in S : x.start \in Int /\ x.end \in Int /\ x.start < x.end
  PROVE  Finite(OfDay(S))
<1> DEFINE near == {y \in S : y.start < Day.end /\ y.end > Day.start}
           f == [x \in near |-> Span(x.start, x.end)]
<1>1. \A x \in near : f[x] \in Interval BY DEF Span, Interval, Spaces
<1>2. IsFiniteSet(near) BY FS_Subset
<1>3. OfDay(S) = {f[x] : x \in near} BY DEF OfDay
<1>4. IsFiniteSet({f[x] : x \in near})
  <2>1. DOMAIN f = near OBVIOUS
  <2> HIDE DEF f, near
  <2> QED BY <1>2, <2>1, FiniteImage
<1> HIDE DEF f, near
<1> QED BY <1>1, <1>3, <1>4 DEF Finite

LEMMA FiniteBoth ==
  ASSUME NEW S, NEW T, Finite(S), Finite(T)
  PROVE  Finite(S \cup T)
  BY FS_Union DEF Finite

\* What stands is part of what is active, and all of it if every row stands.
LEMMA StandingActive ==
  ASSUME NEW t, t.standing \subseteq DOMAIN rows, NEW kind
  PROVE  /\ Standing(t, rows, kind) \subseteq Active(kind)
         /\ t.standing = DOMAIN rows => Standing(t, rows, kind) = Active(kind)
  BY DEF Standing, Active

LEMMA SpansGrow ==
  ASSUME NEW S, NEW T, S \subseteq T
  PROVE  Spans(S) \subseteq Spans(T) /\ OfDay(S) \subseteq OfDay(T)
  BY DEF Spans, OfDay

\* A write replaces the row of its request, or adds one; no other row changes.
LEMMA WriteRead ==
  ASSUME Inv, Read, NEW r \in Requests, Write(r)
  PROVE  Read'
<1> DEFINE q == tx[r].req
           id == IF q.kind = "create" THEN Len(rows) + 1 ELSE q.id
           new == IF q.kind = "create" THEN q.row ELSE Updated(tx[r].seen, q.row, rows[id])
           R == IF q.kind = "create" THEN Append(rows, new) ELSE [rows EXCEPT ![id] = new]
<1>1. CASE Answer(r, 409, {}) BY <1>1, AnswerRead
<1>2. CASE /\ Fits(new, DOMAIN rows \ {id}) /\ rows' = R /\ appts' = appts
           /\ tx' = [s \in Requests |->
                       IF s = r THEN Idle ELSE [tx[s] EXCEPT !.standing = @ \ {id}]]
  <2>1. rows \in Seq(Row) /\ Sound(tx[r], rows) BY DEF Inv
  <2>2. q \in Inputs /\ tx[r].pc = "write" BY <2>1 DEF Sound, Suits, Write
  <2>3. q.kind = "create" \/ (q.kind = "update" /\ q.id \in DOMAIN rows)
    BY <2>1, <2>2 DEF Sound, Suits
  <2>4. Wanted(q.row) /\ q.row \in Row BY <2>2, <2>3, InputAssumption DEF Wanted
  <2>5. q.kind = "update" => rows[q.id].kind = q.row.kind /\ Wanted(rows[q.id])
    BY <2>2, <2>3 DEF Read, Found, RowsWanted
  <2>6. WellFormed(new) BY <1>2 DEF Fits
  <2>7. /\ Wanted(new)
        /\ id \in DOMAIN rows => new.kind = rows[id].kind
        /\ DOMAIN R = DOMAIN rows \cup {id} /\ R[id] = new
        /\ \A n \in DOMAIN rows \ {id} : R[n] = rows[n]
    <3>1. CASE q.kind = "create" BY <2>1, <2>4, <3>1
    <3>2. CASE q.kind # "create"
      <4>1. id = q.id /\ id \in DOMAIN rows /\ new = Updated(tx[r].seen, q.row, rows[id])
        BY <2>3, <3>2
      <4>2. rows[id] \in Row /\ Wanted(rows[id]) /\ rows[id].kind = q.row.kind
        BY <2>1, <2>3, <2>5, <3>2, <4>1
      <4>3. new \in Row BY <2>4, <4>1, <4>2, UpdatedRow
      <4>4. R = [rows EXCEPT ![id] = new] BY <3>2
      <4>5. /\ new.kind = rows[id].kind
            /\ new.off \in {q.row.off, rows[id].off}
            /\ new.start \in {q.row.start, rows[id].start}
            /\ new.end \in {q.row.end, rows[id].end}
        BY <2>4, <4>1, <4>2 DEF Updated, Row
      <4> HIDE DEF new, R, id
      <4>6. Wanted(new) BY <2>4, <2>6, <4>2, <4>3, <4>5 DEF Wanted, WellFormed
      <4> QED BY <2>1, <4>1, <4>3, <4>4, <4>5, <4>6, Replaced
    <3> QED BY <3>1, <3>2
  <2>8. rows' = R BY <1>2
  <2>9. ASSUME NEW s \in Requests, s # r
        PROVE  Found(tx'[s], rows') /\ Reads(tx'[s], rows')
    <3> DEFINE t == tx[s]
               u == tx'[s]
    <3>1. Sound(t, rows) /\ Found(t, rows) /\ Reads(t, rows) BY DEF Inv, Read
    <3>2. u = [t EXCEPT !.standing = @ \ {id}] BY <1>2, <2>9
    <3>3. /\ u.pc = t.pc /\ u.req = t.req /\ u.windows = t.windows /\ u.taken = t.taken
          /\ u.standing = t.standing \ {id} /\ t.standing \subseteq DOMAIN rows
      BY <3>1, <3>2 DEF Sound, TxShape
    <3> HIDE DEF t, u, R, new, id
    <3>4. Found(u, R)
      <4>1. SUFFICES ASSUME t.pc \in {"check", "write"}, t.req.kind = "update"
                     PROVE  R[t.req.id].kind = t.req.row.kind
        BY <3>3 DEF Found
      <4>2. t.req.id \in DOMAIN rows /\ rows[t.req.id].kind = t.req.row.kind
        BY <3>1, <4>1 DEF Found, Sound, Suits
      <4> QED BY <2>7, <4>2
    <3>5. \A kind : Standing(u, R, kind) \subseteq Standing(t, rows, kind)
      BY <2>7, <3>3 DEF Standing
    <3>6. u.standing # DOMAIN R BY <2>7, <3>3
    <3>7. /\ Spans(Standing(u, R, "break")) \subseteq Spans(Standing(t, rows, "break"))
          /\ OfDay(Standing(u, R, "block")) \subseteq OfDay(Standing(t, rows, "block"))
      BY <3>5, SpansGrow
    <3>8. Reads(u, R) BY <3>1, <3>3, <3>5, <3>6, <3>7 DEF Reads
    <3> QED BY <2>8, <3>4, <3>8 DEF u
  <2>10. Found(tx'[r], rows') /\ Reads(tx'[r], rows')
    BY <1>2, NothingRead DEF Found, Idle
  <2>11. RowsWanted'
    <3> HIDE DEF R, new, id
    <3> QED BY <2>7, <2>8 DEF Read, RowsWanted
  <2> QED BY <1>2, <2>9, <2>10, <2>11 DEF Read
<1> QED BY <1>1, <1>2 DEF Write

\* The work windows are read: those of the exceptions that are active, or of the hours.
LEMMA WorkedRead ==
  ASSUME Inv, Read, NEW r \in Requests, NEW S, Worked(r, S), IsFiniteSet(S),
         \A row \in S : Wanted(row) /\ row.kind # "block",
         \A row \in Standing(tx[r], rows, "exception") : ~row.off,
         tx[r].standing = DOMAIN rows => S = Opening(tx[r], rows)
  PROVE  Read'
<1> DEFINE t == [tx[r] EXCEPT !.windows = Spans(S), !.pc = "breaks"]
<1>1. CASE Answer(r, 422, {}) BY <1>1, AnswerRead
<1>2. CASE Offered(r, {}) BY <1>2, AnswerRead DEF Offered
<1>3. CASE ~InGap(S) /\ Proceed(r, t)
  <2>1. Sound(tx[r], rows) /\ Reads(tx[r], rows) BY DEF Inv, Read
  <2>2. /\ t.pc = "breaks" /\ t.req = tx[r].req /\ t.windows = Spans(S)
        /\ t.taken = tx[r].taken /\ t.standing = tx[r].standing
    BY <2>1 DEF Sound, TxShape
  <2> HIDE DEF t
  <2>3. /\ Finite(t.windows) /\ Finite(t.taken)
        /\ \A x \in t.windows : Day.start <= x.start /\ x.end <= Day.end
    BY <1>3, <2>1, <2>2, SpansWithin DEF Reads
  <2>4. /\ \A row \in Standing(t, rows, "exception") : ~row.off
        /\ t.standing = DOMAIN rows => t.windows = Spans(Opening(t, rows))
    BY <2>2 DEF Opening, Standing
  <2>5. Reads(t, rows) BY <2>2, <2>3, <2>4 DEF Reads
  <2>6. Found(t, rows) BY <2>2 DEF Found
  <2> QED BY <1>3, <2>5, <2>6, ProceedRead
<1> QED BY <1>1, <1>2, <1>3 DEF Worked

LEMMA ReadExceptionsRead ==
  ASSUME Inv, Read, NEW r \in Requests, ReadExceptions(r)
  PROVE  Read'
<1> DEFINE t == [tx[r] EXCEPT !.pc = "hours"]
           found == Active("exception")
<1>1. Sound(tx[r], rows) /\ Reads(tx[r], rows) /\ tx[r].pc = "exceptions"
  BY DEF Inv, Read, ReadExceptions
<1>2. /\ IsFiniteSet(found) /\ \A row \in found : Wanted(row) /\ row.kind # "block"
      /\ Standing(tx[r], rows, "exception") \subseteq found
      /\ tx[r].standing = DOMAIN rows => Standing(tx[r], rows, "exception") = found
  BY <1>1, ActiveOf, StandingActive DEF Inv, Read, Sound, TxShape
<1> HIDE DEF found
<1>3. CASE found = {} /\ Proceed(r, t)
  <2>1. /\ t.pc = "hours" /\ t.windows = tx[r].windows /\ t.taken = tx[r].taken
        /\ t.standing = tx[r].standing
    BY <1>1 DEF Sound, TxShape
  <2> HIDE DEF t
  <2>2. Standing(t, rows, "exception") = {} BY <1>2, <1>3, <2>1 DEF Standing
  <2>3. Reads(t, rows) /\ Found(t, rows) BY <1>1, <2>1, <2>2 DEF Reads, Found
  <2> QED BY <1>3, <2>3, ProceedRead
<1>4. CASE Offered(r, {}) BY <1>4, AnswerRead DEF Offered
<1>5. CASE found # {} /\ (\A row \in found : ~row.off) /\ Worked(r, found)
  <2>1. tx[r].standing = DOMAIN rows => found = Opening(tx[r], rows)
    BY <1>2, <1>5 DEF Opening
  <2> QED BY <1>2, <1>5, <2>1, WorkedRead
<1> QED BY <1>3, <1>4, <1>5 DEF ReadExceptions, found

LEMMA ReadHoursRead ==
  ASSUME Inv, Read, NEW r \in Requests, ReadHours(r)
  PROVE  Read'
<1> DEFINE found == Active("hours")
<1>1. Sound(tx[r], rows) /\ Reads(tx[r], rows) /\ tx[r].pc = "hours"
  BY DEF Inv, Read, ReadHours
<1>2. /\ IsFiniteSet(found) /\ \A row \in found : Wanted(row) /\ row.kind # "block"
      /\ tx[r].standing = DOMAIN rows => Standing(tx[r], rows, "hours") = found
  BY <1>1, ActiveOf, StandingActive DEF Inv, Read, Sound, TxShape
<1>3. Standing(tx[r], rows, "exception") = {} BY <1>1 DEF Reads
<1> HIDE DEF found
<1>4. tx[r].standing = DOMAIN rows => found = Opening(tx[r], rows)
  BY <1>2, <1>3 DEF Opening
<1>5. Worked(r, found) BY DEF ReadHours, found
<1> QED BY <1>2, <1>3, <1>4, <1>5, WorkedRead

LEMMA ReadBreaksRead ==
  ASSUME Inv, Read, NEW r \in Requests, ReadBreaks(r)
  PROVE  Read'
<1> DEFINE found == Active("break")
           t == [tx[r] EXCEPT !.taken = Spans(found), !.pc = "blocks"]
<1>1. CASE Answer(r, 422, {}) BY <1>1, AnswerRead
<1>2. CASE ~InGap(found) /\ Proceed(r, t)
  <2>1. Sound(tx[r], rows) /\ Reads(tx[r], rows) /\ tx[r].pc = "breaks"
    BY DEF Inv, Read, ReadBreaks
  <2>2. /\ IsFiniteSet(found) /\ \A row \in found : Wanted(row) /\ row.kind # "block"
        /\ Standing(tx[r], rows, "break") \subseteq found
    BY <2>1, ActiveOf, StandingActive DEF Inv, Read, Sound, TxShape
  <2>3. /\ t.pc = "blocks" /\ t.req = tx[r].req /\ t.windows = tx[r].windows
        /\ t.taken = Spans(found) /\ t.standing = tx[r].standing
    BY <2>1 DEF Sound, TxShape
  <2> HIDE DEF t, found
  <2>4. Finite(t.taken) BY <1>2, <2>2, <2>3, SpansWithin
  <2>5. \A kind : Standing(t, rows, kind) = Standing(tx[r], rows, kind)
    BY <2>3 DEF Standing
  <2>6. Opening(t, rows) = Opening(tx[r], rows) BY <2>5 DEF Opening
  <2>7. Spans(Standing(t, rows, "break")) \subseteq t.taken BY <2>2, <2>3, <2>5, SpansGrow
  <2>8. Reads(t, rows) BY <2>1, <2>3, <2>4, <2>5, <2>6, <2>7 DEF Reads
  <2>9. Found(t, rows) BY <2>3 DEF Found
  <2> QED BY <1>2, <2>8, <2>9, ProceedRead
<1> QED BY <1>1, <1>2 DEF ReadBreaks

LEMMA ReadBlocksRead ==
  ASSUME Inv, Read, NEW r \in Requests, ReadBlocks(r)
  PROVE  Read'
<1> DEFINE found == Active("block")
           t == [tx[r] EXCEPT !.taken = @ \cup OfDay(found), !.pc = "appointments"]
<1>1. Sound(tx[r], rows) /\ Reads(tx[r], rows) /\ tx[r].pc = "blocks"
  BY DEF Inv, Read, ReadBlocks
<1>2. /\ IsFiniteSet(found) /\ \A row \in found : Wanted(row) /\ row.kind = "block"
      /\ Standing(tx[r], rows, "block") \subseteq found
  BY <1>1, ActiveOf, StandingActive DEF Inv, Read, Sound, TxShape
<1>3. /\ t.pc = "appointments" /\ t.req = tx[r].req /\ t.windows = tx[r].windows
      /\ t.taken = tx[r].taken \cup OfDay(found) /\ t.standing = tx[r].standing
  BY <1>1 DEF Sound, TxShape
<1>4. Answer(r, 422, {}) \/ Proceed(r, t) BY DEF ReadBlocks
<1> HIDE DEF t, found
<1>5. \A x \in found : x.start \in Int /\ x.end \in Int /\ x.start < x.end
  BY <1>2 DEF Wanted, WellFormed, Row
<1>6. Finite(t.taken)
  <2>1. Finite(OfDay(found)) BY <1>2, <1>5, OfDayFinite
  <2>2. Finite(tx[r].taken) BY <1>1 DEF Reads
  <2> QED BY <1>3, <2>1, <2>2, FiniteBoth
<1>7. \A kind : Standing(t, rows, kind) = Standing(tx[r], rows, kind)
  BY <1>3 DEF Standing
<1>8. Opening(t, rows) = Opening(tx[r], rows) BY <1>7 DEF Opening
<1>9. OfDay(Standing(t, rows, "block")) \subseteq t.taken BY <1>2, <1>3, <1>7, SpansGrow
<1>10. Reads(t, rows) BY <1>1, <1>3, <1>6, <1>7, <1>8, <1>9 DEF Reads
<1>11. Found(t, rows) BY <1>3 DEF Found
<1> QED BY <1>4, <1>10, <1>11, AnswerRead, ProceedRead

\* The calculation ends with exactly the starts that can be worked.
LEMMA SlotsHere ==
  ASSUME Read, NEW r \in Requests
  PROVE  Slots(tx[r].windows, TakenNow(r))
           = Startable(Instants(tx[r].windows), Instants(TakenNow(r)), Duration, Step)
<1>1. Finite(tx[r].windows) /\ Finite(tx[r].taken) BY DEF Read, Reads
<1> DEFINE others == appts \ Leaving(tx[r].req)
<1>2. Finite(OfDay(others))
  <2>1. IsFiniteSet(appts) /\ \A x \in appts : x.start \in Int /\ x.end \in Int /\ x.start < x.end
    BY DEF Read, Finite, Interval, Spaces
  <2>2. others \subseteq appts OBVIOUS
  <2> HIDE DEF others
  <2>3. IsFiniteSet(others) BY <2>1, <2>2, FS_Subset
  <2> QED BY <2>1, <2>2, <2>3, OfDayFinite
<1>3. Finite(TakenNow(r)) BY <1>1, <1>2, FiniteBoth DEF TakenNow
<1> DEFINE W == tx[r].windows
           X == TakenNow(r)
<1>4. W \in SUBSET Interval /\ IsFiniteSet(W) /\ X \in SUBSET Interval /\ IsFiniteSet(X)
  BY <1>1, <1>3 DEF Finite
<1> HIDE DEF W, X
<1>5. GenerateSlots(W, SubtractIntervals(W, X), Duration, Step)
        = Startable(Instants(W), Instants(X), Duration, Step)
  BY <1>4, SlotsAreExact
<1> QED BY <1>5 DEF Slots, W, X

LEMMA ReadAppointmentsRead ==
  ASSUME Inv, Read, NEW r \in Requests, ReadAppointments(r)
  PROVE  Read'
<1> DEFINE t == [tx[r] EXCEPT !.pc = "insert"]
           slots == Slots(tx[r].windows, TakenNow(r))
<1>1. CASE \E code : Answer(r, code, slots) BY <1>1, AnswerRead
<1>2. CASE tx[r].req.start \in slots /\ Proceed(r, t)
  <2>1. Sound(tx[r], rows) /\ Reads(tx[r], rows) /\ tx[r].pc = "appointments"
    BY DEF Inv, Read, ReadAppointments
  <2>2. /\ t.pc = "insert" /\ t.req = tx[r].req /\ t.windows = tx[r].windows
        /\ t.taken = tx[r].taken /\ t.standing = tx[r].standing
    BY <2>1 DEF Sound, TxShape
  <2> HIDE DEF t
  <2>3. t.req.start .. t.req.start + Duration - 1
          \subseteq Instants(t.windows) \ Instants(TakenNow(r))
    BY <1>2, <2>2, SlotsHere DEF Startable
  <2>4. Instants(t.taken) \subseteq Instants(TakenNow(r)) BY <2>2 DEF Instants, TakenNow
  <2>5. \A kind : Standing(t, rows, kind) = Standing(tx[r], rows, kind)
    BY <2>2 DEF Standing
  <2>6. Opening(t, rows) = Opening(tx[r], rows) BY <2>5 DEF Opening
  <2>7. Reads(t, rows) BY <2>1, <2>2, <2>3, <2>4, <2>5, <2>6 DEF Reads
  <2>8. Found(t, rows) BY <2>2 DEF Found
  <2> QED BY <1>2, <2>7, <2>8, ProceedRead
<1> QED BY <1>1, <1>2 DEF ReadAppointments, Offered

LEMMA InsertRead ==
  ASSUME Inv, Read, NEW r \in Requests, Insert(r)
  PROVE  Read'
<1> DEFINE new == Taking(tx[r].req.start)
           others == appts \ Leaving(tx[r].req)
<1>1. CASE Answer(r, 409, {}) BY <1>1, AnswerRead
<1>2. CASE /\ appts' = others \cup {new} /\ rows' = rows
           /\ tx' = [tx EXCEPT ![r] = Idle]
  <2>1. Sound(tx[r], rows) /\ tx[r].pc = "insert" BY DEF Inv, Insert
  <2>2. tx[r].req \in Inputs /\ tx[r].req.kind \in {"book", "move"} BY <2>1 DEF Sound, Suits
  <2>3. tx[r].req.start \in Int BY <2>2, OfInput
  <2>4. new \in Interval BY <2>3 DEF Taking, Span, Interval, Spaces
  <2>5. others \subseteq appts OBVIOUS
  <2> HIDE DEF new, others
  <2>6. IsFiniteSet(others) /\ others \in SUBSET Interval BY <2>5, FS_Subset DEF Read, Finite
  <2>7. Finite(appts') BY <1>2, <2>4, <2>6, FS_AddElement DEF Finite
  <2>8. tx' = [s \in Requests |-> IF s = r THEN Idle ELSE tx[s]] BY <1>2 DEF Inv
  <2>9. Found(Idle, rows) /\ Reads(Idle, rows) BY NothingRead DEF Found, Idle
  <2>10. \A s \in Requests : Found(tx'[s], rows') /\ Reads(tx'[s], rows')
    BY <1>2, <2>8, <2>9 DEF Read
  <2> QED BY <1>2, <2>7, <2>10 DEF Read, RowsWanted
<1> QED BY <1>1, <1>2 DEF Insert

LEMMA NextRead == Inv /\ Read /\ [Next]_vars => Read'
<1> SUFFICES ASSUME Inv, Read, [Next]_vars PROVE Read' OBVIOUS
<1>1. CASE UNCHANGED vars BY <1>1 DEF vars, Read, RowsWanted
<1>2. CASE Cancel
  <2>1. Finite(appts') BY <1>2, FS_Subset DEF Cancel, Read, Finite
  <2> QED BY <1>2, <2>1 DEF Cancel, Read, RowsWanted
<1>3. ASSUME NEW r \in Requests,
             \/ Submit(r) \/ Load(r) \/ CheckException(r) \/ Write(r) \/ Find(r)
             \/ ReadExceptions(r) \/ ReadHours(r) \/ ReadBreaks(r) \/ ReadBlocks(r)
             \/ ReadAppointments(r) \/ Insert(r) \/ Fail(r)
      PROVE  Read'
  <2>1. CASE Submit(r) BY <2>1, SubmitRead
  <2>2. CASE Load(r) BY <2>2, LoadRead
  <2>3. CASE CheckException(r) BY <2>3, CheckRead
  <2>4. CASE Write(r) BY <2>4, WriteRead
  <2>5. CASE ReadExceptions(r) BY <2>5, ReadExceptionsRead
  <2>6. CASE ReadHours(r) BY <2>6, ReadHoursRead
  <2>7. CASE ReadBreaks(r) BY <2>7, ReadBreaksRead
  <2>8. CASE ReadBlocks(r) BY <2>8, ReadBlocksRead
  <2>9. CASE ReadAppointments(r) BY <2>9, ReadAppointmentsRead
  <2>10. CASE Insert(r) BY <2>10, InsertRead
  <2>11. CASE Fail(r) BY <2>11, AnswerRead DEF Fail
  <2>12. CASE Find(r) BY <2>12, FindRead
  <2> QED BY <1>3, <2>1, <2>2, <2>3, <2>4, <2>5, <2>6, <2>7, <2>8, <2>9, <2>10, <2>11, <2>12
<1> QED BY <1>1, <1>2, <1>3 DEF Next

\* So much holds in every state.
LEMMA AlwaysRead == Spec => [](Inv /\ Read)
<1>1. Init => Inv /\ Read BY InitInv, InitRead
<1>2. Inv /\ Read /\ [Next]_vars => (Inv /\ Read)' BY NextInv, NextRead
<1> QED BY <1>1, <1>2, PTL DEF Spec

-----------------------------------------------------------------------------
(***************************************************************************)
(* What is offered, and what is booked.                                    *)
(***************************************************************************)

\* What the step that ends a calculation does.
Exact(r) ==
  LET exact == Startable(Instants(tx[r].windows), Instants(TakenNow(r)), Duration, Step)
  IN /\ reply' # None /\ reply'.code \in {200, 409} => reply'.slots = exact
     /\ tx'[r].pc = "insert" => tx[r].req.start \in exact

LEMMA ReadingIsExact ==
  ASSUME Inv, Read, NEW r \in Requests, ReadAppointments(r)
  PROVE  Exact(r)
<1> DEFINE slots == Slots(tx[r].windows, TakenNow(r))
<1>1. slots = Startable(Instants(tx[r].windows), Instants(TakenNow(r)), Duration, Step)
  BY SlotsHere
<1> HIDE DEF slots
<1>2. CASE \E code : Answer(r, code, slots)
  <2>1. PICK code : Answer(r, code, slots) BY <1>2
  <2>2. tx'[r] = Idle /\ reply'.slots = slots BY <2>1 DEF Answer, Inv
  <2> QED BY <1>1, <2>2 DEF Exact, Idle
<1>3. CASE tx[r].req.start \in slots /\ reply' = None
  BY <1>1, <1>3 DEF Exact
<1>4. Offered(r, slots) BY DEF ReadAppointments, slots
<1> QED BY <1>2, <1>3, <1>4 DEF Offered, Proceed

\* A step of one request leaves the others where they are.
LEMMA OthersStay ==
  ASSUME Inv, NEW r \in Requests, NEW s \in Requests \ {r},
         \/ Submit(s) \/ Load(s) \/ CheckException(s) \/ Write(s) \/ Find(s)
         \/ ReadExceptions(s) \/ ReadHours(s) \/ ReadBreaks(s) \/ ReadBlocks(s)
         \/ ReadAppointments(s) \/ Insert(s) \/ Fail(s)
  PROVE  tx'[r].pc = tx[r].pc
<1>1. DOMAIN tx = Requests BY DEF Inv
<1>2. ASSUME NEW t, tx' = [tx EXCEPT ![s] = t] PROVE tx'[r].pc = tx[r].pc
  BY <1>1, <1>2
<1>3. ASSUME NEW t, Proceed(s, t) PROVE tx'[r].pc = tx[r].pc
  BY <1>2, <1>3 DEF Proceed
<1>4. ASSUME NEW code, NEW slots, Answer(s, code, slots) PROVE tx'[r].pc = tx[r].pc
  BY <1>2, <1>4 DEF Answer
<1>5. ASSUME NEW slots, Offered(s, slots) PROVE tx'[r].pc = tx[r].pc
  BY <1>3, <1>4, <1>5 DEF Offered
<1>6. ASSUME NEW S, Worked(s, S) PROVE tx'[r].pc = tx[r].pc
  BY <1>3, <1>4, <1>5, <1>6 DEF Worked
<1>7. CASE Submit(s) BY <1>3, <1>7 DEF Submit
<1>8. CASE Load(s) BY <1>3, <1>4, <1>8 DEF Load
<1>9. CASE CheckException(s) BY <1>3, <1>4, <1>9 DEF CheckException
<1>10. CASE Write(s)
  <2> DEFINE id == IF tx[s].req.kind = "create" THEN Len(rows) + 1 ELSE tx[s].req.id
  <2>1. CASE Answer(s, 409, {}) BY <1>4, <2>1
  <2>2. CASE tx' = [u \in Requests |->
                      IF u = s THEN Idle ELSE [tx[u] EXCEPT !.standing = @ \ {id}]]
    <3>1. tx'[r] = [tx[r] EXCEPT !.standing = @ \ {id}] BY <2>2
    <3> QED BY <3>1 DEF Inv, Sound, TxShape
  <2> QED BY <1>10, <2>1, <2>2 DEF Write
<1>11. CASE ReadExceptions(s) BY <1>3, <1>5, <1>6, <1>11 DEF ReadExceptions
<1>12. CASE ReadHours(s) BY <1>6, <1>12 DEF ReadHours
<1>13. CASE ReadBreaks(s) BY <1>3, <1>4, <1>13 DEF ReadBreaks
<1>14. CASE ReadBlocks(s) BY <1>3, <1>4, <1>14 DEF ReadBlocks
<1>15. CASE ReadAppointments(s) BY <1>5, <1>15 DEF ReadAppointments
<1>16. CASE Insert(s) BY <1>2, <1>4, <1>16 DEF Insert
<1>17. CASE Fail(s) BY <1>4, <1>17 DEF Fail
<1>18. CASE Find(s) BY <1>3, <1>4, <1>18 DEF Find
<1> QED BY <1>7, <1>8, <1>9, <1>10, <1>11, <1>12, <1>13, <1>14, <1>15, <1>16, <1>17, <1>18

\* A calculation ends when it has read the appointments, or fails.
LEMMA StepIsExact ==
  ASSUME Inv, Read, [Next]_vars, NEW r \in Requests,
         tx[r].pc = "appointments", tx'[r].pc # "appointments"
  PROVE  Exact(r)
<1>1. tx' # tx OBVIOUS
<1>2. PICK s \in Requests :
        \/ Submit(s) \/ Load(s) \/ CheckException(s) \/ Write(s) \/ Find(s)
        \/ ReadExceptions(s) \/ ReadHours(s) \/ ReadBreaks(s) \/ ReadBlocks(s)
        \/ ReadAppointments(s) \/ Insert(s) \/ Fail(s)
  BY <1>1 DEF Next, Cancel, vars
<1>3. s = r BY <1>2, OthersStay
<1>4. CASE ReadAppointments(r) BY <1>4, ReadingIsExact
<1>5. CASE Fail(r)
  <2>1. tx'[r] = Idle /\ reply'.code = 500 BY <1>5 DEF Fail, Answer, Inv
  <2> QED BY <2>1 DEF Exact, Idle
<1> QED
  BY <1>2, <1>3, <1>4, <1>5
  DEF Submit, Load, CheckException, Write, Find, ReadExceptions, ReadHours, ReadBreaks,
      ReadBlocks, Insert

\* Whatever was read, the slots that a calculation offers, and the start that it lets a
\* booking take, are exactly those the definition in terms of instants gives: the sorting,
\* merging and subtracting of intervals neither loses an instant nor invents one.
THEOREM OffersAreExact == Spec => OfferIsExact
<1>1. Inv /\ Read /\ [Next]_vars =>
        \A r \in Requests :
          tx[r].pc = "appointments" /\ tx'[r].pc # "appointments" =>
            LET exact == Startable(Instants(tx[r].windows), Instants(TakenNow(r)),
                                   Duration, Step)
            IN /\ reply' # None /\ reply'.code \in {200, 409} => reply'.slots = exact
               /\ tx'[r].pc = "insert" => tx[r].req.start \in exact
  BY StepIsExact DEF Exact
<1> QED BY <1>1, AlwaysRead, PTL DEF Spec, OfferIsExact

\* The interval of a booking or move that is inserted fits the rows that stand.
LEMMA InsertFits ==
  ASSUME Inv, Read, NEW r \in Requests, Insert(r), NEW new \in appts' \ appts
  PROVE  FitsRows(new, tx[r].standing)
<1> DEFINE t == tx[r]
           start == t.req.start
           is(kind) == {rows[n] : n \in {m \in t.standing : rows[m].kind = kind /\ rows[m].active}}
           shut == Spans(is("break")) \cup {Span(x.start, x.end) : x \in is("block")}
           open == IF is("exception") # {} THEN is("exception") ELSE is("hours")
<1>1. Sound(t, rows) /\ Reads(t, rows) /\ t.pc = "insert" BY DEF Inv, Read, Insert
<1>2. t.req \in Inputs /\ t.req.kind \in {"book", "move"} /\ t.standing \subseteq DOMAIN rows
  BY <1>1 DEF Sound, Suits, TxShape
<1>3. start \in Int BY <1>2, OfInput
<1>4. new = Span(start, start + Duration)
  <2>1. appts' \subseteq appts \cup {Taking(start)} BY Zenon DEF Insert, Answer
  <2> QED BY <2>1 DEF Taking
<1>5. Instants({new}) = start .. start + Duration - 1
  BY <1>3, <1>4 DEF Instants, Span
<1>6. \A kind : is(kind) = Standing(t, rows, kind) BY DEF Standing
<1>7. open = Opening(t, rows) BY <1>6 DEF Opening
<1>8. Instants({new}) \subseteq Instants(t.windows) \ Instants(t.taken)
  BY <1>1, <1>5 DEF Reads
<1>9. \A x \in is("block") : x.start \in Int /\ x.end \in Int /\ x.start < x.end
  <2>1. is("block") \subseteq Active("block") BY <1>2, <1>6, StandingActive
  <2>2. \A x \in Active("block") : Wanted(x) /\ x.kind = "block"
    BY ActiveOf DEF Inv, Read
  <2> HIDE DEF is
  <2> QED BY <2>1, <2>2 DEF Wanted, WellFormed, Row
<1> HIDE DEF t, start, is, open
<1>10. ASSUME NEW u \in Instants({new}), NEW x \in shut, u \in x.start .. x.end - 1
       PROVE  FALSE
  <2>1. CASE x \in Spans(is("break"))
    <3>1. x \in t.taken BY <1>1, <1>6, <2>1 DEF Reads
    <3> QED BY <1>8, <1>10, <3>1 DEF Instants
  <2>2. CASE x \in {Span(y.start, y.end) : y \in is("block")}
    <3>1. PICK y \in is("block") : x = Span(y.start, y.end) BY <2>2
    <3>2. x.start = y.start /\ x.end = y.end BY <3>1 DEF Span
    <3>3. PICK w \in t.windows : u \in w.start .. w.end - 1 BY <1>8 DEF Instants
    <3>4. /\ w.start \in Int /\ w.end \in Int
          /\ Day.start <= w.start /\ w.end <= Day.end
      BY <1>1 DEF Reads, Finite, Interval, Spaces
    <3>5. y.start < Day.end /\ y.end > Day.start
      BY <1>5, <1>9, <1>10, <3>2, <3>3, <3>4, DayAssumption
    <3>6. x \in OfDay(is("block")) BY <3>1, <3>5 DEF OfDay
    <3>7. x \in t.taken BY <1>1, <1>6, <3>6 DEF Reads
    <3> QED BY <1>8, <1>10, <3>7 DEF Instants
  <2> QED BY <2>1, <2>2
<1>11. Instants({new}) \cap Instants(shut) = {}
  <2> HIDE DEF shut
  <2> QED BY <1>10 DEF Instants
<1>12. \A row \in is("exception") : ~row.off BY <1>1, <1>6 DEF Reads
<1>13. t.standing = DOMAIN rows => Instants({new}) \subseteq Instants(Spans(open))
  BY <1>1, <1>7, <1>8 DEF Reads
<1> QED BY <1>11, <1>12, <1>13 DEF FitsRows, t, is, shut, open

\* Although the rows are read one kind after the other and none is locked, a booking or a
\* move lies outside every break, blocked slot and day off that has stood since its request
\* arrived, and inside the working hours if nothing was written meanwhile.
THEOREM BookingsHonour == Spec => HonoursWhatStands
<1>1. ASSUME Inv, Read, [Next]_vars, NEW r \in Requests,
             tx[r].pc = "insert", appts' # appts, tx'[r].pc = "idle"
      PROVE  \A new \in appts' \ appts : FitsRows(new, tx[r].standing)
  <2>1. tx' # tx BY <1>1
  <2>2. PICK s \in Requests :
          \/ Submit(s) \/ Load(s) \/ CheckException(s) \/ Write(s) \/ Find(s)
          \/ ReadExceptions(s) \/ ReadHours(s) \/ ReadBreaks(s) \/ ReadBlocks(s)
          \/ ReadAppointments(s) \/ Insert(s) \/ Fail(s)
    BY <1>1, <2>1 DEF Next, Cancel, vars
  <2>3. s = r BY <1>1, <2>2, OthersStay
  <2>4. CASE Insert(r) BY <1>1, <2>4, InsertFits
  <2>5. CASE Fail(r) BY <1>1, <2>5 DEF Fail, Answer
  <2> QED
    BY <1>1, <2>2, <2>3, <2>4, <2>5
    DEF Submit, Load, CheckException, Write, Find, ReadExceptions, ReadHours, ReadBreaks,
        ReadBlocks, ReadAppointments
<1>2. Inv /\ Read /\ [Next]_vars =>
        \A r \in Requests :
          tx[r].pc = "insert" /\ appts' # appts /\ tx'[r].pc = "idle" =>
            \A new \in appts' \ appts : FitsRows(new, tx[r].standing)
  BY <1>1
<1> QED BY <1>2, AlwaysRead, PTL DEF Spec, HonoursWhatStands
=============================================================================
