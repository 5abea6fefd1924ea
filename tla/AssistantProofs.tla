-------------------------- MODULE AssistantProofs --------------------------
(***************************************************************************)
(* Proofs about Assistant, for any number of clients, chats, tokens and    *)
(* appointments.  A step either moves one chat on and leaves the tables    *)
(* alone, or changes the tables and no chat; and what it may do to the     *)
(* appointments is one of three things: nothing, append rows that can be   *)
(* booked, or change one row that is not ended.                            *)
(***************************************************************************)
EXTENDS Assistant, SequenceTheorems, TLAPS

-----------------------------------------------------------------------------
(***************************************************************************)
(* Rows.                                                                   *)
(***************************************************************************)

LEMMA RowType ==
  ASSUME NEW user \in Clients, NEW step \in Step, NEW key \in Keys, NEW note \in Notes
  PROVE  /\ RowOf(user, step, key, note) \in Row
         /\ RowOf(user, step, key, note).client = user
         /\ RowOf(user, step, key, note).key = key
         /\ RowOf(user, step, key, note).print =
              [employee |-> step.employee, service |-> step.service, start |-> step.start,
               note |-> note]
  BY DEF RowOf, NewRow, Row, Step, Prints, Statuses

\* A row ends after it begins.
LEMMA EndsLater ==
  ASSUME NEW row \in Row
  PROVE  End(row) \in Int /\ row.start \in Int /\ row.start < End(row)
<1>1. row.employee \in Employees /\ row.service \in Services /\ row.start \in Times
  BY DEF Row
<1>2. Duration[<<row.employee, row.service>>] \in Nat \ {0}
  BY <1>1, DurationAssumption
<1> QED
  BY <1>1, <1>2, HorizonAssumption DEF End, Times

LEMMA ClashSymmetric ==
  ASSUME NEW a, NEW b
  PROVE  Clash(a, b) <=> Clash(b, a)
  BY DEF Clash, Overlap

\* Rows in order, that far apart in the sequence.
After(rows, d) ==
  \A i, j \in DOMAIN rows : j = i + d => End(rows[i]) <= rows[j].start

LEMMA OneFurther ==
  ASSUME NEW rows \in Seq(Row), InOrder(rows), NEW d \in Nat \ {0}, After(rows, d)
  PROVE  After(rows, d + 1)
<1>1. SUFFICES ASSUME NEW i \in DOMAIN rows, NEW j \in DOMAIN rows, j = i + (d + 1)
               PROVE  End(rows[i]) <= rows[j].start
  BY DEF After
<1>2. DOMAIN rows = 1 .. Len(rows) /\ Len(rows) \in Nat
  OBVIOUS
<1>3. j - 1 \in DOMAIN rows /\ j - 1 = i + d /\ j > 1
  BY <1>1, <1>2
<1>4. End(rows[i]) <= rows[j - 1].start
  BY <1>3 DEF After
<1>5. End(rows[j - 1]) <= rows[j].start
  BY <1>3 DEF InOrder
<1>6. rows[i] \in Row /\ rows[j] \in Row /\ rows[j - 1] \in Row
  BY <1>2, <1>3
<1> QED
  BY <1>4, <1>5, <1>6, EndsLater

\* No two rows of a journey are at the same time.
LEMMA InOrderIsApart ==
  ASSUME NEW rows \in Seq(Row), InOrder(rows), Len(rows) <= MaxSteps,
         NEW i \in DOMAIN rows, NEW j \in DOMAIN rows, i # j
  PROVE  ~Clash(rows[i], rows[j])
<1>1. DOMAIN rows = 1 .. Len(rows) /\ Len(rows) \in Nat
  OBVIOUS
<1>2. ASSUME NEW k \in DOMAIN rows, NEW l \in DOMAIN rows, k < l
      PROVE  End(rows[k]) <= rows[l].start
  <2>1. After(rows, 1)
    BY <1>1 DEF After, InOrder
  <2>2. After(rows, 2)
    BY <2>1, OneFurther
  <2>3. After(rows, 3)
    BY <2>2, OneFurther
  <2>4. After(rows, 4)
    BY <2>3, OneFurther
  <2>5. After(rows, 5)
    BY <2>4, OneFurther
  <2>6. l - k \in {1, 2, 3, 4, 5} /\ l = k + (l - k)
    BY <1>1, <1>2 DEF MaxSteps
  <2>7. After(rows, l - k)
    BY <2>1, <2>2, <2>3, <2>4, <2>5, <2>6
  <2> QED
    BY <2>6, <2>7 DEF After
<1>3. rows[i] \in Row /\ rows[j] \in Row
  BY <1>1
<1>4. End(rows[i]) <= rows[j].start \/ End(rows[j]) <= rows[i].start
  BY <1>1, <1>2
<1> QED
  BY <1>3, <1>4, EndsLater DEF Clash, Overlap

-----------------------------------------------------------------------------
(***************************************************************************)
(* What a step may do to the appointments.                                 *)
(***************************************************************************)

Terminal == {"COMPLETED", "CANCELLED", "NO_SHOW"}

\* One row that has not ended is changed, and gets in nobody's way.
Touched(n, row) ==
  /\ n \in DOMAIN appts /\ row \in Row /\ appts[n].status \notin Terminal
  /\ appts' = [appts EXCEPT ![n] = row]
  /\ row.client = appts[n].client /\ row.key = appts[n].key /\ row.print = appts[n].print
  /\ \A m \in DOMAIN appts \ {n} : Clash(appts[m], row) => Clash(appts[m], appts[n])

\* Rows are added that can be booked, all of them a client's own or all of them a token's.
Grown(rows) ==
  /\ rows \in Seq(Row) /\ Len(rows) \in 1 .. MaxSteps /\ Bookable(rows)
  /\ appts' = appts \o rows
  /\ \/ \A i \in DOMAIN rows : rows[i].key \in OwnKeys
     \/ \E n \in Nonces :
          /\ tokens[n] # None /\ rows = Proposed(tokens[n].user, n)
          /\ tokens[n].action.type \in {"CREATE_BOOKING", "CREATE_JOURNEY"}
          /\ ~Booked(tokens[n].user, n)

Effect == \/ appts' = appts
          \/ \E rows : Grown(rows)
          \/ \E n, row : Touched(n, row)

LEMMA TouchedRows ==
  ASSUME appts \in Seq(Row), NEW n, NEW row, Touched(n, row)
  PROVE  /\ appts' \in Seq(Row) /\ DOMAIN appts' = DOMAIN appts /\ Len(appts') = Len(appts)
         /\ appts'[n] = row
         /\ \A m \in DOMAIN appts \ {n} : appts'[m] = appts[m]
         /\ \A m \in DOMAIN appts : /\ appts'[m].client = appts[m].client
                                    /\ appts'[m].key = appts[m].key
                                    /\ appts'[m].print = appts[m].print
<1>1. /\ n \in DOMAIN appts /\ row \in Row /\ appts' = [appts EXCEPT ![n] = row]
      /\ row.client = appts[n].client /\ row.key = appts[n].key /\ row.print = appts[n].print
  BY DEF Touched
<1>2. /\ appts' \in Seq(Row) /\ DOMAIN appts' = DOMAIN appts /\ Len(appts') = Len(appts)
      /\ appts'[n] = row /\ \A m \in DOMAIN appts \ {n} : appts'[m] = appts[m]
  BY <1>1
<1> QED
  BY <1>1, <1>2

LEMMA GrownRows ==
  ASSUME appts \in Seq(Row), NEW rows, Grown(rows)
  PROVE  /\ rows \in Seq(Row) /\ Len(rows) \in 1 .. MaxSteps /\ DOMAIN rows = 1 .. Len(rows)
         /\ Len(appts) \in Nat /\ DOMAIN appts = 1 .. Len(appts)
         /\ appts' \in Seq(Row) /\ Len(appts') = Len(appts) + Len(rows)
         /\ DOMAIN appts' = 1 .. Len(appts) + Len(rows)
         /\ \A m \in 1 .. Len(appts) : appts'[m] = appts[m]
         /\ \A i \in 1 .. Len(rows) : appts'[Len(appts) + i] = rows[i]
         /\ \A m \in DOMAIN appts' \ DOMAIN appts :
              m - Len(appts) \in 1 .. Len(rows) /\ appts'[m] = rows[m - Len(appts)]
<1>1. rows \in Seq(Row) /\ Len(rows) \in 1 .. MaxSteps /\ appts' = appts \o rows
  BY DEF Grown
<1>2. /\ DOMAIN rows = 1 .. Len(rows) /\ Len(appts) \in Nat /\ DOMAIN appts = 1 .. Len(appts)
      /\ Len(rows) \in Nat
  BY <1>1
<1>3. appts' \in Seq(Row) /\ Len(appts') = Len(appts) + Len(rows)
  <2>1. /\ appts \o rows \in Seq(Row)
        /\ Len(appts \o rows) = Len(appts) + Len(rows)
    BY <1>1, ConcatProperties
  <2> QED
    BY <1>1, <2>1
<1>4. DOMAIN appts' = 1 .. Len(appts) + Len(rows)
  BY <1>2, <1>3
<1>5. \A m \in 1 .. Len(appts) : appts'[m] = appts[m]
  BY <1>1
<1>6. \A i \in 1 .. Len(rows) : appts'[Len(appts) + i] = rows[i]
  BY <1>1, <1>2
<1>7. ASSUME NEW m \in DOMAIN appts' \ DOMAIN appts
      PROVE  m - Len(appts) \in 1 .. Len(rows) /\ appts'[m] = rows[m - Len(appts)]
  <2> DEFINE i == m - Len(appts)
  <2>1. i \in 1 .. Len(rows) /\ m = Len(appts) + i
    BY <1>2, <1>4, <1>7
  <2> QED
    BY <1>6, <2>1
<1> QED
  BY <1>1, <1>2, <1>3, <1>4, <1>5, <1>6, <1>7

\* Appointments are never removed, and keep their client.
LEMMA EffectRows ==
  ASSUME appts \in Seq(Row), Effect
  PROVE  /\ appts' \in Seq(Row) /\ DOMAIN appts \subseteq DOMAIN appts'
         /\ \A m \in DOMAIN appts : appts'[m].client = appts[m].client
<1>1. CASE appts' = appts
  BY <1>1
<1>2. ASSUME NEW rows, Grown(rows)
      PROVE  /\ appts' \in Seq(Row) /\ DOMAIN appts \subseteq DOMAIN appts'
             /\ \A m \in DOMAIN appts : appts'[m].client = appts[m].client
  <2> DEFINE N == Len(appts)
             L == Len(rows)
  <2>1. /\ N \in Nat /\ L \in Nat /\ DOMAIN appts = 1 .. N /\ DOMAIN appts' = 1 .. N + L
        /\ appts' \in Seq(Row) /\ \A m \in 1 .. N : appts'[m] = appts[m]
    BY <1>2, GrownRows DEF MaxSteps
  <2> HIDE DEF N, L
  <2> QED
    BY <2>1
<1>3. ASSUME NEW n, NEW row, Touched(n, row)
      PROVE  /\ appts' \in Seq(Row) /\ DOMAIN appts \subseteq DOMAIN appts'
             /\ \A m \in DOMAIN appts : appts'[m].client = appts[m].client
  BY <1>3, TouchedRows
<1> QED
  BY <1>1, <1>2, <1>3 DEF Effect

LEMMA SensibleStays ==
  ASSUME appts \in Seq(Row), Effect, NEW token, Sensible(token)
  PROVE  LET k == token.action
         IN /\ k.type \in {"CREATE_BOOKING", "WAITLIST"} => Len(k.steps) = 1
            /\ k.type = "CREATE_JOURNEY" => Len(k.steps) \in 2 .. MaxSteps
            /\ k.type \in {"CANCEL", "RESCHEDULE"} =>
                 k.appt \in DOMAIN appts' /\ appts'[k.appt].client = token.user
  BY EffectRows DEF Sensible

-----------------------------------------------------------------------------
(***************************************************************************)
(* Steps that change tables only.                                          *)
(***************************************************************************)

\* The part of the invariant that is about keys.
Ours ==
  \A m \in DOMAIN appts, n \in Nonces, i \in 1 .. MaxSteps :
    appts[m].key = TokenKey(n, i) => tokens[n] # None /\ appts[m].client = tokens[n].user

\* The rows of a token are well-formed, and in the order that the token has them.
LEMMA ProposedRows ==
  ASSUME Consistent, NEW n \in Nonces, tokens[n] # None,
         tokens[n].action.type \in {"CREATE_BOOKING", "CREATE_JOURNEY"}
  PROVE  LET rows == Proposed(tokens[n].user, n)
             steps == tokens[n].action.steps
         IN /\ rows \in Seq(Row) /\ Len(rows) = Len(steps) /\ Len(steps) \in 1 .. MaxSteps
            /\ DOMAIN steps = 1 .. Len(steps) /\ DOMAIN rows = DOMAIN steps
            /\ \A i \in DOMAIN steps :
                 /\ rows[i].key = TokenKey(n, i) /\ rows[i].client = tokens[n].user
                 /\ rows[i].print = [employee |-> steps[i].employee, service |-> steps[i].service,
                                     start |-> steps[i].start, note |-> "SlotBridge AI"]
<1> DEFINE token == tokens[n]
           steps == token.action.steps
           row(i) == RowOf(token.user, steps[i], TokenKey(n, i), "SlotBridge AI")
           rows == Proposed(token.user, n)
<1>1. token \in Token /\ Sensible(token)
  BY DEF Consistent, TypeOK
<1>2. token.user \in Clients /\ token.action \in Proposal
  BY <1>1 DEF Token
<1>3. steps \in Seq(Step)
  BY <1>2 DEF Proposal
<1>4. Len(steps) = 1 \/ Len(steps) \in 2 .. MaxSteps
  BY <1>1 DEF Sensible
<1>5. rows = [i \in DOMAIN steps |-> row(i)]
  BY DEF Proposed
<1> HIDE DEF steps, rows
<1>6. Len(steps) \in 1 .. MaxSteps /\ DOMAIN steps = 1 .. Len(steps)
  BY <1>3, <1>4 DEF MaxSteps
<1>7. "SlotBridge AI" \in Notes
  BY DEF Notes
<1>8. ASSUME NEW i \in DOMAIN steps
      PROVE  /\ row(i) \in Row /\ row(i).key = TokenKey(n, i) /\ row(i).client = token.user
             /\ row(i).print = [employee |-> steps[i].employee, service |-> steps[i].service,
                                start |-> steps[i].start, note |-> "SlotBridge AI"]
  <2>1. steps[i] \in Step
    BY <1>3, <1>6
  <2>2. i \in 1 .. MaxSteps
    <3> DEFINE len == Len(steps)
    <3>1. i \in 1 .. len /\ len \in 1 .. MaxSteps
      BY <1>6
    <3> HIDE DEF len
    <3> QED
      BY <3>1 DEF MaxSteps
  <2>3. TokenKey(n, i) \in Keys
    BY <2>2, KeyAssumption
  <2> DEFINE step == steps[i]
             key == TokenKey(n, i)
             user == token.user
             note == "SlotBridge AI"
  <2>4. user \in Clients /\ step \in Step /\ key \in Keys /\ note \in Notes
    BY <1>2, <1>7, <2>1, <2>3
  <2>5. row(i) = RowOf(user, step, key, note)
    OBVIOUS
  <2> HIDE DEF step, key, user, note, row
  <2>6. /\ row(i) \in Row /\ row(i).key = key /\ row(i).client = user
        /\ row(i).print = [employee |-> step.employee, service |-> step.service,
                           start |-> step.start, note |-> note]
    BY <2>4, <2>5, RowType
  <2> QED
    BY <2>6 DEF step, key, user, note
<1> HIDE DEF row
<1>9. \A i \in DOMAIN steps : rows[i] = row(i)
  BY <1>5
<1>10. rows \in Seq(Row) /\ Len(rows) = Len(steps) /\ DOMAIN rows = DOMAIN steps
  <2> DEFINE len == Len(steps)
  <2>1. len \in Nat
    BY <1>6 DEF MaxSteps
  <2>2. DOMAIN steps = 1 .. len
    BY <1>6
  <2> HIDE DEF len
  <2>3. rows = [i \in 1 .. len |-> row(i)]
    BY <1>5, <2>2
  <2>4. \A i \in 1 .. len : row(i) \in Row
    BY <1>8, <2>2
  <2>5. rows \in Seq(Row) /\ Len(rows) = len /\ DOMAIN rows = 1 .. len
    BY <2>1, <2>3, <2>4
  <2> QED
    BY <2>2, <2>5 DEF len
<1>11. /\ rows \in Seq(Row) /\ Len(rows) = Len(steps) /\ Len(steps) \in 1 .. MaxSteps
       /\ DOMAIN steps = 1 .. Len(steps) /\ DOMAIN rows = DOMAIN steps
       /\ \A i \in DOMAIN steps :
            /\ rows[i].key = TokenKey(n, i) /\ rows[i].client = token.user
            /\ rows[i].print = [employee |-> steps[i].employee, service |-> steps[i].service,
                                start |-> steps[i].start, note |-> "SlotBridge AI"]
  BY <1>6, <1>8, <1>9, <1>10
<1> QED
  BY <1>11 DEF rows, steps

\* A token's key is of one token and one step, and no client's own.
LEMMA KeysApart ==
  ASSUME NEW n \in Nonces, NEW i \in 1 .. MaxSteps
  PROVE  /\ TokenKey(n, i) \notin OwnKeys
         /\ \A m \in Nonces, j \in 1 .. MaxSteps : TokenKey(m, j) = TokenKey(n, i) => m = n /\ j = i
  BY KeyAssumption

LEMMA OursStays ==
  ASSUME Consistent, Effect, tokens' = tokens
  PROVE  Ours'
<1>1. appts \in Seq(Row) /\ Ours
  BY DEF Consistent, TypeOK, Ours
<1>2. CASE appts' = appts
  BY <1>1, <1>2 DEF Ours
<1>3. ASSUME NEW k, NEW row, Touched(k, row)
      PROVE  Ours'
  BY <1>1, <1>3, TouchedRows DEF Ours
<1>4. ASSUME NEW rows, Grown(rows)
      PROVE  Ours'
  <2>1. SUFFICES ASSUME NEW m \in DOMAIN appts', NEW n \in Nonces, NEW i \in 1 .. MaxSteps,
                        appts'[m].key = TokenKey(n, i)
                 PROVE  tokens[n] # None /\ appts'[m].client = tokens[n].user
    BY DEF Ours
  <2>2. CASE m \in DOMAIN appts
    <3>1. appts'[m] = appts[m]
      BY <1>1, <1>4, <2>2, GrownRows
    <3> QED
      BY <1>1, <2>1, <2>2, <3>1 DEF Ours
  <2>3. CASE m \notin DOMAIN appts
    <3> DEFINE j == m - Len(appts)
    <3>1. j \in DOMAIN rows /\ appts'[m] = rows[j]
      BY <1>1, <1>4, <2>3, GrownRows
    <3>2. rows[j].key \notin OwnKeys
      BY <2>1, <3>1, KeysApart
    <3>3. PICK o \in Nonces :
            /\ tokens[o] # None /\ rows = Proposed(tokens[o].user, o)
            /\ tokens[o].action.type \in {"CREATE_BOOKING", "CREATE_JOURNEY"}
      BY <1>4, <3>1, <3>2 DEF Grown
    <3>4. /\ rows[j].key = TokenKey(o, j) /\ rows[j].client = tokens[o].user
          /\ j \in 1 .. MaxSteps
      <4>1. rows[j].key = TokenKey(o, j) /\ rows[j].client = tokens[o].user
        BY <3>1, <3>3, ProposedRows
      <4>2. DOMAIN rows = 1 .. Len(rows) /\ Len(rows) \in 1 .. MaxSteps
        BY <1>1, <1>4, GrownRows
      <4> QED
        BY <3>1, <4>1, <4>2 DEF MaxSteps
    <3>5. o = n
      BY <2>1, <3>1, <3>4, KeysApart
    <3> QED
      BY <3>1, <3>3, <3>4, <3>5
  <2> QED
    BY <2>2, <2>3
<1> QED
  BY <1>2, <1>3, <1>4 DEF Effect

\* What a chat has prepared and a token proposes makes sense whatever happens meanwhile.
LEMMA TableStep ==
  ASSUME Consistent, Effect, UNCHANGED <<tokens, settings, tx>>, now' \in Times,
         waitlist' \in Seq(WaitlistEntry),
         reply' \in [to : Clients, code : Codes, confirmed : Nonces \cup {None}] \cup {None}
  PROVE  Consistent'
<1>1. TypeOK'
  BY EffectRows DEF Consistent, TypeOK
<1>2. ASSUME NEW token, Sensible(token)
      PROVE  Sensible(token)'
  BY <1>2, SensibleStays DEF Consistent, TypeOK, Sensible
<1>3. \A r \in Requests : TxOK(r)'
  <2>1. \A r \in Requests : tx[r].token # None => Sensible(tx[r].token)'
    BY <1>2 DEF Consistent, TxOK
  <2> QED
    BY <2>1 DEF Consistent, TxOK, Sensible
<1>4. \A n \in Nonces : tokens'[n] # None => Sensible(tokens[n])'
  BY <1>2 DEF Consistent
<1>5. Ours'
  BY OursStays
<1> QED
  BY <1>1, <1>3, <1>4, <1>5 DEF Consistent, Ours, Sensible

-----------------------------------------------------------------------------
(***************************************************************************)
(* Steps of a chat.                                                        *)
(***************************************************************************)

\* How often Gemini has been asked: once more for each attempt, in up to two rounds, of which
\* the first is shorter if there is a second.
Patience(t) ==
  /\ t.attempt \in 1 .. 3
  /\ t.model = "primary" =>
       t.calls = t.attempt - 1 /\ (settings.fallback = "other" => t.attempt <= 2)
  /\ t.model = "other" => settings.fallback = "other" /\ t.calls <= t.attempt + 1

Patient == \A r \in Requests : Patience(tx[r])

\* What the chat r may go on with.
Fine(r, t) ==
  /\ t \in Tx /\ Patience(t)
  /\ t.pc # "idle" /\ t.ask \in Asks /\ t.nonce \in Nonces /\ tokens[t.nonce] = None
  /\ t.pc = "execute" => t.call \in Calls
  /\ t.token # None => t.token.user = t.ask.user /\ Sensible(t.token)
  /\ \A s \in Requests \ {r} : tx[s].nonce # t.nonce

\* What the chat r may be answered with.
Prepared(r, token) ==
  token = None \/ (token \in Token /\ token.user = tx[r].ask.user /\ Sensible(token))

LEMMA IdleIsFine == Idle \in Tx /\ Patience(Idle) /\ Idle.nonce = None /\ Idle.token = None
                    /\ Idle.pc = "idle"
  BY DEF Idle, Tx, Patience, MaxCalls

LEMMA ProceedStep ==
  ASSUME Consistent, Patient, NEW r \in Requests, NEW t, Fine(r, t), Proceed(r, t)
  PROVE  Consistent' /\ Patient'
<1>1. /\ t \in Tx /\ tx' = [tx EXCEPT ![r] = t] /\ reply' = None
      /\ UNCHANGED <<appts, waitlist, tokens, settings, now>>
  BY DEF Proceed, Fine, tables
<1>2. \A s \in Requests : tx'[s] = IF s = r THEN t ELSE tx[s]
  BY <1>1 DEF Consistent, TypeOK
<1>3. TypeOK'
  BY <1>1 DEF Consistent, TypeOK
<1>4. t.nonce # None
  BY AbsenceAssumption DEF Fine
<1>5. ASSUME NEW s \in Requests
      PROVE  TxOK(s)'
  <2>1. CASE s = r
    BY <1>1, <1>2, <2>1 DEF Fine, TxOK, Sensible
  <2>2. CASE s # r
    <3>1. TxOK(s) /\ tx'[s] = tx[s] /\ t.nonce # tx[s].nonce
      BY <1>2, <2>2 DEF Consistent, Fine
    <3>2. \A u \in Requests \ {s} : tx[s].nonce # None => tx'[u].nonce # tx[s].nonce
      BY <1>2, <3>1 DEF TxOK
    <3> QED
      BY <1>1, <3>1, <3>2 DEF TxOK, Sensible
  <2> QED
    BY <2>1, <2>2
<1>6. Patient'
  BY <1>1, <1>2 DEF Patient, Patience, Fine
<1> QED
  BY <1>1, <1>3, <1>5, <1>6 DEF Consistent, Sensible

LEMMA AnswerStep ==
  ASSUME Consistent, Patient, NEW r \in Requests, tx[r].pc # "idle",
         NEW code \in Codes, NEW token, Prepared(r, token), Answer(r, code, token)
  PROVE  Consistent' /\ Patient'
<1> DEFINE n == tx[r].nonce
<1>1. /\ tx' = [tx EXCEPT ![r] = Idle] /\ UNCHANGED <<appts, waitlist, settings, now>>
      /\ reply' = [to |-> tx[r].ask.user, code |-> code, confirmed |-> None]
      /\ tokens' = IF token = None THEN tokens ELSE [tokens EXCEPT ![n] = token]
  BY DEF Answer, tables
<1>2. /\ tx[r].ask \in ChatRequest /\ tx[r].ask.user \in Clients
      /\ n \in Nonces /\ n # None /\ tokens[n] = None
      /\ \A s \in Requests \ {r} : tx[s].nonce # n
  <2>1. TxOK(r)
    BY DEF Consistent
  <2>2. tx[r].ask \in Asks /\ n \in Nonces /\ tokens[n] = None
    BY <2>1 DEF TxOK
  <2>3. n # None
    BY <2>2, AbsenceAssumption
  <2> QED
    BY <2>1, <2>2, <2>3, InputAssumption DEF TxOK, ChatRequest
<1>3. /\ tokens' \in [Nonces -> Token \cup {None}]
      /\ \A m \in Nonces : tokens'[m] = tokens[m] \/ (m = n /\ tokens'[m] = token)
      /\ \A m \in Nonces : tokens[m] # None => tokens'[m] = tokens[m]
  BY <1>1, <1>2 DEF Consistent, TypeOK, Prepared
<1>4. \A s \in Requests : tx'[s] = IF s = r THEN Idle ELSE tx[s]
  BY <1>1 DEF Consistent, TypeOK
<1>5. TypeOK'
  <2>1. reply' \in [to : Clients, code : Codes, confirmed : Nonces \cup {None}] \cup {None}
    BY <1>1, <1>2
  <2>2. tx' \in [Requests -> Tx]
    BY <1>1, IdleIsFine DEF Consistent, TypeOK
  <2> QED
    BY <1>1, <1>3, <2>1, <2>2 DEF Consistent, TypeOK
<1>6. ASSUME NEW s \in Requests
      PROVE  TxOK(s)'
  <2>1. CASE s = r
    BY <1>4, <2>1, IdleIsFine DEF TxOK
  <2>2. CASE s # r
    <3>1. TxOK(s) /\ tx'[s] = tx[s] /\ tx[s].nonce # n
      BY <1>2, <1>4, <2>2 DEF Consistent
    <3>2. \A u \in Requests \ {s} : tx[s].nonce # None => tx'[u].nonce # tx[s].nonce
      BY <1>4, <3>1, IdleIsFine DEF TxOK
    <3>3. tx[s].pc # "idle" => tx[s].nonce \in Nonces /\ tokens'[tx[s].nonce] = None
      BY <1>3, <3>1 DEF TxOK
    <3> QED
      BY <1>1, <3>1, <3>2, <3>3 DEF TxOK, Sensible
  <2> QED
    BY <2>1, <2>2
<1>7. \A m \in Nonces : tokens'[m] # None => Sensible(tokens'[m])
  BY <1>3 DEF Consistent, Prepared
<1>8. Ours'
  <2>1. SUFFICES ASSUME NEW m \in DOMAIN appts, NEW o \in Nonces, NEW i \in 1 .. MaxSteps,
                        appts[m].key = TokenKey(o, i)
                 PROVE  tokens'[o] # None /\ appts[m].client = tokens'[o].user
    BY <1>1 DEF Ours
  <2>2. tokens[o] # None /\ appts[m].client = tokens[o].user
    BY <2>1 DEF Consistent
  <2> QED
    BY <1>3, <2>2
<1>9. Patient'
  BY <1>1, <1>4, IdleIsFine DEF Patient, Patience
<1> QED
  BY <1>1, <1>5, <1>6, <1>7, <1>8, <1>9 DEF Consistent, Sensible, Ours

LEMMA Before ==
  ASSUME Consistent, Patient, NEW r \in Requests, tx[r].pc # "idle"
  PROVE  /\ tx[r] \in Tx /\ Fine(r, tx[r])
         /\ tx[r].ask \in ChatRequest /\ tx[r].ask.user \in Clients
         /\ Prepared(r, None) /\ Prepared(r, tx[r].token)
<1>1. tx[r] \in Tx /\ TxOK(r) /\ Patience(tx[r])
  BY DEF Consistent, TypeOK, Patient
<1>2. tx[r].ask \in Asks /\ tx[r].nonce \in Nonces /\ tx[r].nonce # None
  BY <1>1, AbsenceAssumption DEF TxOK
<1>3. Fine(r, tx[r])
  BY <1>1, <1>2 DEF Fine, TxOK
<1>4. tx[r].ask \in ChatRequest /\ tx[r].ask.user \in Clients
  BY <1>2, InputAssumption DEF ChatRequest
<1>5. tx[r].token \in Token \cup {None}
  BY <1>1 DEF Tx
<1> QED
  BY <1>1, <1>3, <1>4, <1>5 DEF Prepared, TxOK

LEMMA MovesOn ==
  ASSUME Consistent, Patient, NEW r \in Requests, tx[r].pc # "idle",
         NEW t \in Tx, Patience(t), t.pc # "idle", t.ask = tx[r].ask, t.nonce = tx[r].nonce,
         t.pc = "execute" => t.call \in Calls, Prepared(r, t.token)
  PROVE  Fine(r, t)
  BY Before DEF Fine, Prepared

LEMMA Encoded ==
  ASSUME Consistent, NEW user \in Clients, NEW action \in Proposal
  PROVE  /\ EncodeAction(user, action) \in Token
         /\ EncodeAction(user, action).user = user
         /\ EncodeAction(user, action).action = action
<1>1. now + Lifetime \in Nat
  BY BoundAssumption, HorizonAssumption DEF Consistent, TypeOK, Times
<1> QED
  BY <1>1 DEF EncodeAction, Token

\* A proposal to book or to wait, and one to change an appointment.
LEMMA ProposesSteps ==
  ASSUME Consistent, NEW user \in Clients, NEW steps \in Seq(Step),
         NEW type \in {"CREATE_BOOKING", "WAITLIST", "CREATE_JOURNEY"},
         IF type = "CREATE_JOURNEY" THEN Len(steps) \in 2 .. MaxSteps ELSE Len(steps) = 1
  PROVE  LET token == EncodeAction(user, Propose(type, steps))
         IN token \in Token /\ token.user = user /\ Sensible(token)
<1> DEFINE action == Propose(type, steps)
<1>1. action \in Proposal /\ action.type = type /\ action.steps = steps
  BY DEF Propose, Proposal
<1> HIDE DEF action
<1>2. /\ EncodeAction(user, action) \in Token /\ EncodeAction(user, action).user = user
      /\ EncodeAction(user, action).action = action
  BY <1>1, Encoded
<1>3. Sensible(EncodeAction(user, action))
  BY <1>1, <1>2 DEF Sensible
<1> QED
  BY <1>2, <1>3 DEF action

LEMMA ProposesChange ==
  ASSUME Consistent, NEW n \in DOMAIN appts, NEW type \in {"CANCEL", "RESCHEDULE"}, NEW start,
         IF type = "CANCEL" THEN start = None ELSE start \in Times
  PROVE  LET token == EncodeAction(appts[n].client, Change(type, n, start))
         IN token \in Token /\ token.user = appts[n].client /\ Sensible(token)
<1> DEFINE action == Change(type, n, start)
           user == appts[n].client
<1>1. appts \in Seq(Row) /\ appts[n] \in Row /\ n \in Nat
  BY DEF Consistent, TypeOK
<1>2. user \in Clients
  BY <1>1 DEF Row
<1>3. action \in Proposal /\ action.type = type /\ action.appt = n
  BY <1>1 DEF Change, Proposal
<1> HIDE DEF action, user
<1>4. /\ EncodeAction(user, action) \in Token /\ EncodeAction(user, action).user = user
      /\ EncodeAction(user, action).action = action
  BY <1>2, <1>3, Encoded
<1>5. Sensible(EncodeAction(user, action))
  BY <1>3, <1>4 DEF Sensible, user
<1> QED
  BY <1>4, <1>5 DEF action, user

LEMMA AskStep ==
  ASSUME Consistent, Patient, NEW r \in Requests, Ask(r)
  PROVE  Consistent' /\ Patient'
<1>1. PICK ask \in Asks, n \in Nonces :
        Fresh(n) /\ Proceed(r, [Idle EXCEPT !.pc = "received", !.ask = ask, !.nonce = n])
  BY DEF Ask
<1> DEFINE t == [Idle EXCEPT !.pc = "received", !.ask = ask, !.nonce = n]
<1>2. ask \in ChatRequest
  BY InputAssumption
<1>3. /\ t \in Tx /\ Patience(t) /\ t.pc = "received" /\ t.ask = ask /\ t.nonce = n
      /\ t.token = None
  <2>1. /\ Idle \in Tx /\ Patience(Idle) /\ Idle.token = None
    BY IdleIsFine
  <2>2. /\ t \in Tx /\ t.pc = "received" /\ t.ask = ask /\ t.nonce = n
        /\ t.token = None /\ t.model = Idle.model /\ t.attempt = Idle.attempt
        /\ t.calls = Idle.calls
    BY <1>2, <2>1 DEF Tx
  <2> QED
    BY <2>1, <2>2 DEF Patience
<1> HIDE DEF t
<1>4. Fine(r, t)
  BY <1>1, <1>3 DEF Fine, Fresh
<1> QED
  BY <1>1, <1>4, ProceedStep DEF t

LEMMA ChatStep ==
  ASSUME Consistent, Patient, NEW r \in Requests, Chat(r)
  PROVE  Consistent' /\ Patient'
<1>1. tx[r].pc = "received"
  BY DEF Chat
<1>2. /\ tx[r] \in Tx /\ Fine(r, tx[r]) /\ tx[r].ask.user \in Clients
      /\ Prepared(r, None) /\ Prepared(r, tx[r].token)
  BY <1>1, Before
<1>3. ASSUME NEW code \in Codes, Answer(r, code, None)
      PROVE  Consistent' /\ Patient'
  BY <1>1, <1>2, <1>3, AnswerStep
<1>4. ASSUME NEW steps \in Journeys,
             Answer(r, 200, EncodeAction(tx[r].ask.user, Propose("CREATE_JOURNEY", steps)))
      PROVE  Consistent' /\ Patient'
  <2>1. steps \in Seq(Step) /\ Len(steps) \in 2 .. MaxSteps
    BY InputAssumption
  <2>2. Prepared(r, EncodeAction(tx[r].ask.user, Propose("CREATE_JOURNEY", steps)))
    BY <1>2, <2>1, ProposesSteps DEF Prepared
  <2> QED
    BY <1>1, <1>4, <2>2, AnswerStep DEF Codes
<1>5. ASSUME Proceed(r, [tx[r] EXCEPT !.pc = "first"])
      PROVE  Consistent' /\ Patient'
  <2> DEFINE t == [tx[r] EXCEPT !.pc = "first"]
  <2>1. /\ t \in Tx /\ t.pc = "first" /\ t.ask = tx[r].ask /\ t.nonce = tx[r].nonce
        /\ t.token = tx[r].token /\ t.model = tx[r].model /\ t.attempt = tx[r].attempt
        /\ t.calls = tx[r].calls
    BY <1>2 DEF Tx
  <2> HIDE DEF t
  <2>2. Patience(t)
    BY <1>2, <2>1 DEF Fine, Patience
  <2>3. Fine(r, t)
    BY <1>1, <1>2, <2>1, <2>2, MovesOn
  <2> QED
    BY <1>5, <2>3, ProceedStep DEF t
<1>6. {200, 404, 409, 503} \subseteq Codes
  BY DEF Codes
<1> QED
  BY <1>3, <1>4, <1>5, <1>6 DEF Chat

LEMMA GiveUpStep ==
  ASSUME Consistent, Patient, NEW r \in Requests, GiveUp(r)
  PROVE  Consistent' /\ Patient'
<1>1. tx[r].pc # "idle" /\ {200, 503} \subseteq Codes
  BY DEF GiveUp, Codes
<1> QED
  BY <1>1, Before, AnswerStep DEF GiveUp

\* However Gemini fails, the attempts stay few.
LEMMA StruggleStep ==
  ASSUME Consistent, Patient, NEW r \in Requests, Struggle(r)
  PROVE  Consistent' /\ Patient'
<1> DEFINE t == [tx[r] EXCEPT !.calls = IF @ < MaxCalls THEN @ + 1 ELSE @]
<1>1. tx[r].pc \in {"first", "second"}
  BY DEF Struggle
<1>2. /\ tx[r] \in Tx /\ Fine(r, tx[r]) /\ Patience(tx[r]) /\ Prepared(r, tx[r].token)
      /\ settings.fallback \in {"primary", "other"}
  <2>1. settings.fallback \in {"primary", "other"}
    BY DEF Consistent, TypeOK, Settings
  <2> QED
    BY <1>1, <2>1, Before DEF Fine
<1>3. /\ tx[r].calls \in 0 .. MaxCalls /\ tx[r].calls <= 4 /\ tx[r].attempt \in Nat
      /\ tx[r].model \in {"primary", "other"}
  BY <1>2 DEF Tx, Patience
<1>4. /\ t \in Tx /\ t.pc = tx[r].pc /\ t.ask = tx[r].ask /\ t.nonce = tx[r].nonce
      /\ t.token = tx[r].token /\ t.model = tx[r].model /\ t.attempt = tx[r].attempt
      /\ t.calls = tx[r].calls + 1
  BY <1>2, <1>3 DEF Tx, MaxCalls
<1> HIDE DEF t
<1>5. PICK trouble \in {"timeout", "network", "rate_limit", "upstream"} :
        \/ /\ MayFallBack(trouble, t.model)
           /\ Proceed(r, [t EXCEPT !.model = settings.fallback, !.attempt = 1])
        \/ /\ ~MayFallBack(trouble, t.model) /\ t.attempt < RetryLimit(trouble)
           /\ Proceed(r, [t EXCEPT !.attempt = @ + 1])
        \/ GiveUp(r)
  BY DEF Struggle, t
<1>6. CASE /\ MayFallBack(trouble, t.model)
           /\ Proceed(r, [t EXCEPT !.model = settings.fallback, !.attempt = 1])
  <2> DEFINE u == [t EXCEPT !.model = settings.fallback, !.attempt = 1]
  <2>1. /\ u \in Tx /\ u.pc = t.pc /\ u.ask = t.ask /\ u.nonce = t.nonce /\ u.token = t.token
        /\ u.model = settings.fallback /\ u.attempt = 1 /\ u.calls = t.calls
    BY <1>2, <1>4 DEF Tx
  <2> HIDE DEF u
  <2>2. settings.fallback = "other" /\ tx[r].model = "primary"
    BY <1>2, <1>4, <1>6 DEF MayFallBack
  <2>3. Patience(u)
    BY <1>2, <1>3, <1>4, <2>1, <2>2 DEF Patience
  <2>4. Fine(r, u)
    BY <1>1, <1>2, <1>4, <2>1, <2>3, MovesOn
  <2> QED
    BY <1>6, <2>4, ProceedStep DEF u
<1>7. CASE /\ ~MayFallBack(trouble, t.model) /\ t.attempt < RetryLimit(trouble)
           /\ Proceed(r, [t EXCEPT !.attempt = @ + 1])
  <2> DEFINE u == [t EXCEPT !.attempt = @ + 1]
  <2>1. /\ u \in Tx /\ u.pc = t.pc /\ u.ask = t.ask /\ u.nonce = t.nonce /\ u.token = t.token
        /\ u.model = t.model /\ u.attempt = t.attempt + 1 /\ u.calls = t.calls
    BY <1>3, <1>4 DEF Tx
  <2> HIDE DEF u
  <2>2. tx[r].attempt < 3 /\ (trouble # "rate_limit" => tx[r].attempt < 2)
    BY <1>3, <1>4, <1>7 DEF RetryLimit
  <2>3. trouble = "rate_limit" /\ tx[r].model = "primary" => settings.fallback # "other"
    BY <1>4, <1>7 DEF MayFallBack
  <2>4. Patience(u)
    <3>1. u.attempt = tx[r].attempt + 1 /\ u.calls = tx[r].calls + 1 /\ u.model = tx[r].model
      BY <1>4, <2>1
    <3>2. u.attempt \in 1 .. 3
      BY <1>3, <2>2, <3>1, <1>2 DEF Patience
    <3>3. CASE tx[r].model = "primary"
      <4>1. tx[r].calls = tx[r].attempt - 1
        BY <1>2, <3>3 DEF Patience
      <4>2. settings.fallback = "other" => u.attempt <= 2
        BY <1>3, <2>2, <2>3, <3>1, <3>3
      <4> QED
        BY <1>3, <3>1, <3>2, <3>3, <4>1, <4>2 DEF Patience
    <3>4. CASE tx[r].model = "other"
      <4>1. settings.fallback = "other" /\ tx[r].calls <= tx[r].attempt + 1
        BY <1>2, <3>4 DEF Patience
      <4> QED
        BY <1>3, <3>1, <3>2, <3>4, <4>1 DEF Patience
    <3> QED
      BY <1>3, <3>3, <3>4
  <2>5. Fine(r, u)
    BY <1>1, <1>2, <1>4, <2>1, <2>4, MovesOn
  <2> QED
    BY <1>7, <2>5, ProceedStep DEF u
<1>8. CASE GiveUp(r)
  BY <1>8, GiveUpStep
<1> QED
  BY <1>5, <1>6, <1>7, <1>8

LEMMA UnderstandStep ==
  ASSUME Consistent, Patient, NEW r \in Requests, Understand(r)
  PROVE  Consistent' /\ Patient'
<1>1. tx[r].pc # "idle" /\ {200, 422} \subseteq Codes
  <2>1. tx[r].pc \in {"first", "second"}
    BY DEF Understand
  <2> QED
    BY <2>1 DEF Codes
<1>2. ASSUME NEW call \in Calls,
             Proceed(r, [tx[r] EXCEPT !.pc = "execute", !.call = call])
      PROVE  Consistent' /\ Patient'
  <2> DEFINE t == [tx[r] EXCEPT !.pc = "execute", !.call = call]
  <2>1. /\ tx[r] \in Tx /\ Fine(r, tx[r]) /\ Patience(tx[r]) /\ Prepared(r, tx[r].token)
        /\ call \in FunctionCall
    BY <1>1, Before, InputAssumption DEF Fine
  <2>2. /\ t \in Tx /\ t.pc = "execute" /\ t.ask = tx[r].ask /\ t.nonce = tx[r].nonce
        /\ t.call = call /\ t.token = tx[r].token /\ t.model = tx[r].model
        /\ t.attempt = tx[r].attempt /\ t.calls = tx[r].calls
    BY <2>1 DEF Tx
  <2> HIDE DEF t
  <2>3. Patience(t)
    BY <2>1, <2>2 DEF Patience
  <2>4. Fine(r, t)
    BY <1>1, <2>1, <2>2, <2>3, MovesOn
  <2> QED
    BY <1>2, <2>4, ProceedStep DEF t
<1>3. CASE tx[r].pc = "first" /\ Answer(r, 200, None)
  BY <1>1, <1>3, Before, AnswerStep
<1>4. ASSUME Answer(r, 422, None)
      PROVE  Consistent' /\ Patient'
  BY <1>1, <1>4, Before, AnswerStep
<1>5. CASE tx[r].pc = "second" /\ Answer(r, 200, tx[r].token)
  BY <1>1, <1>5, Before, AnswerStep
<1> DEFINE Executes(call) == Proceed(r, [tx[r] EXCEPT !.pc = "execute", !.call = call])
<1>6. \/ tx[r].pc = "first" /\ Answer(r, 200, None)
      \/ \E call \in Calls : Answer(r, 422, None) \/ Executes(call)
      \/ tx[r].pc = "second" /\ Answer(r, 200, tx[r].token)
  BY ZenonT(60) DEF Understand
<1>7. \A call \in Calls : Executes(call) => Consistent' /\ Patient'
  BY <1>2
<1> HIDE DEF Executes
<1> QED
  BY <1>3, <1>4, <1>5, <1>6, <1>7

LEMMA ResultStep ==
  ASSUME Consistent, Patient, NEW r \in Requests, tx[r].pc # "idle",
         NEW token, Prepared(r, token), Result(r, token)
  PROVE  Consistent' /\ Patient'
<1> DEFINE t == [tx[r] EXCEPT !.pc = "second", !.call = None, !.token = token,
                              !.model = "primary", !.attempt = 1, !.calls = 0]
<1>1. tx[r] \in Tx /\ token \in Token \cup {None}
  BY Before DEF Prepared
<1>2. /\ t \in Tx /\ t.pc = "second" /\ t.ask = tx[r].ask /\ t.nonce = tx[r].nonce
      /\ t.token = token /\ t.model = "primary" /\ t.attempt = 1 /\ t.calls = 0
  <2>1. 0 \in 0 .. MaxCalls /\ 1 \in Nat
    BY DEF MaxCalls
  <2> QED
    BY <1>1, <2>1 DEF Tx
<1> HIDE DEF t
<1>3. Fine(r, t)
  BY <1>2, MovesOn DEF Patience
<1> QED
  BY <1>3, ProceedStep DEF Result, t

LEMMA ExecuteStep ==
  ASSUME Consistent, Patient, NEW r \in Requests, ExecuteOther(r) \/ ExecuteChange(r)
  PROVE  Consistent' /\ Patient'
<1> DEFINE t == tx[r]
           user == t.ask.user
<1>1. t.pc = "execute" /\ t.pc # "idle" /\ {404, 409} \subseteq Codes
  BY DEF ExecuteOther, ExecuteChange, Codes
<1>2. /\ user \in Clients /\ Prepared(r, None)
      /\ t.call \in Calls /\ t.call \in FunctionCall
  BY <1>1, Before, InputAssumption DEF Fine
<1>3. ASSUME NEW type \in {"CREATE_BOOKING", "WAITLIST"},
             t.call.name \in {"prepare_booking", "prepare_waitlist"},
             Result(r, EncodeAction(user, Propose(type, <<t.call.step>>)))
      PROVE  Consistent' /\ Patient'
  <2>1. t.call.step \in Step
    BY <1>2, <1>3 DEF FunctionCall
  <2> DEFINE steps == <<t.call.step>>
             token == EncodeAction(user, Propose(type, steps))
  <2>2. steps \in Seq(Step) /\ Len(steps) = 1
    BY <2>1
  <2>3. Result(r, token)
    BY <1>3
  <2> HIDE DEF steps
  <2>4. token \in Token /\ token.user = user /\ Sensible(token)
    BY <1>2, <1>3, <2>2, ProposesSteps
  <2> HIDE DEF token
  <2>5. Prepared(r, token)
    BY <2>4 DEF Prepared
  <2> QED
    BY <1>1, <2>3, <2>5, ResultStep
<1>4. ASSUME NEW n \in Upcoming(user), NEW type \in {"CANCEL", "RESCHEDULE"}, NEW start,
             IF type = "CANCEL" THEN start = None ELSE start \in Times,
             Result(r, EncodeAction(user, Change(type, n, start)))
      PROVE  Consistent' /\ Patient'
  <2>1. n \in DOMAIN appts /\ appts[n].client = user
    BY <1>4 DEF Upcoming
  <2>2. Prepared(r, EncodeAction(user, Change(type, n, start)))
    BY <1>4, <2>1, ProposesChange DEF Prepared
  <2> QED
    BY <1>1, <1>4, <2>2, ResultStep
<1>5. CASE ExecuteOther(r)
  BY <1>1, <1>2, <1>3, <1>5, AnswerStep, ResultStep DEF ExecuteOther
<1>6. CASE ExecuteChange(r)
  <2>1. ASSUME NEW n \in Meant(t.ask),
               Result(r, EncodeAction(user,
                 IF t.call.name = "prepare_cancellation" THEN Change("CANCEL", n, None)
                 ELSE Change("RESCHEDULE", n, t.call.start)))
        PROVE  Consistent' /\ Patient'
    <3>1. n \in Upcoming(user)
      BY DEF Meant
    <3>2. CASE t.call.name = "prepare_cancellation"
      BY <1>4, <2>1, <3>1, <3>2
    <3>3. CASE t.call.name = "prepare_reschedule"
      <4>1. t.call.start \in Times
        BY <1>2, <3>3 DEF FunctionCall
      <4> QED
        BY <1>4, <2>1, <3>1, <3>3, <4>1
    <3> QED
      BY <1>6, <3>2, <3>3 DEF ExecuteChange
  <2> QED
    BY <1>1, <1>2, <1>6, <2>1, AnswerStep DEF ExecuteChange
<1> QED
  BY <1>5, <1>6

LEMMA HandleStep ==
  ASSUME Consistent, Patient, NEW r \in Requests, Handle(r) \/ Fail(r)
  PROVE  Consistent' /\ Patient'
<1>1. CASE Fail(r)
  BY <1>1, Before, AnswerStep DEF Fail, Codes
<1> QED
  BY <1>1, ChatStep, StruggleStep, GiveUpStep, UnderstandStep, ExecuteStep DEF Handle, Reject

-----------------------------------------------------------------------------
(***************************************************************************)
(* Requests of the application, and confirmations.                         *)
(***************************************************************************)

LEMMA ReleasedEntries ==
  ASSUME Consistent, NEW row
  PROVE  /\ Released(waitlist, row) \in Seq(WaitlistEntry)
         /\ Len(Released(waitlist, row)) = Len(waitlist)
<1> DEFINE N == Len(waitlist)
           entry(e) == IF /\ waitlist[e].step = [employee |-> row.employee,
                                                 service |-> row.service, start |-> row.start]
                          /\ waitlist[e].status = "WAITING"
                       THEN [waitlist[e] EXCEPT !.status = "MATCHED"] ELSE waitlist[e]
<1>1. waitlist \in Seq(WaitlistEntry) /\ N \in Nat /\ DOMAIN waitlist = 1 .. N
  BY DEF Consistent, TypeOK
<1>2. ASSUME NEW e \in 1 .. N
      PROVE  entry(e) \in WaitlistEntry
  <2>1. waitlist[e] \in WaitlistEntry
    BY <1>1
  <2> QED
    BY <2>1 DEF WaitlistEntry
<1>3. Released(waitlist, row) = [e \in DOMAIN waitlist |-> entry(e)]
  BY DEF Released
<1> HIDE DEF entry, N
<1>4. Released(waitlist, row) = [e \in 1 .. N |-> entry(e)]
  BY <1>1, <1>3
<1>5. Released(waitlist, row) \in Seq(WaitlistEntry) /\ Len(Released(waitlist, row)) = N
  BY <1>1, <1>2, <1>4
<1> QED
  BY <1>5 DEF N

LEMMA CancelAtTouches ==
  ASSUME Consistent, NEW user, NEW n \in DOMAIN appts, Cancellable(user, appts[n]), CancelAt(n)
  PROVE  /\ Touched(n, [appts[n] EXCEPT !.status = "CANCELLED"])
         /\ waitlist' \in Seq(WaitlistEntry) /\ Len(waitlist') = Len(waitlist)
         /\ appts[n].client = user
<1> DEFINE row == [appts[n] EXCEPT !.status = "CANCELLED"]
<1>1. appts \in Seq(Row) /\ appts[n] \in Row
  BY DEF Consistent, TypeOK
<1>2. /\ row \in Row /\ row.client = appts[n].client /\ row.key = appts[n].key
      /\ row.print = appts[n].print /\ row.status = "CANCELLED"
  BY <1>1 DEF Row, Statuses
<1>3. appts[n].status \notin Terminal
  <2>1. appts[n].status \in Statuses /\ "CANCELLED" \in Allowed[appts[n].status]
    BY <1>1 DEF Row, Cancellable
  <2> QED
    BY <2>1 DEF Allowed, Statuses, Terminal
<1>4. appts' = [appts EXCEPT ![n] = row]
  BY <1>1 DEF CancelAt
<1> HIDE DEF row
<1>5. \A m : ~Clash(appts[m], row)
  BY <1>2 DEF Clash, Occupies, Occupying
<1>6. Touched(n, row)
  BY <1>2, <1>3, <1>4, <1>5 DEF Touched
<1> QED
  BY <1>6, ReleasedEntries DEF CancelAt, Cancellable, row

LEMMA MoveToTouches ==
  ASSUME Consistent, NEW user, NEW n \in DOMAIN appts, NEW start \in Times,
         Movable(user, n, start), Fits(n, start), MoveTo(n, start)
  PROVE  /\ Touched(n, [appts[n] EXCEPT !.start = start])
         /\ waitlist' \in Seq(WaitlistEntry) /\ Len(waitlist') = Len(waitlist)
         /\ appts[n].client = user
<1> DEFINE row == [appts[n] EXCEPT !.start = start]
<1>1. appts \in Seq(Row) /\ appts[n] \in Row
  BY DEF Consistent, TypeOK
<1>2. /\ row \in Row /\ row.client = appts[n].client /\ row.key = appts[n].key
      /\ row.print = appts[n].print
  BY <1>1 DEF Row
<1>3. appts[n].status \notin Terminal
  BY DEF Movable, Terminal
<1>4. appts' = [appts EXCEPT ![n] = row]
  BY <1>1 DEF MoveTo
<1>5. \A m \in DOMAIN appts \ {n} : ~Clash(appts[m], row)
  BY DEF Fits, Moved
<1> HIDE DEF row
<1>6. Touched(n, row)
  BY <1>2, <1>3, <1>4, <1>5 DEF Touched
<1> QED
  BY <1>6, ReleasedEntries DEF MoveTo, Movable, row

LEMMA ChangeStatusTouches ==
  ASSUME Consistent, ChangeStatus
  PROVE  \E n, row : Touched(n, row)
<1>1. PICK n \in DOMAIN appts : \E s \in Allowed[appts[n].status] \cap StaffStatuses :
        appts' = [appts EXCEPT ![n].status = s]
  BY DEF ChangeStatus
<1>2. PICK s \in Allowed[appts[n].status] \cap StaffStatuses :
        appts' = [appts EXCEPT ![n].status = s]
  BY <1>1
<1> DEFINE row == [appts[n] EXCEPT !.status = s]
<1>3. appts \in Seq(Row) /\ appts[n] \in Row /\ appts[n].status \in Statuses
  <2>1. appts \in Seq(Row)
    BY DEF Consistent, TypeOK
  <2>2. appts[n] \in Row
    BY <2>1
  <2> QED
    BY <2>1, <2>2 DEF Row
<1>4. /\ s \in Statuses /\ appts[n].status \notin Terminal
      /\ s \in Occupying => appts[n].status \in Occupying
  BY <1>3 DEF Allowed, Statuses, Terminal, Occupying
<1>5. /\ row \in Row /\ row.client = appts[n].client /\ row.key = appts[n].key
      /\ row.print = appts[n].print /\ row.status = s /\ row.employee = appts[n].employee
      /\ row.service = appts[n].service /\ row.start = appts[n].start
  BY <1>3, <1>4 DEF Row
<1>6. appts' = [appts EXCEPT ![n] = row]
  BY <1>2, <1>3
<1> HIDE DEF row
<1>7. \A m : Clash(appts[m], row) => Clash(appts[m], appts[n])
  BY <1>4, <1>5 DEF Clash, Occupies, Overlap, End
<1>8. Touched(n, row)
  BY <1>4, <1>5, <1>6, <1>7 DEF Touched
<1> QED
  BY <1>8

LEMMA CreateGrows ==
  ASSUME Consistent, NEW user \in Clients, Create(user)
  PROVE  \E rows : Grown(rows)
<1>1. PICK step \in OwnSteps, key \in OwnKeys :
        LET row == RowOf(user, step, key, "own")
        IN Bookable(<<row>>) /\ appts' = Append(appts, row)
  BY DEF Create
<1> DEFINE row == RowOf(user, step, key, "own")
           rows == <<row>>
<1>2. row \in Row /\ row.key = key
  <2> DEFINE note == "own"
  <2>1. step \in Step /\ key \in Keys /\ note \in Notes
    BY InputAssumption DEF Notes
  <2>2. row = RowOf(user, step, key, note)
    OBVIOUS
  <2> HIDE DEF row, note
  <2>3. RowOf(user, step, key, note) \in Row /\ RowOf(user, step, key, note).key = key
    BY <2>1 DEF RowOf, NewRow, Row, Step, Prints, Statuses
  <2> QED
    BY <2>2, <2>3
<1>3. Bookable(rows) /\ appts' = Append(appts, row)
  BY <1>1
<1> HIDE DEF row
<1>4. /\ rows \in Seq(Row) /\ Len(rows) = 1 /\ DOMAIN rows = {1} /\ rows[1] = row
  BY <1>2
<1>5. appts' = appts \o rows
  <2>1. appts \in Seq(Row)
    BY DEF Consistent, TypeOK
  <2> QED
    BY <1>2, <1>3, <2>1, AppendIsConcat
<1> HIDE DEF rows
<1>6. Len(rows) \in 1 .. MaxSteps
  BY <1>4 DEF MaxSteps
<1>7. \A i \in DOMAIN rows : rows[i].key \in OwnKeys
  BY <1>2, <1>4
<1>8. Grown(rows)
  BY <1>3, <1>4, <1>5, <1>6, <1>7 DEF Grown
<1> QED
  BY <1>8

LEMMA ApplicationStep ==
  ASSUME Consistent,
         \/ \E user \in Clients : Create(user) \/ Cancel(user) \/ Reschedule(user)
         \/ ChangeStatus \/ Tick
  PROVE  Consistent' /\ Effect /\ UNCHANGED <<tokens, settings, tx>> /\ reply' = None
<1>1. UNCHANGED <<tokens, settings, tx>> /\ reply' = None /\ now' \in Times
  <2>1. CASE Tick
    BY <2>1, HorizonAssumption DEF Tick, Consistent, TypeOK, Times
  <2>2. CASE ~Tick
    BY <2>2 DEF Create, Cancel, Reschedule, ChangeStatus, Beside, Consistent, TypeOK
  <2> QED
    BY <2>1, <2>2
<1>2. Effect /\ waitlist' \in Seq(WaitlistEntry)
  <2>1. CASE Tick
    BY <2>1 DEF Tick, tables, Effect, Consistent, TypeOK
  <2>2. ASSUME NEW user \in Clients, Create(user)
        PROVE  Effect /\ waitlist' \in Seq(WaitlistEntry)
    BY <2>2, CreateGrows DEF Effect, Create, Consistent, TypeOK
  <2>3. ASSUME NEW user \in Clients, Cancel(user)
        PROVE  Effect /\ waitlist' \in Seq(WaitlistEntry)
    BY <2>3, CancelAtTouches DEF Effect, Cancel
  <2>4. ASSUME NEW user \in Clients, Reschedule(user)
        PROVE  Effect /\ waitlist' \in Seq(WaitlistEntry)
    BY <2>4, MoveToTouches DEF Effect, Reschedule
  <2>5. CASE ChangeStatus
    <3>1. waitlist' \in Seq(WaitlistEntry)
      BY <2>5 DEF ChangeStatus, Consistent, TypeOK
    <3> QED
      BY <2>5, <3>1, ChangeStatusTouches DEF Effect
  <2> QED
    BY <2>1, <2>2, <2>3, <2>4, <2>5
<1>3. Consistent'
  BY <1>1, <1>2, TableStep
<1> QED
  BY <1>1, <1>2, <1>3

\* What a confirmation may do: what the token proposes, or nothing.
LEMMA ConfirmStep ==
  ASSUME Consistent, NEW user \in Clients, NEW n \in Nonces, tokens[n] # None, Confirm(user, n)
  PROVE  LET token == tokens[n]
             k == token.action
         IN /\ Consistent' /\ Effect /\ UNCHANGED <<tokens, settings, tx>>
            /\ reply'.confirmed = n /\ reply'.to = user
            /\ \/ UNCHANGED tables
               \/ /\ token.user = user /\ now <= token.exp /\ reply'.code = 200
                  /\ \/ /\ k.type \in {"CREATE_BOOKING", "CREATE_JOURNEY"}
                        /\ Grown(Proposed(user, n)) /\ waitlist' = waitlist
                     \/ /\ k.type = "CANCEL" /\ Len(waitlist') = Len(waitlist)
                        /\ Touched(k.appt, [appts[k.appt] EXCEPT !.status = "CANCELLED"])
                     \/ /\ k.type = "RESCHEDULE" /\ Len(waitlist') = Len(waitlist)
                        /\ Touched(k.appt, [appts[k.appt] EXCEPT !.start = k.start])
                     \/ /\ k.type = "WAITLIST" /\ appts' = appts
                        /\ Len(waitlist') = Len(waitlist) + 1
<1> DEFINE token == tokens[n]
           k == token.action
           Does == \/ UNCHANGED tables
                   \/ /\ token.user = user /\ now <= token.exp /\ reply'.code = 200
                      /\ \/ /\ k.type \in {"CREATE_BOOKING", "CREATE_JOURNEY"}
                            /\ Grown(Proposed(user, n)) /\ waitlist' = waitlist
                         \/ /\ k.type = "CANCEL" /\ Len(waitlist') = Len(waitlist)
                            /\ Touched(k.appt, [appts[k.appt] EXCEPT !.status = "CANCELLED"])
                         \/ /\ k.type = "RESCHEDULE" /\ Len(waitlist') = Len(waitlist)
                            /\ Touched(k.appt, [appts[k.appt] EXCEPT !.start = k.start])
                         \/ /\ k.type = "WAITLIST" /\ appts' = appts
                            /\ Len(waitlist') = Len(waitlist) + 1
<1>1. /\ token \in Token /\ Sensible(token) /\ k \in Proposal
      /\ appts \in Seq(Row) /\ waitlist \in Seq(WaitlistEntry)
  BY DEF Consistent, TypeOK, Token
<1>2. PICK code \in Codes : Confirmed(user, n, code)
  <2>1. {200, 400, 409, 500} \subseteq Codes
    BY DEF Codes
  <2> QED
    BY <2>1 DEF Confirm, Refused, ConfirmBooking, ConfirmCancel, ConfirmMove, ConfirmWaitlist
<1>3. /\ UNCHANGED <<tokens, settings, now, tx>>
      /\ reply' = [to |-> user, code |-> code, confirmed |-> n]
  BY <1>2 DEF Confirmed
<1>4. /\ reply' \in [to : Clients, code : Codes, confirmed : Nonces \cup {None}] \cup {None}
      /\ now' \in Times /\ reply'.confirmed = n /\ reply'.to = user
  BY <1>3 DEF Consistent, TypeOK
<1> SUFFICES Does /\ Effect /\ waitlist' \in Seq(WaitlistEntry)
  BY <1>3, <1>4, TableStep
<1>5. \A c : Confirmed(user, n, c) => reply'.code = c
  BY DEF Confirmed
<1>6. ASSUME UNCHANGED tables
      PROVE  Does /\ Effect /\ waitlist' \in Seq(WaitlistEntry)
  BY <1>1, <1>6 DEF tables, Effect
<1>7. \A c : Refused(user, n, c) => UNCHANGED tables
  BY DEF Refused
<1>8. ASSUME Decoded(user, n), ConfirmBooking(user, n), ~UNCHANGED tables
      PROVE  Does /\ Effect /\ waitlist' \in Seq(WaitlistEntry)
  <2> DEFINE rows == Proposed(user, n)
  <2>1. /\ ~Booked(user, n) /\ Bookable(rows) /\ appts' = appts \o rows
        /\ k.type \in {"CREATE_BOOKING", "CREATE_JOURNEY"}
        /\ Confirmed(user, n, 200) /\ waitlist' = waitlist
    BY <1>7, <1>8 DEF ConfirmBooking
  <2>2. token.user = user /\ now <= token.exp
    BY <1>8 DEF Decoded
  <2>3. rows \in Seq(Row) /\ Len(rows) \in 1 .. MaxSteps
    BY <2>1, <2>2, ProposedRows
  <2>4. Grown(rows)
    BY <2>1, <2>2, <2>3 DEF Grown
  <2>5. Effect
    BY <2>4 DEF Effect
  <2> QED
    BY <1>1, <1>5, <2>1, <2>2, <2>4, <2>5
<1>9. ASSUME Decoded(user, n), ConfirmCancel(user, n), ~UNCHANGED tables
      PROVE  Does /\ Effect /\ waitlist' \in Seq(WaitlistEntry)
  <2>1. /\ k.type = "CANCEL" /\ Cancellable(user, appts[k.appt]) /\ CancelAt(k.appt)
        /\ Confirmed(user, n, 200) /\ k.appt \in DOMAIN appts
    BY <1>1, <1>7, <1>9 DEF ConfirmCancel, Sensible
  <2>2. token.user = user /\ now <= token.exp
    BY <1>9 DEF Decoded
  <2>3. /\ Touched(k.appt, [appts[k.appt] EXCEPT !.status = "CANCELLED"])
        /\ waitlist' \in Seq(WaitlistEntry) /\ Len(waitlist') = Len(waitlist)
    BY <2>1, CancelAtTouches
  <2>4. Effect
    BY <2>3 DEF Effect
  <2> QED
    BY <1>5, <2>1, <2>2, <2>3, <2>4
<1>10. ASSUME Decoded(user, n), ConfirmMove(user, n), ~UNCHANGED tables
       PROVE  Does /\ Effect /\ waitlist' \in Seq(WaitlistEntry)
  <2>1. /\ k.type = "RESCHEDULE" /\ Movable(user, k.appt, k.start) /\ Fits(k.appt, k.start)
        /\ MoveTo(k.appt, k.start) /\ Confirmed(user, n, 200) /\ k.appt \in DOMAIN appts
    BY <1>1, <1>7, <1>10 DEF ConfirmMove, Sensible
  <2>2. token.user = user /\ now <= token.exp
    BY <1>10 DEF Decoded
  <2>3. k.start \in Times
    BY <1>1, <2>1 DEF Proposal
  <2>4. /\ Touched(k.appt, [appts[k.appt] EXCEPT !.start = k.start])
        /\ waitlist' \in Seq(WaitlistEntry) /\ Len(waitlist') = Len(waitlist)
    BY <2>1, <2>3, MoveToTouches
  <2>5. Effect
    BY <2>4 DEF Effect
  <2> QED
    BY <1>5, <2>1, <2>2, <2>4, <2>5
<1>11. ASSUME Decoded(user, n), ConfirmWaitlist(user, n)
       PROVE  Does /\ Effect /\ waitlist' \in Seq(WaitlistEntry)
  <2> DEFINE entry == [client |-> user, step |-> k.steps[1], status |-> "WAITING"]
  <2>1. /\ k.type = "WAITLIST" /\ waitlist' = Append(waitlist, entry)
        /\ Confirmed(user, n, 200) /\ appts' = appts
    BY <1>11 DEF ConfirmWaitlist
  <2>2. token.user = user /\ now <= token.exp
    BY <1>11 DEF Decoded
  <2>3. entry \in WaitlistEntry
    <3>1. k.steps \in Seq(Step) /\ Len(k.steps) = 1
      BY <1>1, <2>1 DEF Proposal, Sensible
    <3>2. k.steps[1] \in Step
      BY <3>1
    <3> QED
      BY <3>2 DEF WaitlistEntry
  <2> HIDE DEF entry
  <2>4. waitlist' \in Seq(WaitlistEntry) /\ Len(waitlist') = Len(waitlist) + 1
    BY <1>1, <2>1, <2>3
  <2> QED
    BY <1>5, <2>1, <2>2, <2>4 DEF Effect
<1> QED
  BY <1>6, <1>7, <1>8, <1>9, <1>10, <1>11 DEF Confirm

-----------------------------------------------------------------------------
(***************************************************************************)
(* The inductive invariant.                                                *)
(***************************************************************************)

LEMMA Initially == Init => Consistent /\ Patient
<1> SUFFICES ASSUME Init
             PROVE  Consistent /\ Patient
  OBVIOUS
<1>1. /\ appts = <<>> /\ DOMAIN appts = {} /\ waitlist = <<>>
      /\ \A n \in Nonces : tokens[n] = None
      /\ \A r \in Requests : tx[r] = Idle
  BY DEF Init
<1>2. TypeOK
  BY IdleIsFine, HorizonAssumption DEF Init, TypeOK, Times
<1>3. \A r \in Requests : TxOK(r)
  BY <1>1, IdleIsFine DEF TxOK
<1>4. Patient
  BY <1>1, IdleIsFine DEF Patient
<1> QED
  BY <1>1, <1>2, <1>3, <1>4 DEF Consistent

\* A step of a chat leaves the tables alone, and confirms nothing.
LEMMA ChatsChangeNothing ==
  ASSUME NEW r \in Requests, Ask(r) \/ Handle(r) \/ Fail(r)
  PROVE  UNCHANGED tables /\ (reply' = None \/ reply'.confirmed = None)
<1>1. \A t : Proceed(r, t) => UNCHANGED tables /\ reply' = None
  BY DEF Proceed
<1>2. \A code, token : Answer(r, code, token) => UNCHANGED tables /\ reply'.confirmed = None
  BY DEF Answer
<1>3. CASE Ask(r) \/ Fail(r)
  BY <1>1, <1>2, <1>3 DEF Ask, Fail
<1>4. GiveUp(r) => UNCHANGED tables /\ reply'.confirmed = None
  BY <1>2 DEF GiveUp
<1>5. CASE Chat(r)
  BY <1>1, <1>2, <1>5 DEF Chat
<1>6. CASE Struggle(r) \/ Reject(r) \/ Understand(r)
  BY <1>1, <1>2, <1>4, <1>6 DEF Struggle, Reject, Understand
<1>7. CASE ExecuteOther(r) \/ ExecuteChange(r)
  BY <1>1, <1>2, <1>7 DEF ExecuteOther, ExecuteChange, Result
<1> QED
  BY <1>3, <1>5, <1>6, <1>7 DEF Handle

\* Once handed out, a token stays what it is.
LEMMA TokensAreKept ==
  ASSUME Consistent, NEW r \in Requests, Ask(r) \/ Handle(r) \/ Fail(r),
         NEW n \in Nonces, tokens[n] # None
  PROVE  tokens'[n] = tokens[n]
<1>1. \A t : Proceed(r, t) => tokens' = tokens
  BY DEF Proceed
<1>2. tx[r].pc # "idle" => tx[r].nonce # n
  BY DEF Consistent, TxOK
<1>3. tx[r].pc # "idle" => \A code, token : Answer(r, code, token) => tokens'[n] = tokens[n]
  BY <1>2 DEF Answer, Consistent, TypeOK
<1>4. CASE Ask(r)
  BY <1>1, <1>4 DEF Ask
<1>5. CASE Fail(r)
  BY <1>3, <1>5 DEF Fail
<1>6. GiveUp(r) => tokens'[n] = tokens[n]
  <2>1. GiveUp(r) => tx[r].pc # "idle"
    BY DEF GiveUp
  <2> QED
    BY <1>3, <2>1 DEF GiveUp
<1>7. CASE Chat(r)
  <2>1. tx[r].pc # "idle"
    BY <1>7 DEF Chat
  <2> QED
    BY <1>1, <1>3, <1>7, <2>1 DEF Chat
<1>8. CASE Struggle(r) \/ Reject(r)
  BY <1>1, <1>6, <1>8 DEF Struggle, Reject
<1>9. CASE Understand(r)
  <2>1. tx[r].pc # "idle"
    <3>1. tx[r].pc \in {"first", "second"}
      BY <1>9 DEF Understand
    <3> QED
      BY <3>1
  <2> QED
    BY <1>1, <1>3, <1>9, <2>1 DEF Understand
<1>10. CASE ExecuteOther(r) \/ ExecuteChange(r)
  <2>1. tx[r].pc # "idle"
    BY <1>10 DEF ExecuteOther, ExecuteChange
  <2> QED
    BY <1>1, <1>3, <1>10, <2>1 DEF ExecuteOther, ExecuteChange, Result
<1> QED
  BY <1>4, <1>5, <1>7, <1>8, <1>9, <1>10 DEF Handle

LEMMA Inductive ==
  ASSUME Consistent /\ Patient, [Next]_vars
  PROVE  /\ Consistent' /\ Patient' /\ Effect
         /\ \A n \in Nonces : tokens[n] # None => tokens'[n] = tokens[n]
         /\ tokens' = tokens \/ appts' = appts
<1>1. ASSUME UNCHANGED <<tokens, settings, tx>>, Consistent', Effect
      PROVE  /\ Consistent' /\ Patient' /\ Effect
             /\ \A n \in Nonces : tokens[n] # None => tokens'[n] = tokens[n]
             /\ tokens' = tokens \/ appts' = appts
  BY <1>1 DEF Patient, Patience
<1>2. CASE UNCHANGED vars
  <2>1. UNCHANGED <<tokens, settings, tx, appts, waitlist, now, reply>>
    BY <1>2 DEF vars
  <2>2. Effect
    BY <2>1 DEF Effect
  <2>3. Consistent'
    BY <2>1, <2>2, TableStep DEF Consistent, TypeOK
  <2> QED
    BY <1>1, <2>1, <2>2, <2>3
<1>3. ASSUME NEW r \in Requests, Ask(r) \/ Handle(r) \/ Fail(r)
      PROVE  /\ Consistent' /\ Patient' /\ Effect
             /\ \A n \in Nonces : tokens[n] # None => tokens'[n] = tokens[n]
             /\ tokens' = tokens \/ appts' = appts
  <2>1. Consistent' /\ Patient'
    BY <1>3, AskStep, HandleStep
  <2>2. appts' = appts /\ Effect
    BY <1>3, ChatsChangeNothing DEF tables, Effect
  <2>3. \A n \in Nonces : tokens[n] # None => tokens'[n] = tokens[n]
    BY <1>3, TokensAreKept
  <2> QED
    BY <2>1, <2>2, <2>3
<1>4. ASSUME NEW user \in Clients, NEW n \in Nonces, tokens[n] # None, Confirm(user, n)
      PROVE  UNCHANGED <<tokens, settings, tx>> /\ Consistent' /\ Effect
  BY <1>4, ConfirmStep
<1>5. CASE \/ \E user \in Clients : Create(user) \/ Cancel(user) \/ Reschedule(user)
           \/ ChangeStatus \/ Tick
  BY <1>1, <1>5, ApplicationStep
<1> QED
  BY <1>1, <1>2, <1>3, <1>4, <1>5 DEF Next

LEMMA Steady == Spec => [](Consistent /\ Patient)
<1>1. Init => Consistent /\ Patient
  BY Initially
<1>2. Consistent /\ Patient /\ [Next]_vars => Consistent' /\ Patient'
  BY Inductive
<1> QED
  BY <1>1, <1>2, PTL DEF Spec

\* Tokens make sense and rows under their keys are theirs, for any number of chats.
THEOREM Invariance == Spec => []Consistent
<1>1. Consistent /\ Patient => Consistent
  OBVIOUS
<1> QED
  BY <1>1, Steady, PTL

-----------------------------------------------------------------------------
(***************************************************************************)
(* The properties.                                                         *)
(***************************************************************************)

\* Gemini is asked five times at most, whatever goes wrong.
THEOREM FewCalls == Spec => []CallsAreFew
<1>1. ASSUME Consistent, Patient
      PROVE  CallsAreFew
  <2>1. SUFFICES ASSUME NEW r \in Requests
                 PROVE  tx[r].attempt <= 3 /\ tx[r].calls < 5
    BY DEF CallsAreFew
  <2>2. tx[r] \in Tx /\ Patience(tx[r])
    BY <1>1 DEF Consistent, TypeOK, Patient
  <2>3. tx[r].attempt \in Nat /\ tx[r].model \in {"primary", "other"}
        /\ tx[r].calls \in 0 .. MaxCalls
    BY <2>2 DEF Tx
  <2> QED
    BY <2>2, <2>3 DEF Patience, MaxCalls
<1> QED
  BY <1>1, Steady, PTL

\* No appointments overlap, however late a proposal is confirmed.
THEOREM NeverDoubleBooked == Spec => []NoDoubleBooking
<1>1. Init => NoDoubleBooking
  BY DEF Init, NoDoubleBooking
<1>2. ASSUME Consistent, Patient, [Next]_vars, NoDoubleBooking
      PROVE  NoDoubleBooking'
  <2>1. appts \in Seq(Row) /\ Effect
    BY <1>2, Inductive DEF Consistent, TypeOK
  <2>2. CASE appts' = appts
    BY <1>2, <2>2 DEF NoDoubleBooking
  <2>3. ASSUME NEW n, NEW row, Touched(n, row)
        PROVE  NoDoubleBooking'
    <3>1. /\ DOMAIN appts' = DOMAIN appts /\ appts'[n] = row /\ n \in DOMAIN appts
          /\ \A m \in DOMAIN appts \ {n} : appts'[m] = appts[m]
      BY <2>1, <2>3, TouchedRows DEF Touched
    <3>2. \A m \in DOMAIN appts \ {n} : ~Clash(appts[m], row)
      BY <1>2, <2>3 DEF Touched, NoDoubleBooking
    <3>3. SUFFICES ASSUME NEW m \in DOMAIN appts, NEW o \in DOMAIN appts, m # o
                   PROVE  ~Clash(appts'[m], appts'[o])
      BY <3>1 DEF NoDoubleBooking
    <3>4. CASE m = n
      BY <3>1, <3>2, <3>3, <3>4, ClashSymmetric
    <3>5. CASE o = n
      BY <3>1, <3>2, <3>3, <3>5
    <3>6. CASE m # n /\ o # n
      BY <1>2, <3>1, <3>3, <3>6 DEF NoDoubleBooking
    <3> QED
      BY <3>4, <3>5, <3>6
  <2>4. ASSUME NEW rows, Grown(rows)
        PROVE  NoDoubleBooking'
    <3> DEFINE N == Len(appts)
               L == Len(rows)
    <3>1. /\ N \in Nat /\ L \in 1 .. MaxSteps /\ DOMAIN appts = 1 .. N /\ DOMAIN rows = 1 .. L
          /\ DOMAIN appts' = 1 .. N + L /\ rows \in Seq(Row)
          /\ \A m \in 1 .. N : appts'[m] = appts[m]
          /\ \A m \in DOMAIN appts' \ DOMAIN appts :
               m - N \in 1 .. L /\ appts'[m] = rows[m - N]
      BY <2>1, <2>4, GrownRows
    <3>2. L <= MaxSteps
      BY <3>1 DEF MaxSteps
    <3>3. /\ \A m \in DOMAIN appts, i \in DOMAIN rows : ~Clash(appts[m], rows[i])
          /\ \A i, j \in DOMAIN rows : i # j => ~Clash(rows[i], rows[j])
      BY <2>4, <3>1, <3>2, InOrderIsApart DEF Grown, Bookable, Taken
    <3> HIDE DEF N, L
    <3>4. SUFFICES ASSUME NEW m \in DOMAIN appts', NEW o \in DOMAIN appts', m # o
                   PROVE  ~Clash(appts'[m], appts'[o])
      BY DEF NoDoubleBooking
    <3>5. CASE m \in DOMAIN appts /\ o \in DOMAIN appts
      BY <1>2, <3>1, <3>4, <3>5 DEF NoDoubleBooking
    <3>6. CASE m \in DOMAIN appts /\ o \notin DOMAIN appts
      BY <3>1, <3>3, <3>4, <3>6
    <3>7. CASE m \notin DOMAIN appts /\ o \in DOMAIN appts
      BY <3>1, <3>3, <3>4, <3>7, ClashSymmetric
    <3>8. CASE m \notin DOMAIN appts /\ o \notin DOMAIN appts
      <4>1. /\ m - N \in DOMAIN rows /\ o - N \in DOMAIN rows
            /\ appts'[m] = rows[m - N] /\ appts'[o] = rows[o - N]
        BY <3>1, <3>8
      <4>2. m - N # o - N
        BY <3>1, <3>4
      <4> QED
        BY <3>3, <4>1, <4>2
    <3> QED
      BY <3>5, <3>6, <3>7, <3>8
  <2> QED
    BY <2>1, <2>2, <2>3, <2>4 DEF Effect
<1>3. Consistent /\ Patient /\ [Next]_vars /\ NoDoubleBooking => NoDoubleBooking'
  BY <1>2
<1> QED
  BY <1>1, <1>3, Steady, PTL DEF Spec

\* What has ended stays as it is, also when its change is confirmed late.
THEOREM EndedStays == Spec => TerminalIsFinal
<1> DEFINE Stays == \A n \in DOMAIN appts :
                     appts[n].status \in {"COMPLETED", "CANCELLED", "NO_SHOW"}
                       => appts'[n] = appts[n]
<1>1. ASSUME Consistent, Patient, [Next]_vars
      PROVE  Stays
  <2>1. appts \in Seq(Row) /\ Effect
    BY <1>1, Inductive DEF Consistent, TypeOK
  <2>2. CASE appts' = appts
    BY <2>2
  <2>3. ASSUME NEW n, NEW row, Touched(n, row)
        PROVE  Stays
    BY <2>1, <2>3, TouchedRows DEF Touched, Terminal
  <2>4. ASSUME NEW rows, Grown(rows)
        PROVE  Stays
    BY <2>1, <2>4, GrownRows
  <2> QED
    BY <2>1, <2>2, <2>3, <2>4 DEF Effect
<1>2. Consistent /\ Patient /\ [Next]_vars => [Stays]_vars
  BY <1>1
<1>3. [](Consistent /\ Patient) /\ [][Next]_vars => [][Stays]_vars
  BY <1>2, PTL
<1> QED
  BY <1>3, Steady, PTL DEF Spec, TerminalIsFinal

\* What TokenBooksOnce says of one token.
Once(n) ==
  LET k == tokens[n].action
  IN \/ \A i \in 1 .. MaxSteps : RowsUnder(n, i) = {}
     \/ /\ k.type \in {"CREATE_BOOKING", "CREATE_JOURNEY"}
        /\ \A i \in 1 .. MaxSteps : \A m \in RowsUnder(n, i) :
             /\ i \in DOMAIN k.steps /\ RowsUnder(n, i) = {m}
             /\ appts[m].print = [employee |-> k.steps[i].employee,
                                  service |-> k.steps[i].service,
                                  start |-> k.steps[i].start, note |-> "SlotBridge AI"]
        /\ \A i \in DOMAIN k.steps : RowsUnder(n, i) # {}

LEMMA OnceStays ==
  ASSUME NEW n \in Nonces, Once(n), tokens'[n] = tokens[n],
         \A i \in 1 .. MaxSteps : RowsUnder(n, i)' = RowsUnder(n, i),
         \A i \in 1 .. MaxSteps : \A m \in RowsUnder(n, i) : appts'[m].print = appts[m].print,
         DOMAIN tokens[n].action.steps \subseteq 1 .. MaxSteps
  PROVE  Once(n)'
<1> DEFINE k == tokens[n].action
           Rows(i) == RowsUnder(n, i)
<1>1. k' = k
  OBVIOUS
<1>2. CASE \A i \in 1 .. MaxSteps : Rows(i) = {}
  BY <1>2 DEF Once
<1>3. CASE /\ k.type \in {"CREATE_BOOKING", "CREATE_JOURNEY"}
           /\ \A i \in 1 .. MaxSteps : \A m \in Rows(i) :
                /\ i \in DOMAIN k.steps /\ Rows(i) = {m}
                /\ appts[m].print = [employee |-> k.steps[i].employee,
                                     service |-> k.steps[i].service,
                                     start |-> k.steps[i].start, note |-> "SlotBridge AI"]
           /\ \A i \in DOMAIN k.steps : Rows(i) # {}
  <2>1. \A i \in 1 .. MaxSteps : \A m \in RowsUnder(n, i)' :
          /\ i \in DOMAIN k.steps /\ RowsUnder(n, i)' = {m}
          /\ appts'[m].print = [employee |-> k.steps[i].employee,
                                service |-> k.steps[i].service,
                                start |-> k.steps[i].start, note |-> "SlotBridge AI"]
    BY <1>3
  <2>2. \A i \in DOMAIN k.steps : RowsUnder(n, i)' # {}
    BY <1>3
  <2> QED
    BY <1>1, <1>3, <2>1, <2>2 DEF Once
<1> QED
  BY <1>2, <1>3 DEF Once

\* A token has at most MaxSteps steps, and at least one if it books.
LEMMA StepsAreFew ==
  ASSUME Consistent, NEW n \in Nonces, tokens[n] # None
  PROVE  LET steps == tokens[n].action.steps
         IN /\ DOMAIN steps \subseteq 1 .. MaxSteps
            /\ tokens[n].action.type \in {"CREATE_BOOKING", "CREATE_JOURNEY"} => 1 \in DOMAIN steps
<1> DEFINE k == tokens[n].action
           L == Len(k.steps)
<1>1. k \in Proposal /\ Sensible(tokens[n])
  BY DEF Consistent, TypeOK, Token
<1>2. k.steps \in Seq(Step) /\ L \in Nat /\ DOMAIN k.steps = 1 .. L
  <2>1. k.steps \in Seq(Step)
    <3>1. k.steps \in Seq(Step) \/ k.steps = <<>>
      BY <1>1 DEF Proposal
    <3>2. <<>> \in Seq(Step)
      BY EmptySeq
    <3> QED
      BY <3>1, <3>2
  <2> QED
    BY <2>1
<1>3. CASE k.type \in {"CANCEL", "RESCHEDULE"}
  <2>1. k.steps = <<>>
    BY <1>1, <1>3 DEF Proposal
  <2> QED
    BY <1>3, <2>1
<1>4. CASE k.type \in {"CREATE_BOOKING", "WAITLIST", "CREATE_JOURNEY"}
  <2>1. L = 1 \/ L \in 2 .. MaxSteps
    BY <1>1, <1>4 DEF Sensible
  <2> HIDE DEF L
  <2>2. 1 .. L \subseteq 1 .. MaxSteps /\ 1 \in 1 .. L
    BY <1>2, <2>1 DEF MaxSteps
  <2> QED
    BY <1>2, <2>2
<1>5. k.type \in {"CREATE_BOOKING", "WAITLIST", "CREATE_JOURNEY", "CANCEL", "RESCHEDULE"}
  BY <1>1 DEF Proposal
<1> QED
  BY <1>3, <1>4, <1>5

\* A token books what it proposes once and whole, or nothing.
THEOREM BooksOnce == Spec => []TokenBooksOnce
<1>1. Init => TokenBooksOnce
  BY DEF Init, TokenBooksOnce
<1>2. ASSUME Consistent, Patient, [Next]_vars, TokenBooksOnce
      PROVE  TokenBooksOnce'
  <2>1. /\ appts \in Seq(Row) /\ Effect /\ Ours
        /\ \A n \in Nonces : tokens[n] # None => tokens'[n] = tokens[n]
        /\ tokens' = tokens \/ appts' = appts
    BY <1>2, Inductive DEF Consistent, TypeOK, Ours
  <2>2. SUFFICES ASSUME NEW n \in Nonces, tokens'[n] # None
                 PROVE  Once(n)'
    BY DEF TokenBooksOnce, Once
  <2>3. CASE tokens[n] = None
    <3>1. appts' = appts
      BY <2>1, <2>2, <2>3
    <3>2. \A i \in 1 .. MaxSteps : RowsUnder(n, i)' = {}
      BY <2>1, <2>3, <3>1 DEF RowsUnder, Ours
    <3> QED
      BY <3>2 DEF Once
  <2>4. CASE tokens[n] # None
    <3>1. /\ tokens'[n] = tokens[n] /\ Once(n)
          /\ DOMAIN tokens[n].action.steps \subseteq 1 .. MaxSteps
      BY <1>2, <2>1, <2>4, StepsAreFew DEF TokenBooksOnce, Once
    <3>2. CASE appts' = appts
      <4>1. \A i \in 1 .. MaxSteps : RowsUnder(n, i)' = RowsUnder(n, i)
        BY <3>1, <3>2 DEF RowsUnder
      <4> QED
        BY <3>1, <3>2, <4>1, OnceStays
    <3>3. ASSUME NEW m, NEW row, Touched(m, row)
          PROVE  Once(n)'
      <4>1. \A i \in 1 .. MaxSteps : RowsUnder(n, i)' = RowsUnder(n, i)
        BY <2>1, <3>1, <3>3, TouchedRows DEF RowsUnder
      <4>2. \A i \in 1 .. MaxSteps : \A o \in RowsUnder(n, i) : appts'[o].print = appts[o].print
        BY <2>1, <3>3, TouchedRows DEF RowsUnder
      <4> QED
        BY <3>1, <4>1, <4>2, OnceStays
    <3>4. ASSUME NEW rows, Grown(rows)
          PROVE  Once(n)'
      <4> DEFINE N == Len(appts)
                 L == Len(rows)
                 user == tokens[n].user
      <4>1. /\ N \in Nat /\ L \in 1 .. MaxSteps /\ DOMAIN appts = 1 .. N /\ DOMAIN rows = 1 .. L
            /\ DOMAIN appts' = 1 .. N + L
            /\ \A m \in 1 .. N : appts'[m] = appts[m]
            /\ \A i \in 1 .. L : appts'[N + i] = rows[i]
            /\ \A m \in DOMAIN appts' \ DOMAIN appts :
                 m - N \in 1 .. L /\ appts'[m] = rows[m - N]
        BY <2>1, <3>4, GrownRows
      <4>2. 1 .. L \subseteq 1 .. MaxSteps
        BY <4>1 DEF MaxSteps
      <4> HIDE DEF N, L
      <4>3. CASE \A j \in DOMAIN rows : \A i \in 1 .. MaxSteps : rows[j].key # TokenKey(n, i)
        <5>1. \A i \in 1 .. MaxSteps : RowsUnder(n, i)' = RowsUnder(n, i)
          BY <3>1, <4>1, <4>3 DEF RowsUnder
        <5>2. \A i \in 1 .. MaxSteps : \A o \in RowsUnder(n, i) :
                appts'[o].print = appts[o].print
          BY <4>1 DEF RowsUnder
        <5> QED
          BY <3>1, <5>1, <5>2, OnceStays
      <4>4. CASE \E j \in DOMAIN rows : \E i \in 1 .. MaxSteps : rows[j].key = TokenKey(n, i)
        <5> DEFINE k == tokens[n].action
                   steps == k.steps
        <5>1. PICK j \in DOMAIN rows : \E i \in 1 .. MaxSteps : rows[j].key = TokenKey(n, i)
          BY <4>4
        <5>2. rows[j].key \notin OwnKeys
          BY <5>1, KeysApart
        <5>3. PICK o \in Nonces :
                /\ tokens[o] # None /\ rows = Proposed(tokens[o].user, o)
                /\ tokens[o].action.type \in {"CREATE_BOOKING", "CREATE_JOURNEY"}
                /\ ~Booked(tokens[o].user, o)
          BY <3>4, <5>2 DEF Grown
        <5>4. o = n
          <6>1. j \in 1 .. MaxSteps /\ rows[j].key = TokenKey(o, j)
            BY <1>2, <4>1, <4>2, <5>3, ProposedRows
          <6> QED
            BY <5>1, <6>1, KeysApart
        <5>5. /\ k.type \in {"CREATE_BOOKING", "CREATE_JOURNEY"}
              /\ ~Booked(user, n) /\ 1 \in DOMAIN steps
          BY <1>2, <2>4, <5>3, <5>4, StepsAreFew
        <5>6. /\ DOMAIN steps = 1 .. L
              /\ \A i \in DOMAIN steps :
                   /\ rows[i].key = TokenKey(n, i) /\ rows[i].client = user
                   /\ rows[i].print = [employee |-> steps[i].employee,
                                       service |-> steps[i].service,
                                       start |-> steps[i].start, note |-> "SlotBridge AI"]
          BY <1>2, <2>4, <5>3, <5>4, ProposedRows, <4>1
        <5>7. \A i \in 1 .. MaxSteps : RowsUnder(n, i) = {}
          <6>1. RowsUnder(n, 1) = {}
            BY <5>5 DEF RowsUnder, Booked
          <6> QED
            BY <3>1, <5>5, <6>1 DEF Once
        <5>8. ASSUME NEW i \in 1 .. MaxSteps
              PROVE  RowsUnder(n, i)' = IF i \in 1 .. L THEN {N + i} ELSE {}
          <6>1. ASSUME NEW m \in RowsUnder(n, i)'
                PROVE  i \in 1 .. L /\ m = N + i
            <7>1. /\ m \in DOMAIN appts' /\ appts'[m].client = user
                  /\ appts'[m].key = TokenKey(n, i)
              BY <3>1 DEF RowsUnder
            <7>2. m \notin DOMAIN appts
              BY <4>1, <5>7, <7>1 DEF RowsUnder
            <7>3. /\ m - N \in 1 .. L /\ appts'[m] = rows[m - N]
              BY <4>1, <7>1, <7>2
            <7>4. rows[m - N].key = TokenKey(n, m - N) /\ m - N \in 1 .. MaxSteps
              BY <4>2, <5>6, <7>3
            <7>5. m - N = i
              BY <7>1, <7>3, <7>4, KeysApart
            <7>6. m \in Int /\ N \in Int
              BY <4>1, <7>1 DEF MaxSteps
            <7> QED
              BY <7>3, <7>5, <7>6
          <6>2. ASSUME i \in 1 .. L
                PROVE  N + i \in RowsUnder(n, i)'
            <7>1. N + i \in DOMAIN appts' /\ appts'[N + i] = rows[i]
              BY <4>1, <6>2
            <7>2. rows[i].key = TokenKey(n, i) /\ rows[i].client = user
              BY <5>6, <6>2
            <7> QED
              BY <3>1, <7>1, <7>2 DEF RowsUnder
          <6> QED
            BY <6>1, <6>2
        <5>9. \A i \in 1 .. L : appts'[N + i].print =
                [employee |-> steps[i].employee, service |-> steps[i].service,
                 start |-> steps[i].start, note |-> "SlotBridge AI"]
          BY <4>1, <5>6
        <5>10. tokens'[n].action = k
          BY <3>1
        <5> HIDE DEF user, k
        <5>11. \A i \in 1 .. MaxSteps : \A m \in RowsUnder(n, i)' :
                 /\ i \in DOMAIN steps /\ RowsUnder(n, i)' = {m}
                 /\ appts'[m].print = [employee |-> steps[i].employee,
                                       service |-> steps[i].service,
                                       start |-> steps[i].start, note |-> "SlotBridge AI"]
          <6>1. SUFFICES ASSUME NEW i \in 1 .. MaxSteps, NEW m \in RowsUnder(n, i)'
                         PROVE  /\ i \in DOMAIN steps /\ RowsUnder(n, i)' = {m}
                                /\ appts'[m].print =
                                     [employee |-> steps[i].employee,
                                      service |-> steps[i].service,
                                      start |-> steps[i].start, note |-> "SlotBridge AI"]
            OBVIOUS
          <6>2. i \in 1 .. L /\ RowsUnder(n, i)' = {N + i}
            BY <5>8, <6>1
          <6>3. m = N + i /\ i \in DOMAIN steps
            BY <5>6, <6>1, <6>2
          <6> QED
            BY <5>9, <6>2, <6>3
        <5>12. \A i \in DOMAIN steps : RowsUnder(n, i)' # {}
          BY <4>2, <5>6, <5>8
        <5> QED
          BY <5>5, <5>10, <5>11, <5>12 DEF Once
      <4> QED
        BY <4>3, <4>4
    <3> QED
      BY <2>1, <3>2, <3>3, <3>4 DEF Effect
  <2> QED
    BY <2>3, <2>4
<1>3. Consistent /\ Patient /\ [Next]_vars /\ TokenBooksOnce => TokenBooksOnce'
  BY <1>2
<1> QED
  BY <1>1, <1>3, Steady, PTL DEF Spec

\* A chat changes nothing; a confirmation changes what its token proposes to its own user, while
\* it lasts, and nothing else.
THEOREM AsProposed == Spec => OnlyTheProposed
<1> DEFINE Proper ==
             /\ tx' # tx => UNCHANGED tables
             /\ reply' # None /\ reply'.confirmed # None /\ tables' # tables =>
                  LET token == tokens[reply'.confirmed]
                      k == token.action
                  IN /\ reply'.code = 200 /\ reply'.to = token.user /\ now <= token.exp
                     /\ Len(appts') = Len(appts) +
                          (IF k.type \in {"CREATE_BOOKING", "CREATE_JOURNEY"}
                           THEN Len(k.steps) ELSE 0)
                     /\ \A m \in DOMAIN appts : appts'[m] # appts[m] =>
                          /\ m = k.appt /\ appts[m].client = token.user
                          /\ appts'[m] = IF k.type = "CANCEL"
                                         THEN [appts[m] EXCEPT !.status = "CANCELLED"]
                                         ELSE [appts[m] EXCEPT !.start = k.start]
                     /\ \A m \in DOMAIN appts' \ DOMAIN appts : appts'[m].client = token.user
                     /\ Len(waitlist') = Len(waitlist) + (IF k.type = "WAITLIST" THEN 1 ELSE 0)
<1>1. ASSUME Consistent, Patient, [Next]_vars
      PROVE  [Proper]_vars
  <2>1. CASE UNCHANGED vars
    BY <2>1
  <2>2. ASSUME NEW r \in Requests, Ask(r) \/ Handle(r) \/ Fail(r)
        PROVE  Proper
    BY <2>2, ChatsChangeNothing
  <2>3. CASE \/ \E user \in Clients : Create(user) \/ Cancel(user) \/ Reschedule(user)
             \/ ChangeStatus \/ Tick
    BY <1>1, <2>3, ApplicationStep
  <2>4. ASSUME NEW user \in Clients, NEW n \in Nonces, tokens[n] # None, Confirm(user, n)
        PROVE  Proper
    <3> DEFINE token == tokens[n]
               k == token.action
               Does == \/ UNCHANGED tables
                       \/ /\ token.user = user /\ now <= token.exp /\ reply'.code = 200
                          /\ \/ /\ k.type \in {"CREATE_BOOKING", "CREATE_JOURNEY"}
                                /\ Grown(Proposed(user, n)) /\ waitlist' = waitlist
                             \/ /\ k.type = "CANCEL" /\ Len(waitlist') = Len(waitlist)
                                /\ Touched(k.appt, [appts[k.appt] EXCEPT !.status = "CANCELLED"])
                             \/ /\ k.type = "RESCHEDULE" /\ Len(waitlist') = Len(waitlist)
                                /\ Touched(k.appt, [appts[k.appt] EXCEPT !.start = k.start])
                             \/ /\ k.type = "WAITLIST" /\ appts' = appts
                                /\ Len(waitlist') = Len(waitlist) + 1
    <3>1. /\ UNCHANGED <<tokens, settings, tx>> /\ reply'.confirmed = n /\ reply'.to = user
          /\ appts \in Seq(Row) /\ waitlist \in Seq(WaitlistEntry) /\ Sensible(token)
      <4>1. UNCHANGED <<tokens, settings, tx>> /\ reply'.confirmed = n /\ reply'.to = user
        <5>1. PICK code : Confirmed(user, n, code)
          BY <2>4 DEF Confirm, Refused, ConfirmBooking, ConfirmCancel, ConfirmMove,
                      ConfirmWaitlist
        <5> QED
          BY <5>1 DEF Confirmed
      <4>2. appts \in Seq(Row) /\ waitlist \in Seq(WaitlistEntry) /\ Sensible(token)
        BY <1>1, <2>4 DEF Consistent, TypeOK
      <4> QED
        BY <4>1, <4>2
    <3>2. Does
      BY <1>1, <2>4, ConfirmStep
    <3>3. CASE UNCHANGED tables
      BY <3>3
    <3>4. CASE ~UNCHANGED tables
      <4>1. token.user = user /\ now <= token.exp /\ reply'.code = 200
        BY <3>2, <3>4
      <4>2. /\ Len(appts) \in Nat /\ Len(waitlist) \in Nat
        BY <3>1
      <4> DEFINE Right ==
             /\ Len(appts') = Len(appts) +
                  (IF k.type \in {"CREATE_BOOKING", "CREATE_JOURNEY"} THEN Len(k.steps) ELSE 0)
             /\ \A m \in DOMAIN appts : appts'[m] # appts[m] =>
                  /\ m = k.appt /\ appts[m].client = token.user
                  /\ appts'[m] = IF k.type = "CANCEL"
                                 THEN [appts[m] EXCEPT !.status = "CANCELLED"]
                                 ELSE [appts[m] EXCEPT !.start = k.start]
             /\ \A m \in DOMAIN appts' \ DOMAIN appts : appts'[m].client = token.user
             /\ Len(waitlist') = Len(waitlist) + (IF k.type = "WAITLIST" THEN 1 ELSE 0)
      <4>3. CASE /\ k.type \in {"CREATE_BOOKING", "CREATE_JOURNEY"}
                 /\ Grown(Proposed(user, n)) /\ waitlist' = waitlist
        <5> DEFINE rows == Proposed(user, n)
        <5>1. /\ Len(rows) = Len(k.steps) /\ DOMAIN rows = DOMAIN k.steps
              /\ \A i \in DOMAIN rows : rows[i].client = token.user
          <6> DEFINE those == Proposed(token.user, n)
          <6>1. /\ Len(those) = Len(k.steps) /\ DOMAIN those = DOMAIN k.steps
                /\ \A i \in DOMAIN k.steps : those[i].client = token.user
            BY <1>1, <2>4, <4>3, ProposedRows
          <6>2. rows = those
            BY <4>1
          <6> HIDE DEF those
          <6> QED
            BY <6>1, <6>2
        <5>2. Grown(rows)
          BY <4>3
        <5> HIDE DEF rows
        <5>3. /\ Len(appts') = Len(appts) + Len(rows) /\ DOMAIN rows = 1 .. Len(rows)
              /\ DOMAIN appts = 1 .. Len(appts)
              /\ \A m \in 1 .. Len(appts) : appts'[m] = appts[m]
              /\ \A m \in DOMAIN appts' \ DOMAIN appts :
                   m - Len(appts) \in 1 .. Len(rows) /\ appts'[m] = rows[m - Len(appts)]
          BY <3>1, <5>2, GrownRows
        <5>4. /\ \A m \in DOMAIN appts : appts'[m] = appts[m]
              /\ \A m \in DOMAIN appts' \ DOMAIN appts : appts'[m].client = token.user
          BY <5>1, <5>3
        <5>5. Len(appts') = Len(appts) + Len(k.steps) /\ Len(waitlist') = Len(waitlist) + 0
          BY <4>2, <4>3, <5>1, <5>3
        <5>6. Right
          BY <4>3, <5>4, <5>5
        <5> QED
          BY <3>1, <4>1, <5>6
      <4>4. CASE /\ k.type = "CANCEL" /\ Len(waitlist') = Len(waitlist)
                 /\ Touched(k.appt, [appts[k.appt] EXCEPT !.status = "CANCELLED"])
        <5>1. /\ DOMAIN appts' = DOMAIN appts /\ Len(appts') = Len(appts)
              /\ appts'[k.appt] = [appts[k.appt] EXCEPT !.status = "CANCELLED"]
              /\ \A m \in DOMAIN appts \ {k.appt} : appts'[m] = appts[m]
          BY <3>1, <4>4, TouchedRows
        <5>2. appts[k.appt].client = token.user
          BY <3>1, <4>4 DEF Sensible
        <5>3. Right
          BY <4>2, <4>4, <5>1, <5>2
        <5> QED
          BY <3>1, <4>1, <5>3
      <4>5. CASE /\ k.type = "RESCHEDULE" /\ Len(waitlist') = Len(waitlist)
                 /\ Touched(k.appt, [appts[k.appt] EXCEPT !.start = k.start])
        <5>1. /\ DOMAIN appts' = DOMAIN appts /\ Len(appts') = Len(appts)
              /\ appts'[k.appt] = [appts[k.appt] EXCEPT !.start = k.start]
              /\ \A m \in DOMAIN appts \ {k.appt} : appts'[m] = appts[m]
          BY <3>1, <4>5, TouchedRows
        <5>2. appts[k.appt].client = token.user
          BY <3>1, <4>5 DEF Sensible
        <5>3. Right
          BY <4>2, <4>5, <5>1, <5>2
        <5> QED
          BY <3>1, <4>1, <5>3
      <4>6. CASE k.type = "WAITLIST" /\ appts' = appts /\ Len(waitlist') = Len(waitlist) + 1
        <5>1. Right
          BY <4>2, <4>6
        <5> QED
          BY <3>1, <4>1, <5>1
      <4> HIDE DEF Proper
      <4> QED
        BY <3>2, <3>4, <4>3, <4>4, <4>5, <4>6
    <3> QED
      BY <3>3, <3>4
  <2> QED
    BY <1>1, <2>1, <2>2, <2>3, <2>4 DEF Next
<1>2. Consistent /\ Patient /\ [Next]_vars => [Proper]_vars
  BY <1>1
<1>3. [](Consistent /\ Patient) /\ [][Next]_vars => [][Proper]_vars
  BY <1>2, PTL
<1> QED
  BY <1>3, Steady, PTL DEF Spec, OnlyTheProposed
=============================================================================
