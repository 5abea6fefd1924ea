--------------------------- MODULE GatewayProofs ---------------------------
(***************************************************************************)
(* Proofs about Gateway, for any set of webhooks and any number of         *)
(* administrators.                                                         *)
(***************************************************************************)
EXTENDS Gateway, SequenceTheorems, TLAPS

LEMMA EventType ==
  ASSUME NEW e \in Events
  PROVE  /\ e.provider \in Providers /\ e.key \in Names /\ e.external \in Names
         /\ RowOf(e) \in Row /\ About(RowOf(e), e)
         /\ RowOf(e).provider = e.provider /\ RowOf(e).external = e.external
<1>1. e \in Event
  BY EventAssumption
<1> QED
  BY <1>1 DEF Event, Row, RowOf, About

LEMMA IdleType == Idle \in Task /\ Idle.pc = "idle" /\ Idle.found = {}
  BY DEF Idle, Task, Providers

\* An active row has times.
LEMMA ActiveTimes ==
  ASSUME NEW row \in Row, Active(row)
  PROVE  row.start \in Times /\ row.end \in Times /\ row.start \in Int /\ row.end \in Int
<1>1. row.start \in Times /\ row.end \in Times
  BY DEF Active, Row
<1> QED
  BY <1>1, HorizonAssumption DEF Times

LEMMA DetectType ==
  ASSUME NEW rows \in Seq(Row)
  PROVE  Detect(rows) \subseteq Conflict
<1>1. SUFFICES ASSUME NEW i \in DOMAIN rows, NEW j \in DOMAIN rows,
                      Active(rows[i]), Active(rows[j])
               PROVE  ConflictOf(rows, i, j) \in Conflict
  BY DEF Detect
<1>2. rows[i] \in Row /\ rows[j] \in Row /\ i \in Nat /\ j \in Nat
  OBVIOUS
<1>3. /\ Larger(rows[i].start, rows[j].start) \in Times
      /\ Smaller(rows[i].end, rows[j].end) \in Times
  BY <1>1, <1>2, ActiveTimes DEF Larger, Smaller
<1> QED
  BY <1>2, <1>3 DEF ConflictOf, Conflict

LEMMA JobType ==
  ASSUME NEW row \in Row, NEW id \in Nat, NEW target \in Providers
  PROVE  JobFor(id, row, target) \in Job
<1>1. Operation(row) \in {"upsert", "delete"}
  BY DEF Operation
<1>2. row.start \in Times \cup {None} /\ row.end \in Times \cup {None}
  BY DEF Row
<1> QED
  BY <1>1, <1>2 DEF JobFor, Job

LEMMA NoneIsNoJob == ASSUME NEW j \in Job PROVE j # None
  BY NoneAssumption

-----------------------------------------------------------------------------
(***************************************************************************)
(* The steps that leave the webhooks and the appointments alone.           *)
(***************************************************************************)

\* What Form says of a task, as an operator of the task.
FormOf(w, t) ==
  /\ t.pc = "idle" => t = Idle
  /\ t.pc = "upsert" => w = "webhook"
  /\ w = "webhook" /\ t.pc # "idle" => \E n \in DOMAIN received : t.event = received[n]
  /\ w = "webhook" /\ t.pc \in {"list", "replace", "plan"} =>
       t.appt \in DOMAIN appts /\ About(appts[t.appt], t.event)
  /\ t.pc = "plan" => t.appt \in DOMAIN appts
  /\ t.pc = "job" => t.draft # None

LEMMA TaskStep ==
  ASSUME Consistent, NEW w \in Workers, NEW t \in Task,
         task' = [task EXCEPT ![w] = t], UNCHANGED <<received, appts>>,
         conflicts' \subseteq Conflict, jobs' \in Seq(Job), dead' \subseteq Nat,
         reply' \in [event : Events \cup {None}, is : {"applied", "duplicate", "error"}] \cup {None},
         due' \in Due,
         FormOf(w, t)
  PROVE  Consistent'
<1>1. TypeOK'
  BY DEF Consistent, TypeOK
<1>2. OneRowEach' /\ RecordedOnce' /\ RowsWereSent'
  BY DEF Consistent, OneRowEach, RecordedOnce, RowsWereSent, Address
<1>3. \A v \in Workers : task'[v] = IF v = w THEN t ELSE task[v]
  BY DEF Consistent, TypeOK
<1>4. ASSUME NEW v \in Workers
      PROVE  Form(v)'
  <2>1. CASE v = w
    BY <1>3, <2>1 DEF Form, FormOf
  <2>2. CASE v # w
    <3>1. Form(v) /\ task'[v] = task[v]
      BY <1>3, <2>2 DEF Consistent
    <3> QED
      BY <3>1 DEF Form
  <2> QED
    BY <2>1, <2>2
<1> QED
  BY <1>1, <1>2, <1>4 DEF Consistent

\* What the invariant says of a worker.
LEMMA Before ==
  ASSUME Consistent, NEW w \in Workers
  PROVE  /\ task[w] \in Task /\ FormOf(w, task[w])
         /\ w = "webhook" /\ task[w].pc # "idle" => task[w].event \in Events
         /\ appts \in Seq(Row) /\ received \in Seq(Events) /\ jobs \in Seq(Job)
         /\ conflicts \subseteq Conflict /\ dead \subseteq Nat
         /\ due \in Due
<1>1. task[w] \in Task /\ FormOf(w, task[w])
  BY DEF Consistent, TypeOK, Form, FormOf
<1>2. appts \in Seq(Row) /\ received \in Seq(Events) /\ jobs \in Seq(Job)
      /\ conflicts \subseteq Conflict /\ dead \subseteq Nat
      /\ due \in Due
  BY DEF Consistent, TypeOK
<1>3. ASSUME w = "webhook", task[w].pc # "idle"
      PROVE  task[w].event \in Events
  <2>1. PICK n \in DOMAIN received : task[w].event = received[n]
    BY <1>1, <1>3 DEF FormOf
  <2> QED
    BY <1>2, <2>1
<1> QED
  BY <1>1, <1>2, <1>3

\* A worker's answer ends its task.
LEMMA AnswerStep ==
  ASSUME Consistent, NEW w \in Workers, task[w].pc # "idle",
         NEW is \in {"applied", "error"}, Answers(w, is),
         UNCHANGED <<received, appts>>,
         conflicts' \subseteq Conflict, jobs' \in Seq(Job), dead' \subseteq Nat,
         due' \in Due
  PROVE  Consistent'
<1>1. Idle \in Task /\ FormOf(w, Idle)
  BY IdleType DEF FormOf
<1>2. reply' \in [event : Events \cup {None}, is : {"applied", "duplicate", "error"}] \cup {None}
  BY Before DEF Answers, Reply
<1> QED
  BY <1>1, <1>2, TaskStep DEF Answers

LEMMA ListStep ==
  ASSUME Consistent, NEW w \in Workers, List(w)
  PROVE  Consistent'
<1> DEFINE u == [task[w] EXCEPT !.pc = "replace", !.found = Detect(appts)]
<1>1. CASE GoesTo(w, u)
  <2>1. u \in Task /\ FormOf(w, u)
    <3>1. Detect(appts) \subseteq Conflict
      BY Before, DetectType
    <3> QED
      BY <3>1, Before DEF List, Task, FormOf
  <2> QED
    BY <1>1, <2>1, Before, TaskStep DEF GoesTo, List, tables
<1>2. CASE Answers(w, "error")
  BY <1>2, Before, AnswerStep DEF List, tables
<1> QED
  BY <1>1, <1>2 DEF List

LEMMA ReplaceStep ==
  ASSUME Consistent, NEW w \in Workers, Replace(w)
  PROVE  Consistent'
<1> DEFINE u == [task[w] EXCEPT !.pc = "plan", !.found = {}]
<1>1. /\ conflicts' \subseteq Conflict /\ jobs' \in Seq(Job) /\ dead' \subseteq Nat
      /\ due' \in Due /\ UNCHANGED <<received, appts>>
  <2>1. due' \in Due
    <3> DEFINE stale == w \in due.overtaken
    <3>1. stale \in BOOLEAN /\ due \in Due
      BY Before
    <3>2. due' = [due EXCEPT !.overtaken = @ \ {w}, !.conflicts = stale]
      BY DEF Replace
    <3> HIDE DEF stale
    <3> QED
      BY <3>1, <3>2 DEF Due
  <2> QED
    BY <2>1, Before DEF Replace, Task
<1>2. CASE w = "webhook" /\ GoesTo(w, u)
  <2>1. u \in Task /\ FormOf(w, u)
    BY <1>2, Before DEF Replace, Task, FormOf
  <2> QED
    BY <1>1, <1>2, <2>1, TaskStep DEF GoesTo
<1>3. CASE Answers(w, "applied")
  BY <1>1, <1>3, AnswerStep DEF Replace
<1> QED
  BY <1>2, <1>3 DEF Replace

LEMMA PlanStep ==
  ASSUME Consistent, NEW w \in Workers, Plan(w)
  PROVE  Consistent'
<1> DEFINE job == JobFor(task[w].appt, appts[task[w].appt], task[w].target)
           u == [task[w] EXCEPT !.pc = "job", !.draft = job]
<1>1. task[w].appt \in DOMAIN appts /\ task[w] \in Task
  BY Before DEF Plan, FormOf
<1>2. job \in Job
  <2>1. appts[task[w].appt] \in Row /\ task[w].appt \in Nat /\ task[w].target \in Providers
    BY <1>1, Before DEF Task
  <2> QED
    BY <2>1, JobType
<1> HIDE DEF job
<1>3. u \in Task /\ FormOf(w, u)
  BY <1>1, <1>2, Before, NoneIsNoJob DEF Plan, Task, FormOf
<1> QED
  BY <1>3, Before, TaskStep DEF Plan, GoesTo, tables, job

LEMMA CreateJobStep ==
  ASSUME Consistent, NEW w \in Workers, CreateJob(w)
  PROVE  Consistent'
<1> DEFINE u == [task[w] EXCEPT !.pc = "dead", !.appt = Len(jobs) + 1]
<1>1. task[w] \in Task /\ task[w].draft \in Job /\ jobs \in Seq(Job)
  BY Before DEF CreateJob, FormOf, Task
<1>2. jobs' \in Seq(Job) /\ Len(jobs) + 1 \in Nat
  BY <1>1 DEF CreateJob
<1>3. due' \in Due
  BY <1>1, Before DEF CreateJob, Due, Task
<1>4. CASE GoesTo(w, u)
  <2>1. u \in Task /\ FormOf(w, u)
    BY <1>1, <1>2, Before DEF CreateJob, Task, FormOf
  <2> QED
    BY <1>2, <1>3, <1>4, <2>1, Before, TaskStep DEF CreateJob, GoesTo
<1>5. CASE Answers(w, "applied")
  BY <1>2, <1>3, <1>5, Before, AnswerStep DEF CreateJob
<1> QED
  BY <1>4, <1>5 DEF CreateJob

LEMMA DeadLetterStep ==
  ASSUME Consistent, NEW w \in Workers, DeadLetter(w)
  PROVE  Consistent'
<1>1. task[w].appt \in Nat
  BY Before DEF Task
<1> QED
  BY <1>1, Before, AnswerStep DEF DeadLetter

LEMMA FailStep ==
  ASSUME Consistent, NEW w \in Workers, Fail(w)
  PROVE  Consistent'
<1>1. due' \in Due
  BY Before DEF Fail, Due
<1> QED
  BY <1>1, Before, AnswerStep DEF Fail, tables

LEMMA CallStep ==
  ASSUME Consistent, NEW w \in Admins, Call(w)
  PROVE  Consistent'
<1>1. w \in Workers /\ w # "webhook"
  BY AdminAssumption DEF Workers
<1>2. CASE GoesTo(w, [Idle EXCEPT !.pc = "list"])
  <2>1. [Idle EXCEPT !.pc = "list"] \in Task /\ FormOf(w, [Idle EXCEPT !.pc = "list"])
    BY <1>1, IdleType DEF Task, FormOf
  <2> QED
    BY <1>1, <1>2, <2>1, Before, TaskStep DEF Call, GoesTo, tables
<1>3. CASE \E id \in DOMAIN appts, target \in Providers :
             GoesTo(w, [Idle EXCEPT !.pc = "plan", !.appt = id, !.target = target])
  <2>1. PICK id \in DOMAIN appts, target \in Providers :
             GoesTo(w, [Idle EXCEPT !.pc = "plan", !.appt = id, !.target = target])
    BY <1>3
  <2> DEFINE u == [Idle EXCEPT !.pc = "plan", !.appt = id, !.target = target]
  <2>2. id \in Nat
    BY <1>1, Before
  <2>3. u \in Task /\ FormOf(w, u)
    BY <1>1, <2>2, IdleType DEF Task, FormOf
  <2> QED
    BY <1>1, <2>1, <2>3, Before, TaskStep DEF Call, GoesTo, tables
<1> QED
  BY <1>2, <1>3 DEF Call

-----------------------------------------------------------------------------
(***************************************************************************)
(* The arrival of a webhook and the change of a row.                       *)
(***************************************************************************)

LEMMA ReceiveStep ==
  ASSUME Consistent, NEW e \in Events, Receive(e)
  PROVE  Consistent'
<1> DEFINE u == [task["webhook"] EXCEPT !.pc = "upsert", !.event = e]
<1>1. "webhook" \in Workers /\ task["webhook"].pc = "idle" /\ task["webhook"] \in Task
  BY Before DEF Workers, Receive
<1>2. CASE UNCHANGED <<received, task>> /\ reply' = [event |-> e, is |-> "duplicate"]
  <2>1. TypeOK'
    BY <1>2 DEF Receive, Consistent, TypeOK
  <2>2. /\ OneRowEach' /\ RecordedOnce' /\ RowsWereSent' /\ \A w \in Workers : Form(w)'
    BY <1>2 DEF Receive, Consistent, OneRowEach, RecordedOnce, RowsWereSent, Address, Form
  <2> QED
    BY <2>1, <2>2 DEF Consistent
<1>3. CASE ~Recorded(e) /\ received' = Append(received, e) /\ GoesTo("webhook", u)
  <2>1. /\ received \in Seq(Events) /\ received' \in Seq(Events)
        /\ Len(received) \in Nat /\ Len(received') = Len(received) + 1
        /\ DOMAIN received = 1 .. Len(received) /\ DOMAIN received' = 1 .. Len(received) + 1
        /\ received'[Len(received) + 1] = e
        /\ \A n \in DOMAIN received : received'[n] = received[n]
    BY <1>1, <1>3, Before
  <2>2. \A n \in DOMAIN received' : n \in DOMAIN received \/ n = Len(received) + 1
    BY <2>1
  <2>3. DOMAIN received \subseteq DOMAIN received' /\ Len(received) + 1 \in DOMAIN received'
    BY <2>1
  <2>4. u \in Task /\ u.pc = "upsert" /\ u.event = e
    <3>1. e \in Event
      BY EventAssumption
    <3> QED
      BY <1>1, <3>1 DEF Task
  <2>5. TypeOK'
    BY <1>1, <1>3, <2>1, <2>4 DEF GoesTo, Receive, Consistent, TypeOK
  <2>6. RecordedOnce'
    <3>1. SUFFICES ASSUME NEW m \in DOMAIN received', NEW n \in DOMAIN received',
                          SameKey(received'[m], received'[n])
                   PROVE  m = n
      BY DEF RecordedOnce, SameKey
    <3>2. \A k \in DOMAIN received : ~SameKey(received[k], e) /\ ~SameKey(e, received[k])
      BY <1>3 DEF Recorded, SameKey
    <3> QED
      BY <2>1, <2>2, <3>1, <3>2 DEF Consistent, RecordedOnce
  <2>7. OneRowEach' /\ RowsWereSent'
    BY <2>1, <2>3 DEF Receive, Consistent, OneRowEach, RowsWereSent, Address
  <2>8. ASSUME NEW w \in Workers
        PROVE  Form(w)'
    <3>1. CASE w = "webhook"
      <4>1. task'[w] = u /\ received'[Len(received) + 1] = e
        BY <1>3, <2>1, <3>1 DEF GoesTo, Consistent, TypeOK
      <4> QED
        BY <2>3, <2>4, <3>1, <4>1 DEF Form
    <3>2. CASE w # "webhook"
      <4>1. task'[w] = task[w] /\ Form(w) /\ appts' = appts
        BY <1>3, <3>2 DEF GoesTo, Receive, Consistent, TypeOK
      <4> QED
        BY <3>2, <4>1 DEF Form
    <3> QED
      BY <3>1, <3>2
  <2> QED
    BY <2>5, <2>6, <2>7, <2>8 DEF Consistent
<1> QED
  BY <1>2, <1>3 DEF Receive

\* The row that a webhook writes: the only one about its appointment.
LEMMA UpsertRow ==
  ASSUME Consistent, Upsert
  PROVE  LET e == task["webhook"].event
         IN /\ e \in Events /\ \E m \in DOMAIN received : e = received[m]
            /\ appts' \in Seq(Row)
            /\ \E n \in DOMAIN appts' :
                 /\ GoesTo("webhook", [task["webhook"] EXCEPT !.pc = "list", !.appt = n])
                 /\ due' = [overtaken |-> due.overtaken \cup Readers(n), conflicts |-> TRUE, jobs |-> IF e.provider \in Copied
                              THEN due.jobs \cup {n} ELSE due.jobs]
                 /\ appts'[n] = RowOf(e)
                 /\ DOMAIN appts' = DOMAIN appts \cup {n}
                 /\ \A m \in DOMAIN appts \ {n} : appts'[m] = appts[m] /\ ~About(appts[m], e)
                 /\ n \in DOMAIN appts => About(appts[n], e)
<1> DEFINE t == task["webhook"]
           e == t.event
           known == {n \in DOMAIN appts : About(appts[n], e)}
           after(n) == /\ GoesTo("webhook", [t EXCEPT !.pc = "list", !.appt = n])
                       /\ due' = [overtaken |-> due.overtaken \cup Readers(n), conflicts |-> TRUE, jobs |-> IF e.provider \in Copied
                                    THEN due.jobs \cup {n} ELSE due.jobs]
<1>1. "webhook" \in Workers /\ t.pc = "upsert"
  BY DEF Workers, Upsert
<1>2. /\ e \in Events /\ \E m \in DOMAIN received : e = received[m]
      /\ appts \in Seq(Row) /\ RowOf(e) \in Row
  BY <1>1, Before, EventType DEF FormOf
<1>3. CASE known = {}
  <2> DEFINE n == Len(appts) + 1
  <2>1. appts' = Append(appts, RowOf(e)) /\ after(n)
    BY <1>3 DEF Upsert
  <2>2. /\ appts' \in Seq(Row) /\ DOMAIN appts' = DOMAIN appts \cup {n} /\ n \in DOMAIN appts'
        /\ appts'[n] = RowOf(e) /\ n \notin DOMAIN appts
        /\ \A m \in DOMAIN appts : appts'[m] = appts[m]
    <3>1. /\ appts' \in Seq(Row) /\ Len(appts') = n /\ appts'[n] = RowOf(e) /\ Len(appts) \in Nat
          /\ \A m \in DOMAIN appts : appts'[m] = appts[m]
      BY <1>2, <2>1
    <3>2. DOMAIN appts' = 1 .. n /\ DOMAIN appts = 1 .. Len(appts)
      BY <1>2, <3>1
    <3> QED
      BY <3>1, <3>2
  <2> HIDE DEF n, after
  <2>3. \A m \in DOMAIN appts : ~About(appts[m], e)
    BY <1>3
  <2> QED
    BY <1>2, <2>1, <2>2, <2>3 DEF after
<1>4. CASE known # {}
  <2>1. PICK n \in known : appts' = [appts EXCEPT ![n] = RowOf(e)] /\ after(n)
    BY <1>4 DEF Upsert
  <2>2. /\ appts' \in Seq(Row) /\ DOMAIN appts' = DOMAIN appts /\ appts'[n] = RowOf(e)
        /\ \A m \in DOMAIN appts \ {n} : appts'[m] = appts[m]
    BY <1>2, <2>1
  <2>3. ASSUME NEW m \in DOMAIN appts \ {n}
        PROVE  ~About(appts[m], e)
    <3>1. About(appts[n], e)
      BY <2>1
    <3> QED
      BY <2>3, <3>1 DEF About, Consistent, OneRowEach, Address
  <2> HIDE DEF after
  <2>4. n \in DOMAIN appts /\ About(appts[n], e)
    BY <2>1
  <2> QED
    BY <1>2, <2>1, <2>2, <2>3, <2>4 DEF after
<1> QED
  BY <1>3, <1>4

LEMMA UpsertStep ==
  ASSUME Consistent, Upsert
  PROVE  Consistent'
<1> DEFINE t == task["webhook"]
           e == t.event
<1>1. "webhook" \in Workers /\ t.pc = "upsert" /\ t \in Task
  BY Before DEF Workers, Upsert
<1>2. e \in Events /\ appts' \in Seq(Row) /\ \E m \in DOMAIN received : e = received[m]
  BY UpsertRow
<1>3. PICK n \in DOMAIN appts' :
        /\ GoesTo("webhook", [t EXCEPT !.pc = "list", !.appt = n])
        /\ due' = [overtaken |-> due.overtaken \cup Readers(n), conflicts |-> TRUE, jobs |-> IF e.provider \in Copied
                     THEN due.jobs \cup {n} ELSE due.jobs]
        /\ appts'[n] = RowOf(e)
        /\ DOMAIN appts' = DOMAIN appts \cup {n}
        /\ \A m \in DOMAIN appts \ {n} : appts'[m] = appts[m] /\ ~About(appts[m], e)
        /\ n \in DOMAIN appts => About(appts[n], e)
  BY UpsertRow
<1> DEFINE u == [t EXCEPT !.pc = "list", !.appt = n]
<1>4. n \in Nat /\ u \in Task /\ u.pc = "list" /\ u.event = e /\ u.appt = n
  <2>1. n \in Nat
    BY <1>2
  <2> QED
    BY <1>1, <2>1 DEF Task
<1>5. TypeOK'
  <2>1. due' \in Due
    BY <1>1, <1>3, <1>4, Before DEF Due, Readers
  <2>2. task' \in [Workers -> Task] /\ reply' = None
    BY <1>3, <1>4 DEF GoesTo, Consistent, TypeOK
  <2> QED
    BY <1>2, <2>1, <2>2 DEF Upsert, Consistent, TypeOK
<1>6. OneRowEach'
  <2>1. SUFFICES ASSUME NEW k \in DOMAIN appts', NEW m \in DOMAIN appts',
                        Address(appts'[k]) = Address(appts'[m])
                 PROVE  k = m
    BY DEF OneRowEach, Address
  <2>2. appts'[n].provider = e.provider /\ appts'[n].external = e.external
    BY <1>2, <1>3, EventType
  <2>3. \A l \in DOMAIN appts \ {n} : Address(appts'[l]) # Address(appts'[n])
    BY <1>3, <2>2 DEF About, Address
  <2> QED
    BY <1>3, <2>1, <2>3 DEF Consistent, OneRowEach
<1>7. RecordedOnce' /\ RowsWereSent'
  BY <1>2, <1>3 DEF Upsert, Consistent, RecordedOnce, RowsWereSent
<1>8. ASSUME NEW w \in Workers
      PROVE  Form(w)'
  <2>1. received' = received /\ DOMAIN appts \subseteq DOMAIN appts'
    BY <1>3 DEF Upsert
  <2>2. CASE w = "webhook"
    <3>1. task'[w] = u
      BY <1>3, <2>2 DEF GoesTo, Consistent, TypeOK
    <3>2. About(appts'[n], e)
      BY <1>2, <1>3, EventType
    <3> QED
      BY <1>2, <1>4, <2>1, <2>2, <3>1, <3>2 DEF Form
  <2>3. CASE w # "webhook"
    <3>1. task'[w] = task[w] /\ Form(w)
      BY <1>3, <2>3 DEF GoesTo, Consistent, TypeOK
    <3> QED
      BY <2>1, <2>3, <3>1 DEF Form
  <2> QED
    BY <2>2, <2>3
<1> QED
  BY <1>5, <1>6, <1>7, <1>8 DEF Consistent

LEMMA Initially == Init => Consistent
<1> SUFFICES ASSUME Init
             PROVE  Consistent
  OBVIOUS
<1>1. TypeOK
  BY IdleType DEF Init, TypeOK, Due
<1>2. OneRowEach /\ RecordedOnce /\ RowsWereSent
  BY DEF Init, OneRowEach, RecordedOnce, RowsWereSent
<1>3. \A w \in Workers : Form(w)
  BY IdleType DEF Init, Form
<1> QED
  BY <1>1, <1>2, <1>3 DEF Consistent

LEMMA Inductive ==
  ASSUME Consistent, [Next]_vars
  PROVE  Consistent'
<1>1. CASE UNCHANGED vars
  BY <1>1 DEF vars, Consistent, TypeOK, OneRowEach, RecordedOnce, RowsWereSent, Form, Address
<1> QED
  BY <1>1, ReceiveStep, UpsertStep, ListStep, ReplaceStep, PlanStep, CreateJobStep,
     DeadLetterStep, FailStep, CallStep DEF Next

\* The invariant of the tables and the tasks.
THEOREM Invariance == Spec => []Consistent
  BY Initially, Inductive, PTL DEF Spec

-----------------------------------------------------------------------------
(***************************************************************************)
(* Refinement of Feed.                                                     *)
(***************************************************************************)

LEMMA ContentsAt ==
  ASSUME NEW table,
         \A m, n \in DOMAIN table : Address(table[m]) = Address(table[n]) => m = n,
         NEW k \in DOMAIN table
  PROVE  Contents(table)[Address(table[k])] = table[k]
<1> DEFINE at == CHOOSE n \in DOMAIN table : Address(table[n]) = Address(table[k])
<1>1. at \in DOMAIN table /\ Address(table[at]) = Address(table[k])
  OBVIOUS
<1>2. at = k
  BY <1>1
<1> QED
  BY <1>2 DEF Contents

LEMMA ContentsPut ==
  ASSUME Consistent, Upsert
  PROVE  Contents(appts)' = Webhooks!Put(task["webhook"].event)
<1> DEFINE e == task["webhook"].event
           old == Contents(appts)
           new == Contents(appts')
<1>1. PICK n \in DOMAIN appts' :
        /\ appts'[n] = RowOf(e)
        /\ DOMAIN appts' = DOMAIN appts \cup {n}
        /\ \A m \in DOMAIN appts \ {n} : appts'[m] = appts[m] /\ ~About(appts[m], e)
        /\ n \in DOMAIN appts => About(appts[n], e)
  BY UpsertRow
<1>2. Address(appts'[n]) = Address(e)
  BY <1>1, UpsertRow, EventType DEF Address
<1>3. /\ \A k, m \in DOMAIN appts : Address(appts[k]) = Address(appts[m]) => k = m
      /\ \A k, m \in DOMAIN appts' : Address(appts'[k]) = Address(appts'[m]) => k = m
  <2>1. Consistent'
    BY UpsertStep
  <2> QED
    BY <2>1 DEF Consistent, OneRowEach, Address
<1>4. \A m \in DOMAIN appts \ {n} : Address(appts'[m]) = Address(appts[m])
                                    /\ Address(appts[m]) # Address(e)
  BY <1>1 DEF About, Address
<1>5. n \in DOMAIN appts => Address(appts[n]) = Address(e)
  BY <1>1 DEF About, Address
<1>6. /\ DOMAIN old = {Address(appts[m]) : m \in DOMAIN appts}
      /\ DOMAIN new = {Address(appts'[m]) : m \in DOMAIN appts'}
  BY DEF Contents
<1>7. DOMAIN new = DOMAIN old \cup {Address(e)}
  BY <1>1, <1>2, <1>4, <1>5, <1>6
<1>8. new[Address(e)] = RowOf(e)
  BY <1>1, <1>2, <1>3, ContentsAt
<1>9. ASSUME NEW address \in DOMAIN old, address # Address(e)
      PROVE  new[address] = old[address]
  <2>1. PICK m \in DOMAIN appts : address = Address(appts[m])
    BY <1>6
  <2>2. m # n /\ m \in DOMAIN appts'
    BY <1>1, <1>5, <1>9, <2>1
  <2>3. old[address] = appts[m]
    BY <1>3, <2>1, ContentsAt
  <2>4. new[address] = appts'[m]
    BY <1>3, <1>4, <2>1, <2>2, ContentsAt
  <2> QED
    BY <1>1, <2>1, <2>2, <2>3, <2>4
<1>10. new = [address \in DOMAIN new |-> new[address]]
  BY DEF Contents
<1>11. Webhooks!Put(e) = [address \in DOMAIN old \cup {Address(e)} |->
                            IF address = Address(e) THEN RowOf(e) ELSE old[address]]
  BY DEF Webhooks!Put
<1> HIDE DEF new, old
<1>12. new = Webhooks!Put(e)
  BY <1>7, <1>8, <1>9, <1>10, <1>11
<1> QED
  BY <1>12 DEF new

\* The keys of the webhooks, and what becomes of the one in flight.
LEMMA TakesKey ==
  ASSUME Consistent, task["webhook"].pc = "upsert", task'["webhook"].pc # "upsert",
         received' = received
  PROVE  LET e == task["webhook"].event
         IN e \in Events /\ Key(e) \notin TakenKeys /\ TakenKeys' = TakenKeys \cup {Key(e)}
<1> DEFINE e == task["webhook"].event
<1>1. e \in Events /\ \E n \in DOMAIN received : e = received[n]
  BY Before DEF Workers, FormOf
<1>2. TakenKeys = {Key(received[n]) : n \in DOMAIN received} \ {Key(e)}
  BY DEF TakenKeys
<1>3. TakenKeys' = {Key(received[n]) : n \in DOMAIN received}
  BY DEF TakenKeys
<1> QED
  BY <1>1, <1>2, <1>3

\* Webhooks repeated, reordered and cut off by failures take effect as in Feed: each at most
\* once, whole or not at all.
THEOREM Refinement == Spec => ImplementsFeed
<1>1. Init => Webhooks!Init
  <2> SUFFICES ASSUME Init
               PROVE  TakenKeys = {} /\ Contents(appts) = [address \in {} |-> {}]
    BY DEF Webhooks!Init
  <2>1. DOMAIN received = {} /\ DOMAIN appts = {}
    BY DEF Init
  <2>2. TakenKeys = {}
    BY <2>1 DEF TakenKeys
  <2>3. Contents(appts) = [address \in {} |-> {}]
    BY <2>1 DEF Contents
  <2> QED
    BY <2>2, <2>3
<1>2. ASSUME Consistent, [Next]_vars
      PROVE  [Webhooks!Next]_(Webhooks!vars)
  <2> DEFINE t == task["webhook"]
  <2>1. ASSUME received' = received, appts' = appts, task'["webhook"].pc # "upsert",
               t.pc # "upsert"
        PROVE  UNCHANGED Webhooks!vars
    BY <2>1 DEF Webhooks!vars, TakenKeys
  <2>2. ASSUME UNCHANGED <<received, appts, task>>
        PROVE  UNCHANGED Webhooks!vars
    BY <2>2 DEF Webhooks!vars, TakenKeys
  <2>3. ASSUME NEW w \in Workers, NEW u \in Task, u.pc # "upsert", w # "webhook" \/ t.pc # "upsert",
               task' = [task EXCEPT ![w] = u], received' = received, appts' = appts
        PROVE  UNCHANGED Webhooks!vars
    <3>1. CASE w = "webhook"
      <4>1. task'["webhook"] = u
        BY <2>3, <3>1, <1>2 DEF Consistent, TypeOK
      <4> QED
        BY <2>1, <2>3, <3>1, <4>1
    <3>2. CASE w # "webhook"
      <4>1. task'["webhook"] = t
        BY <1>2, <2>3, <3>2 DEF Consistent, TypeOK
      <4> QED
        BY <2>3, <4>1 DEF Webhooks!vars, TakenKeys
    <3> QED
      BY <3>1, <3>2
  <2>4. ASSUME NEW e \in Events, Receive(e)
        PROVE  UNCHANGED Webhooks!vars
    <3>1. CASE UNCHANGED <<received, task>>
      BY <2>2, <2>4, <3>1 DEF Receive
    <3>2. CASE /\ ~Recorded(e) /\ received' = Append(received, e)
               /\ GoesTo("webhook", [t EXCEPT !.pc = "upsert", !.event = e])
      <4>1. task'["webhook"].pc = "upsert" /\ task'["webhook"].event = e /\ t.pc = "idle"
        BY <1>2, <2>4, <3>2, Before DEF GoesTo, Receive, Consistent, TypeOK, Task, Workers
      <4>2. /\ received \in Seq(Events) /\ received' = Append(received, e)
            /\ DOMAIN received = 1 .. Len(received) /\ Len(received) \in Nat
            /\ DOMAIN received' = 1 .. Len(received) + 1 /\ received'[Len(received) + 1] = e
            /\ \A n \in DOMAIN received : received'[n] = received[n]
        BY <1>2, <3>2 DEF Consistent, TypeOK
      <4>3. DOMAIN received' = DOMAIN received \cup {Len(received) + 1}
        BY <4>2
      <4>4. \A n \in DOMAIN received : Key(received[n]) # Key(e)
        BY <3>2 DEF Recorded, SameKey, Key
      <4>5. TakenKeys = {Key(received[n]) : n \in DOMAIN received}
        BY <4>1 DEF TakenKeys
      <4>6. TakenKeys' = {Key(received'[n]) : n \in DOMAIN received'} \ {Key(e)}
        BY <4>1 DEF TakenKeys
      <4>7. TakenKeys' = TakenKeys
        BY <4>2, <4>3, <4>4, <4>5, <4>6
      <4> QED
        BY <2>4, <4>7 DEF Receive, Webhooks!vars
    <3> QED
      BY <2>4, <3>1, <3>2 DEF Receive
  <2>5. CASE Upsert
    <3>1. task'["webhook"].pc # "upsert" /\ t.pc = "upsert" /\ received' = received
      <4>1. PICK n : GoesTo("webhook", [t EXCEPT !.pc = "list", !.appt = n])
        BY <1>2, <2>5, UpsertRow
      <4>2. t \in Task /\ task'["webhook"] = [t EXCEPT !.pc = "list", !.appt = n]
        BY <1>2, <4>1 DEF GoesTo, Consistent, TypeOK, Workers
      <4>3. task'["webhook"].pc = "list"
        BY <4>2 DEF Task
      <4> QED
        BY <2>5, <4>3 DEF Upsert
    <3>2. Webhooks!Take(t.event)
      BY <1>2, <2>5, <3>1, TakesKey, ContentsPut DEF Webhooks!Take
    <3> QED
      BY <1>2, <3>1, <3>2, TakesKey DEF Webhooks!Next
  <2>6. ASSUME NEW w \in Workers, Fail(w)
        PROVE  Webhooks!Next \/ UNCHANGED Webhooks!vars
    <3>1. CASE w = "webhook" /\ t.pc = "upsert"
      <4>1. task'["webhook"].pc # "upsert" /\ received' = received /\ appts' = appts
        BY <1>2, <2>6, <3>1, IdleType DEF Fail, Answers, tables, Consistent, TypeOK
      <4>2. Webhooks!Take(t.event)
        BY <1>2, <3>1, <4>1, TakesKey DEF Webhooks!Take
      <4> QED
        BY <1>2, <3>1, <4>1, <4>2, TakesKey DEF Webhooks!Next
    <3>2. CASE w # "webhook" \/ t.pc # "upsert"
      BY <2>3, <2>6, <3>2, IdleType DEF Fail, Answers, tables
    <3> QED
      BY <3>1, <3>2
  <2>7. ASSUME NEW w \in Workers,
               List(w) \/ Replace(w) \/ Plan(w) \/ CreateJob(w) \/ DeadLetter(w)
                 \/ (w \in Admins /\ Call(w))
        PROVE  UNCHANGED Webhooks!vars
    <3>1. received' = received /\ appts' = appts
      BY <2>7 DEF List, Replace, Plan, CreateJob, DeadLetter, Call, tables
    <3>2. t.pc # "upsert" \/ w # "webhook"
      BY <2>7, AdminAssumption DEF List, Replace, Plan, CreateJob, DeadLetter
    <3>3. ASSUME NEW u, GoesTo(w, u), u.pc # "upsert"
          PROVE  UNCHANGED Webhooks!vars
      <4>1. task'["webhook"] = IF w = "webhook" THEN u ELSE t
        BY <1>2, <3>3 DEF GoesTo, Consistent, TypeOK, Workers
      <4> QED
        BY <3>1, <3>2, <3>3, <4>1 DEF Webhooks!vars, TakenKeys
    <3>4. ASSUME NEW is, Answers(w, is)
          PROVE  UNCHANGED Webhooks!vars
      BY <2>3, <3>1, <3>2, <3>4, IdleType DEF Answers
    <3>5. task[w] \in Task
      BY <1>2, Before
    <3>6. CASE List(w)
      BY <3>3, <3>4, <3>5, <3>6 DEF List, Task
    <3>7. CASE Replace(w)
      BY <3>3, <3>4, <3>5, <3>7 DEF Replace, Task
    <3>8. CASE Plan(w)
      BY <3>3, <3>5, <3>8 DEF Plan, Task
    <3>9. CASE CreateJob(w)
      BY <3>3, <3>4, <3>5, <3>9 DEF CreateJob, Task
    <3>10. CASE DeadLetter(w)
      BY <3>4, <3>10 DEF DeadLetter
    <3>11. CASE w \in Admins /\ Call(w)
      BY <3>3, <3>11, IdleType DEF Call, Task
    <3> QED
      BY <2>7, <3>6, <3>7, <3>8, <3>9, <3>10, <3>11
  <2>8. CASE UNCHANGED vars
    BY <2>2, <2>8 DEF vars
  <2> QED
    BY <1>2, <2>4, <2>5, <2>6, <2>7, <2>8 DEF Next, Workers
<1>3. [][Next]_vars /\ []Consistent => [][Webhooks!Next]_(Webhooks!vars)
  BY <1>2, PTL
<1> QED
  BY <1>1, <1>3, Invariance, PTL DEF Spec, ImplementsFeed, Webhooks!Spec

-----------------------------------------------------------------------------
(***************************************************************************)
(* The conflicts and the jobs, whoever reconciles and plans beside.        *)
(***************************************************************************)

\* Two active appointments overlap iff some instant is in both.
LEMMA OverlapIsInstant ==
  ASSUME NEW a \in Row, NEW b \in Row
  PROVE  Covered(a) \cap Covered(b) # {} <=> Active(a) /\ Active(b) /\ Overlapping(a, b)
<1>1. CASE ~Active(a) \/ ~Active(b)
  BY <1>1 DEF Covered
<1>2. CASE Active(a) /\ Active(b)
  <2>1. /\ a.start \in Times /\ a.end \in Int /\ b.start \in Times /\ b.end \in Int
        /\ \A t \in Times : t \in Int
    BY <1>2, ActiveTimes, HorizonAssumption DEF Times
  <2>2. Covered(a) \cap Covered(b)
          = {t \in Times : a.start <= t /\ t < a.end /\ b.start <= t /\ t < b.end}
    BY <1>2 DEF Covered
  <2>3. ASSUME Overlapping(a, b)
        PROVE  Larger(a.start, b.start) \in Covered(a) \cap Covered(b)
    BY <2>1, <2>2, <2>3 DEF Overlapping, Larger, Smaller
  <2>4. ASSUME NEW t \in Covered(a) \cap Covered(b)
        PROVE  Overlapping(a, b)
    BY <2>1, <2>2, <2>4 DEF Overlapping, Larger, Smaller
  <2> QED
    BY <1>2, <2>3, <2>4
<1> QED
  BY <1>1, <1>2

LEMMA DetectsAll ==
  ASSUME NEW rows \in Seq(Row), NEW i \in DOMAIN rows, NEW j \in DOMAIN rows, i < j
  PROVE  (\E c \in Detect(rows) : c.a = i /\ c.b = j)
           <=> Covered(rows[i]) \cap Covered(rows[j]) # {}
<1>1. rows[i] \in Row /\ rows[j] \in Row
  OBVIOUS
<1>2. \A k, l : ConflictOf(rows, k, l).a = k /\ ConflictOf(rows, k, l).b = l
  BY DEF ConflictOf
<1> DEFINE Meet(k, l) == Active(rows[k]) /\ Active(rows[l]) /\ Overlapping(rows[k], rows[l])
<1>3. ASSUME Meet(i, j)
      PROVE  \E c \in Detect(rows) : c.a = i /\ c.b = j
  <2>1. ConflictOf(rows, i, j) \in Detect(rows)
    <3>1. <<i, j>> \in {p \in (DOMAIN rows) \X (DOMAIN rows) :
                          /\ p[1] < p[2] /\ Active(rows[p[1]]) /\ Active(rows[p[2]])
                          /\ Overlapping(rows[p[1]], rows[p[2]])}
      BY <1>3
    <3> QED
      BY <3>1 DEF Detect
  <2> QED
    BY <1>2, <2>1
<1>4. ASSUME NEW c \in Detect(rows), c.a = i, c.b = j
      PROVE  Meet(i, j)
  <2>1. PICK p \in (DOMAIN rows) \X (DOMAIN rows) :
          /\ Meet(p[1], p[2]) /\ c = ConflictOf(rows, p[1], p[2])
    BY DEF Detect
  <2>2. p[1] = i /\ p[2] = j
    BY <1>2, <1>4, <2>1
  <2> QED
    BY <2>1, <2>2
<1> QED
  BY <1>1, <1>3, <1>4, OverlapIsInstant

\* What a task has read and is about to write is still so, unless a change has overtaken it.
UpToDate(t, overtaken) ==
  /\ t.pc = "replace" /\ ~overtaken => t.found = Detect(appts)
  /\ t.pc = "job" =>
       /\ t.appt \in DOMAIN appts /\ t.draft.appt = t.appt /\ t.draft.target = t.target
       /\ ~overtaken => t.draft = JobFor(t.appt, appts[t.appt], t.target)

\* job is the last one of its appointment for the calendar.
IsLast(job, table) ==
  \E n \in DOMAIN table :
    /\ table[n] = job
    /\ \A m \in DOMAIN table : table[m].appt = job.appt /\ table[m].target = "google" => m <= n

PlannedLast(id) ==
  appts[id].provider \in Copied /\ id \notin due.jobs => IsLast(JobFor(id, appts[id], "google"), jobs)

\* The conflicts and the jobs, but for what is due.
Current ==
  /\ \A w \in Workers : UpToDate(task[w], w \in due.overtaken)
  /\ ~due.conflicts => conflicts = Detect(appts)
  /\ \A id \in DOMAIN appts : PlannedLast(id)

LEMMA CurrentTask ==
  ASSUME Consistent, Current, NEW w \in Workers, NEW u, UpToDate(u, FALSE),
         task' = [task EXCEPT ![w] = u], UNCHANGED appts,
         due.overtaken \subseteq due'.overtaken \cup {w},
         ~due'.conflicts => conflicts' = Detect(appts),
         \A id \in DOMAIN appts : PlannedLast(id)'
  PROVE  Current'
<1>1. \A v \in Workers : task'[v] = IF v = w THEN u ELSE task[v]
  BY DEF Consistent, TypeOK
<1>2. ASSUME NEW v \in Workers
      PROVE  UpToDate(task'[v], v \in due'.overtaken)
  <2>1. CASE v = w
    BY <1>1, <2>1 DEF UpToDate
  <2>2. CASE v # w
    <3>1. task'[v] = task[v] /\ (v \in due.overtaken => v \in due'.overtaken)
      BY <1>1, <2>2
    <3> QED
      BY <3>1 DEF Current, UpToDate
  <2> QED
    BY <2>1, <2>2
<1> QED
  BY <1>2 DEF Current, UpToDate

\* A step that writes neither conflicts nor jobs.
LEMMA CurrentQuiet ==
  ASSUME Consistent, Current, NEW w \in Workers, NEW u, UpToDate(u, FALSE),
         task' = [task EXCEPT ![w] = u], UNCHANGED <<appts, conflicts, jobs>>,
         due.overtaken \subseteq due'.overtaken \cup {w},
         due'.conflicts = due.conflicts, due'.jobs = due.jobs
  PROVE  Current'
<1>1. \A id \in DOMAIN appts : PlannedLast(id)'
  BY DEF Current, PlannedLast
<1>2. ~due'.conflicts => conflicts' = Detect(appts)
  BY DEF Current
<1> QED
  BY <1>1, <1>2, CurrentTask

LEMMA CurrentAnswer ==
  ASSUME Consistent, Current, NEW w \in Workers, NEW is, Answers(w, is),
         UNCHANGED <<appts, conflicts, jobs>>,
         due.overtaken \subseteq due'.overtaken \cup {w},
         due'.conflicts = due.conflicts, due'.jobs = due.jobs
  PROVE  Current'
<1>1. UpToDate(Idle, FALSE)
  BY IdleType DEF UpToDate
<1> QED
  BY <1>1, CurrentQuiet DEF Answers

LEMMA CurrentUpsert ==
  ASSUME Consistent, Current, Upsert
  PROVE  Current'
<1> DEFINE e == task["webhook"].event
<1>1. PICK n \in DOMAIN appts' :
        /\ GoesTo("webhook", [task["webhook"] EXCEPT !.pc = "list", !.appt = n])
        /\ due' = [overtaken |-> due.overtaken \cup Readers(n), conflicts |-> TRUE,
                   jobs |-> IF e.provider \in Copied THEN due.jobs \cup {n} ELSE due.jobs]
        /\ appts'[n] = RowOf(e)
        /\ DOMAIN appts' = DOMAIN appts \cup {n}
        /\ \A m \in DOMAIN appts \ {n} : appts'[m] = appts[m]
  BY UpsertRow
<1> DEFINE u == [task["webhook"] EXCEPT !.pc = "list", !.appt = n]
<1>2. /\ u.pc = "list" /\ "webhook" \in Workers
      /\ \A v \in Workers : task'[v] = IF v = "webhook" THEN u ELSE task[v]
  BY <1>1, Before DEF Workers, Task, GoesTo, Consistent, TypeOK
<1>3. ASSUME NEW v \in Workers
      PROVE  UpToDate(task[v], v \in due.overtaken)'
  <2>1. CASE v = "webhook"
    BY <1>2, <2>1 DEF UpToDate
  <2>2. CASE v # "webhook"
    <3>1. task'[v] = task[v] /\ UpToDate(task[v], v \in due.overtaken)
      BY <1>2, <2>2 DEF Current
    <3>2. v \in due'.overtaken <=> v \in due.overtaken \/ v \in Readers(n)
      BY <1>1
    <3>3. task[v].pc = "replace" => v \in due'.overtaken
      BY <3>2 DEF Readers
    <3>4. ASSUME task[v].pc = "job", v \notin due'.overtaken
          PROVE  task[v].appt # n
      BY <3>2, <3>4 DEF Readers
    <3> QED
      BY <1>1, <3>1, <3>2, <3>3, <3>4 DEF UpToDate
  <2> QED
    BY <2>1, <2>2
<1>4. ASSUME NEW id \in DOMAIN appts'
      PROVE  PlannedLast(id)'
  <2>1. CASE id = n
    <3>1. appts'[id].provider = e.provider
      BY <1>1, <2>1 DEF RowOf
    <3> QED
      BY <1>1, <2>1, <3>1 DEF PlannedLast
  <2>2. CASE id # n
    <3>1. /\ id \in DOMAIN appts /\ appts'[id] = appts[id] /\ jobs' = jobs
          /\ id \in due.jobs => id \in due'.jobs
      BY <1>1, <2>2 DEF Upsert
    <3> QED
      BY <3>1 DEF Current, PlannedLast
  <2> QED
    BY <2>1, <2>2
<1> QED
  BY <1>1, <1>3, <1>4 DEF Current, UpToDate

LEMMA CurrentReplace ==
  ASSUME Consistent, Current, NEW w \in Workers, Replace(w)
  PROVE  Current'
<1> DEFINE u == [task[w] EXCEPT !.pc = "plan", !.found = {}]
<1>1. /\ task[w] \in Task /\ due \in Due
      /\ task' = [task EXCEPT ![w] = u] \/ task' = [task EXCEPT ![w] = Idle]
  BY Before DEF Replace, GoesTo, Answers
<1>2. UpToDate(u, FALSE) /\ UpToDate(Idle, FALSE)
  BY <1>1, IdleType DEF Task, UpToDate
<1>3. /\ due'.conflicts = (w \in due.overtaken) /\ due'.jobs = due.jobs
      /\ due.overtaken \subseteq due'.overtaken \cup {w}
  BY <1>1 DEF Replace, Due
<1>4. ~due'.conflicts => conflicts' = Detect(appts)
  BY <1>3 DEF Replace, Current, UpToDate
<1>5. \A id \in DOMAIN appts : PlannedLast(id)'
  BY <1>3 DEF Replace, Current, PlannedLast
<1> HIDE DEF u
<1> QED
  BY <1>1, <1>2, <1>3, <1>4, <1>5, CurrentTask DEF Replace

\* A job that is appended is the last of its appointment, and leaves the others' last alone.
LEMMA LastAppended ==
  ASSUME NEW table \in Seq(Job), NEW job \in Job
  PROVE  /\ IsLast(job, Append(table, job))
         /\ \A other \in Job :
              IsLast(other, table) /\ ~(job.appt = other.appt /\ job.target = "google")
                => IsLast(other, Append(table, job))
<1> DEFINE new == Append(table, job)
<1>1. /\ Len(table) \in Nat /\ DOMAIN table = 1 .. Len(table)
      /\ DOMAIN new = 1 .. Len(table) + 1 /\ new[Len(table) + 1] = job
      /\ \A n \in DOMAIN table : new[n] = table[n]
  OBVIOUS
<1> HIDE DEF new
<1>2. IsLast(job, new)
  BY <1>1 DEF IsLast
<1>3. ASSUME NEW other \in Job, IsLast(other, table),
             ~(job.appt = other.appt /\ job.target = "google")
      PROVE  IsLast(other, new)
  <2>1. PICK n \in DOMAIN table :
          /\ table[n] = other
          /\ \A m \in DOMAIN table :
               table[m].appt = other.appt /\ table[m].target = "google" => m <= n
    BY <1>3 DEF IsLast
  <2>2. n \in DOMAIN new /\ new[n] = other
    BY <1>1, <2>1
  <2>3. \A m \in DOMAIN new : new[m].appt = other.appt /\ new[m].target = "google" => m <= n
    BY <1>1, <1>3, <2>1
  <2> QED
    BY <2>2, <2>3 DEF IsLast
<1> QED
  BY <1>2, <1>3 DEF new

LEMMA CurrentCreateJob ==
  ASSUME Consistent, Current, NEW w \in Workers, CreateJob(w)
  PROVE  Current'
<1> DEFINE t == task[w]
           u == [t EXCEPT !.pc = "dead", !.appt = Len(jobs) + 1]
<1>1. /\ t \in Task /\ due \in Due /\ t.draft \in Job /\ jobs \in Seq(Job) /\ appts \in Seq(Row)
      /\ task' = [task EXCEPT ![w] = u] \/ task' = [task EXCEPT ![w] = Idle]
      /\ jobs' = Append(jobs, t.draft) /\ UNCHANGED <<appts, conflicts>>
  BY Before DEF CreateJob, GoesTo, Answers, FormOf, Task
<1>2. UpToDate(u, FALSE) /\ UpToDate(Idle, FALSE)
  BY <1>1, IdleType DEF Task, UpToDate
<1>3. /\ due'.conflicts = due.conflicts
      /\ due.overtaken \subseteq due'.overtaken \cup {w}
      /\ due'.jobs = IF t.target # "google" THEN due.jobs
                     ELSE IF w \in due.overtaken THEN due.jobs \cup {t.appt}
                     ELSE due.jobs \ {t.appt}
  BY <1>1 DEF CreateJob, Due
<1>4. /\ t.draft.appt = t.appt /\ t.draft.target = t.target
      /\ w \notin due.overtaken => t.draft = JobFor(t.appt, appts[t.appt], t.target)
  BY DEF CreateJob, Current, UpToDate
<1>5. ASSUME NEW id \in DOMAIN appts, appts[id].provider \in Copied, id \notin due'.jobs
      PROVE  IsLast(JobFor(id, appts[id], "google"), jobs')
  <2> DEFINE job == JobFor(id, appts[id], "google")
  <2>1. CASE t.target = "google" /\ t.appt = id
    <3>1. t.draft = job
      BY <1>3, <1>4, <1>5, <2>1
    <3> QED
      BY <1>1, <3>1, LastAppended
  <2>2. CASE ~(t.target = "google" /\ t.appt = id)
    <3>1. job \in Job /\ job.appt = id
      <4>1. id \in Nat /\ appts[id] \in Row /\ "google" \in Providers
        BY <1>1 DEF Providers
      <4> QED
        BY <4>1, JobType DEF JobFor
    <3>2. IsLast(job, jobs)
      BY <1>3, <1>5, <2>2 DEF Current, PlannedLast
    <3> HIDE DEF job
    <3> QED
      BY <1>1, <1>4, <2>2, <3>1, <3>2, LastAppended DEF job
  <2> QED
    BY <2>1, <2>2
<1>6. \A id \in DOMAIN appts : PlannedLast(id)'
  BY <1>1, <1>5 DEF PlannedLast
<1>7. ~due'.conflicts => conflicts' = Detect(appts)
  BY <1>1, <1>3 DEF Current
<1> HIDE DEF u
<1> QED
  BY <1>1, <1>2, <1>3, <1>6, <1>7, CurrentTask

LEMMA CurrentStep ==
  ASSUME Consistent, Current, [Next]_vars
  PROVE  Current'
<1>1. /\ "webhook" \in Workers /\ due \in Due
      /\ \A w \in Workers : task[w] \in Task
      /\ \A w \in Admins : w \in Workers
  BY Before DEF Workers
<1>2. CASE UNCHANGED vars
  BY <1>2 DEF vars, Current, UpToDate, PlannedLast
<1>3. ASSUME NEW e \in Events, Receive(e)
      PROVE  Current'
  <2> DEFINE u == [task["webhook"] EXCEPT !.pc = "upsert", !.event = e]
  <2>1. UNCHANGED <<appts, conflicts, jobs, due>>
    BY <1>3 DEF Receive
  <2>2. CASE UNCHANGED task
    BY <2>1, <2>2 DEF Current, UpToDate, PlannedLast
  <2>3. CASE GoesTo("webhook", u)
    <3>1. UpToDate(u, FALSE)
      BY <1>1 DEF Task, UpToDate
    <3> QED
      BY <1>1, <2>1, <2>3, <3>1, CurrentQuiet DEF GoesTo
  <2> QED
    BY <1>3, <2>2, <2>3 DEF Receive
<1>4. ASSUME NEW w \in Workers, List(w)
      PROVE  Current'
  <2> DEFINE u == [task[w] EXCEPT !.pc = "replace", !.found = Detect(appts)]
  <2>1. UNCHANGED <<appts, conflicts, jobs, due>>
    BY <1>4 DEF List, tables
  <2>2. CASE GoesTo(w, u)
    <3>1. UpToDate(u, FALSE)
      BY <1>1 DEF Task, UpToDate
    <3> QED
      BY <1>1, <2>1, <2>2, <3>1, CurrentQuiet DEF GoesTo
  <2>3. CASE Answers(w, "error")
    BY <2>1, <2>3, CurrentAnswer
  <2> QED
    BY <1>4, <2>2, <2>3 DEF List
<1>5. ASSUME NEW w \in Workers, Plan(w)
      PROVE  Current'
  <2> DEFINE job == JobFor(task[w].appt, appts[task[w].appt], task[w].target)
             u == [task[w] EXCEPT !.pc = "job", !.draft = job]
  <2>1. UNCHANGED <<appts, conflicts, jobs, due>> /\ GoesTo(w, u) /\ task[w].appt \in DOMAIN appts
    BY <1>5, Before DEF Plan, tables, FormOf
  <2>2. UpToDate(u, FALSE)
    <3>1. u.pc = "job" /\ u.draft = job /\ u.appt = task[w].appt /\ u.target = task[w].target
      BY <1>1 DEF Task
    <3>2. job.appt = task[w].appt /\ job.target = task[w].target
      BY DEF JobFor
    <3> QED
      BY <2>1, <3>1, <3>2 DEF UpToDate
  <2> QED
    BY <1>1, <2>1, <2>2, CurrentQuiet DEF GoesTo
<1>6. ASSUME NEW w \in Workers, DeadLetter(w)
      PROVE  Current'
  BY <1>6, CurrentAnswer DEF DeadLetter
<1>7. ASSUME NEW w \in Workers, Fail(w)
      PROVE  Current'
  <2>1. /\ due'.conflicts = due.conflicts /\ due'.jobs = due.jobs
        /\ due.overtaken \subseteq due'.overtaken \cup {w}
    BY <1>1, <1>7 DEF Fail, Due
  <2> QED
    BY <1>7, <2>1, CurrentAnswer DEF Fail, tables
<1>8. ASSUME NEW w \in Admins, Call(w)
      PROVE  Current'
  <2>1. PICK u : GoesTo(w, u) /\ u.pc \in {"list", "plan"}
    <3>1. [Idle EXCEPT !.pc = "list"].pc = "list"
      BY IdleType DEF Task
    <3>2. \A id, target : [Idle EXCEPT !.pc = "plan", !.appt = id, !.target = target].pc = "plan"
      BY IdleType DEF Task
    <3>3. CASE GoesTo(w, [Idle EXCEPT !.pc = "list"])
      BY <3>1, <3>3
    <3>4. CASE \E id \in DOMAIN appts, target \in Providers :
                 GoesTo(w, [Idle EXCEPT !.pc = "plan", !.appt = id, !.target = target])
      BY <3>2, <3>4
    <3> QED
      BY <1>8, <3>3, <3>4 DEF Call
  <2>2. UpToDate(u, FALSE) /\ UNCHANGED <<appts, conflicts, jobs, due>>
    BY <1>8, <2>1 DEF Call, UpToDate, tables
  <2> QED
    BY <1>1, <2>1, <2>2, CurrentQuiet DEF GoesTo
<1> QED
  BY <1>2, <1>3, <1>4, <1>5, <1>6, <1>7, <1>8, CurrentUpsert, CurrentReplace, CurrentCreateJob
  DEF Next

LEMMA AlwaysCurrent == Spec => []Current
<1>1. Init => Current
  <2>1. ASSUME NEW rows, DOMAIN rows = {}
        PROVE  Detect(rows) = {}
    BY <2>1 DEF Detect
  <2> QED
    BY <2>1, IdleType DEF Init, Current, UpToDate
<1>2. Consistent /\ Current /\ [Next]_vars => Current'
  BY CurrentStep
<1> QED
  BY <1>1, <1>2, Invariance, PTL DEF Spec

\* The conflicts are those of the table whenever no change waits to be reconciled and no
\* older reading was written last, whatever failed before and whoever reconciles beside.
THEOREM RadarCatchesUp == Spec => []RadarIsCurrent
<1>1. Consistent /\ Current => RadarIsCurrent
  BY DetectsAll DEF Consistent, TypeOK, Current, RadarIsCurrent, RadarIsRight
<1> QED
  BY <1>1, Invariance, AlwaysCurrent, PTL

\* The last job planned of an appointment makes the calendar's copy what the appointment is,
\* once its last change has been planned and unless an older plan by hand came last.
THEOREM CalendarCatchesUp == Spec => []CalendarFollows
<1>1. ASSUME Current, NEW id \in DOMAIN appts, appts[id].provider \in Copied, id \notin due.jobs
      PROVE  \E n \in DOMAIN jobs :
               /\ jobs[n].appt = id /\ jobs[n].target = "google"
               /\ jobs[n].op = "delete" <=> appts[id].status = "cancelled"
               /\ jobs[n].start = appts[id].start /\ jobs[n].end = appts[id].end
               /\ \A m \in DOMAIN jobs : jobs[m].appt = id /\ jobs[m].target = "google" => m <= n
  <2> DEFINE job == JobFor(id, appts[id], "google")
  <2>1. /\ job.appt = id /\ job.target = "google" /\ job.start = appts[id].start
        /\ job.end = appts[id].end /\ (job.op = "delete" <=> appts[id].status = "cancelled")
    BY DEF JobFor, Operation
  <2>2. IsLast(job, jobs)
    BY <1>1 DEF Current, PlannedLast
  <2> HIDE DEF job
  <2> QED
    BY <2>1, <2>2 DEF IsLast
<1>2. Current => CalendarFollows
  BY <1>1 DEF CalendarFollows
<1> QED
  BY <1>2, AlwaysCurrent, PTL
=============================================================================
