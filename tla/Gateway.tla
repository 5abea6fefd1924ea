------------------------------ MODULE Gateway ------------------------------
(***************************************************************************)
(* The webhook gateway of app/core.py.  A webhook is recorded, written     *)
(* into the appointments, the conflicts are computed anew and a sync job   *)
(* is planned: four commits of a SQLite file, each of which may be the     *)
(* last.  Webhooks are handled one at a time (the handler is a coroutine   *)
(* that awaits nothing once it has the body); what administrators call     *)
(* runs in threads beside them.                                            *)
(***************************************************************************)
EXTENDS Integers, Sequences

CONSTANTS
  Events,   \* the webhooks that providers send, as their adapters normalise them
  Names,    \* event keys and external appointment ids
  Horizon,  \* bounds the times of appointments
  Admins,   \* request slots of administrators
  Calls,    \* what administrators call: "reconcile", "plan"
  MaxJobs,  \* bounds the sync jobs: none is planned by hand beyond
  None      \* SQL NULL, or a time that cannot be parsed

Times == 0 .. Horizon

Providers == {"mindbody", "vagaro", "google"}

\* The connectors whose capability has write_appointments.
Writable == {"mindbody", "google"}

\* The providers whose appointments are copied to the calendar.
Copied == {"mindbody", "vagaro"}

\* "zoned": the times carry a UTC offset (an all-day calendar entry has a date without).
Event == [provider : Providers, key : Names, external : Names, start : Times \cup {None},
          end : Times \cup {None}, zoned : BOOLEAN, status : {"scheduled", "cancelled"}]

Row == [provider : Providers, external : Names, start : Times \cup {None},
        end : Times \cup {None}, zoned : BOOLEAN, status : {"scheduled", "cancelled"}]

Job == [appt : Nat, target : Providers, op : {"upsert", "delete"},
        status : {"pending", "unsupported"}, start : Times \cup {None}, end : Times \cup {None}]

Conflict == [a : Nat, b : Nat, start : Times, end : Times, severity : {"critical", "major"}]

ASSUME HorizonAssumption == Horizon \in Nat
ASSUME NoneAssumption    == None \notin Nat \cup Event \cup Job
ASSUME EventAssumption   == Events \subseteq Event
ASSUME AdminAssumption   == "webhook" \notin Admins

Workers == {"webhook"} \cup Admins

VARIABLES
  received,   \* table webhooks, in the order of the commits
  appts,      \* table appointments: the row of id i is appts[i]
  conflicts,  \* table conflicts
  jobs,       \* table sync_jobs
  dead,       \* table dead_letters: the jobs that have one
  task,       \* what each worker does next
  reply,      \* the answer to a webhook that the last step sent, if it sent one
  due         \* history: the workers that rest on a reading of appts that a change has
              \* overtaken, and what the changes have left to be done

tables == <<received, appts, conflicts, jobs, dead>>
vars   == <<received, appts, conflicts, jobs, dead, task, reply, due>>

Task == [pc : {"idle", "upsert", "list", "replace", "plan", "job", "dead"},
         event : Event \cup {None}, appt : Nat, target : Providers,
         found : SUBSET Conflict, draft : Job \cup {None}]

Idle == [pc |-> "idle", event |-> None, appt |-> 0, target |-> "google",
         found |-> {}, draft |-> None]

Due == [overtaken : SUBSET Workers, conflicts : BOOLEAN, jobs : SUBSET Nat]

TypeOK ==
  /\ received \in Seq(Events)
  /\ appts \in Seq(Row)
  /\ conflicts \subseteq Conflict
  /\ jobs \in Seq(Job)
  /\ dead \subseteq Nat
  /\ task \in [Workers -> Task]
  /\ reply \in [event : Events \cup {None}, is : {"applied", "duplicate", "error"}] \cup {None}
  /\ due \in Due

Init ==
  /\ received = <<>> /\ appts = <<>> /\ conflicts = {} /\ jobs = <<>> /\ dead = {}
  /\ task = [w \in Workers |-> Idle]
  /\ reply = None
  /\ due = [overtaken |-> {}, conflicts |-> FALSE, jobs |-> {}]

-----------------------------------------------------------------------------
(***************************************************************************)
(* Conflicts.  (A Faulty... definition is a wrong variant of the one below *)
(* it, used by no specification: it shows what the properties would catch.)*)
(***************************************************************************)

Active(row) == row.status # "cancelled" /\ row.start # None /\ row.end # None

Larger(x, y)  == IF x < y THEN y ELSE x
Smaller(x, y) == IF x < y THEN x ELSE y

\* The row with the smaller id is taken to start first.
FaultyOverlapping(a, b) == a.start <= b.start /\ b.start < a.end

Overlapping(a, b) == Larger(a.start, b.start) < Smaller(a.end, b.end)

\* Times with and without an offset cannot be compared: TypeError.
Comparable(rows) ==
  \A i, j \in DOMAIN rows :
    Active(rows[i]) /\ Active(rows[j]) => rows[i].zoned = rows[j].zoned

ConflictOf(rows, i, j) ==
  [a |-> i, b |-> j,
   start |-> Larger(rows[i].start, rows[j].start), end |-> Smaller(rows[i].end, rows[j].end),
   severity |-> IF rows[i].provider # rows[j].provider THEN "critical" ELSE "major"]

\* detect_conflicts.
Detect(rows) ==
  {ConflictOf(rows, pair[1], pair[2]) : pair \in
     {p \in (DOMAIN rows) \X (DOMAIN rows) :
        /\ p[1] < p[2] /\ Active(rows[p[1]]) /\ Active(rows[p[2]])
        /\ Overlapping(rows[p[1]], rows[p[2]])}}

-----------------------------------------------------------------------------
(***************************************************************************)
(* The steps of ingest, reconcile and plan.                                *)
(***************************************************************************)

\* The answer of worker w, to its webhook if it has one.
Reply(w, is) == IF w = "webhook" THEN [event |-> task[w].event, is |-> is] ELSE None

GoesTo(w, t) == task' = [task EXCEPT ![w] = t] /\ reply' = None

Answers(w, is) == task' = [task EXCEPT ![w] = Idle] /\ reply' = Reply(w, is)

SameKey(e, f) == e.provider = f.provider /\ e.key = f.key

\* Any webhook is recorded.
FaultyRecorded(e) == FALSE

\* The constraint on webhooks(provider, event_key).
Recorded(e) == \E n \in DOMAIN received : SameKey(received[n], e)

\* A webhook arrives, for the first time or again.
Receive(e) ==
  /\ task["webhook"].pc = "idle"
  /\ \/ /\ Recorded(e)
        /\ reply' = [event |-> e, is |-> "duplicate"]
        /\ UNCHANGED <<received, task>>
     \/ /\ ~Recorded(e)
        /\ received' = Append(received, e)
        /\ GoesTo("webhook", [task["webhook"] EXCEPT !.pc = "upsert", !.event = e])
  /\ UNCHANGED <<appts, conflicts, jobs, dead, due>>

RowOf(e) == [provider |-> e.provider, external |-> e.external, start |-> e.start,
             end |-> e.end, zoned |-> e.zoned, status |-> e.status]

\* Cancelled appointments are not found again.
FaultyAbout(row, e) ==
  row.provider = e.provider /\ row.external = e.external /\ row.status # "cancelled"

About(row, e) == row.provider = e.provider /\ row.external = e.external

\* The workers that have read row n and are about to write what they made of it.
Readers(n) == {w \in Workers : task[w].pc = "replace" \/ (task[w].pc = "job" /\ task[w].appt = n)}

\* Updates the row of the appointment, or inserts one.
Upsert ==
  LET t == task["webhook"]
      known == {n \in DOMAIN appts : About(appts[n], t.event)}
  IN /\ t.pc = "upsert"
     /\ \E n \in IF known = {} THEN {Len(appts) + 1} ELSE known :
          /\ appts' = IF known = {} THEN Append(appts, RowOf(t.event))
                                    ELSE [appts EXCEPT ![n] = RowOf(t.event)]
          /\ GoesTo("webhook", [t EXCEPT !.pc = "list", !.appt = n])
          /\ due' = [overtaken |-> due.overtaken \cup Readers(n), conflicts |-> TRUE,
                     jobs |-> IF t.event.provider \in Copied THEN due.jobs \cup {n} ELSE due.jobs]
     /\ UNCHANGED <<received, conflicts, jobs, dead>>

\* reconcile reads the appointments and computes their conflicts.
List(w) ==
  /\ task[w].pc = "list"
  /\ \/ Comparable(appts) /\ GoesTo(w, [task[w] EXCEPT !.pc = "replace", !.found = Detect(appts)])
     \/ ~Comparable(appts) /\ Answers(w, "error")
  /\ UNCHANGED <<tables, due>>

\* reconcile replaces the table of conflicts; a webhook goes on to plan.
Replace(w) ==
  /\ task[w].pc = "replace"
  /\ conflicts' = task[w].found
  /\ due' = [due EXCEPT !.overtaken = @ \ {w}, !.conflicts = w \in due.overtaken]
  /\ IF w = "webhook" /\ task[w].event.provider \in Copied
     THEN GoesTo(w, [task[w] EXCEPT !.pc = "plan", !.found = {}])
     ELSE Answers(w, "applied")
  /\ UNCHANGED <<received, appts, jobs, dead>>

\* Cancellations are copied like any other change.
FaultyOperation(row) == "upsert"

Operation(row) == IF row.status = "cancelled" THEN "delete" ELSE "upsert"

JobFor(id, row, target) ==
  [appt |-> id, target |-> target, op |-> Operation(row),
   status |-> IF target \in Writable THEN "pending" ELSE "unsupported",
   start |-> row.start, end |-> row.end]

\* plan reads the appointment.
Plan(w) ==
  /\ task[w].pc = "plan"
  /\ GoesTo(w, [task[w] EXCEPT !.pc = "job",
                  !.draft = JobFor(task[w].appt, appts[task[w].appt], task[w].target)])
  /\ UNCHANGED <<tables, due>>

\* plan creates the job.
CreateJob(w) ==
  /\ task[w].pc = "job"
  /\ jobs' = Append(jobs, task[w].draft)
  /\ due' = [due EXCEPT !.overtaken = @ \ {w},
                        !.jobs = IF task[w].target # "google" THEN @
                                 ELSE IF w \in due.overtaken THEN @ \cup {task[w].appt}
                                 ELSE @ \ {task[w].appt}]
  /\ IF task[w].draft.status = "unsupported"
     THEN GoesTo(w, [task[w] EXCEPT !.pc = "dead", !.appt = Len(jobs) + 1])
     ELSE Answers(w, "applied")
  /\ UNCHANGED <<received, appts, conflicts, dead>>

\* plan writes the dead letter of a job that cannot be carried out.
DeadLetter(w) ==
  /\ task[w].pc = "dead"
  /\ dead' = dead \cup {task[w].appt}
  /\ Answers(w, "applied")
  /\ UNCHANGED <<received, appts, conflicts, jobs, due>>

\* An administrator calls /api/reconcile or /api/sync-plan.
Call(w) ==
  /\ task[w].pc = "idle"
  /\ \/ "reconcile" \in Calls /\ GoesTo(w, [Idle EXCEPT !.pc = "list"])
     \/ /\ "plan" \in Calls /\ Len(jobs) < MaxJobs
        /\ \E id \in DOMAIN appts, target \in Providers :
             GoesTo(w, [Idle EXCEPT !.pc = "plan", !.appt = id, !.target = target])
  /\ UNCHANGED <<tables, due>>

\* The database is locked for too long, or the process crashes: what is committed stays.
Fail(w) ==
  /\ task[w].pc # "idle"
  /\ Answers(w, "error")
  /\ due' = [due EXCEPT !.overtaken = @ \ {w}]
  /\ UNCHANGED tables

Next ==
  \/ \E e \in Events : Receive(e)
  \/ Upsert
  \/ \E w \in Workers : List(w) \/ Replace(w) \/ Plan(w) \/ CreateJob(w) \/ DeadLetter(w) \/ Fail(w)
  \/ \E w \in Admins : Call(w)

Spec == Init /\ [][Next]_vars
-----------------------------------------------------------------------------
(***************************************************************************)
(* Properties.                                                             *)
(***************************************************************************)

Address(e) == <<e.provider, e.external>>
Key(e)     == <<e.provider, e.key>>

\* The keys of the webhooks that are not about to be written.
TakenKeys ==
  {Key(received[n]) : n \in DOMAIN received}
    \ (IF task["webhook"].pc = "upsert" THEN {Key(task["webhook"].event)} ELSE {})

\* The rows as the feed sees them, without their ids.
Contents(table) ==
  [address \in {Address(table[n]) : n \in DOMAIN table} |->
     table[CHOOSE n \in DOMAIN table : Address(table[n]) = address]]

Webhooks == INSTANCE Feed WITH taken <- TakenKeys, rows <- Contents(appts), Content <- RowOf

\* Webhooks sent again, out of order and cut off by failures take effect as in Feed: at
\* most once, so that the repetition of an old one never undoes a newer one.
ImplementsFeed == Webhooks!Spec

\* The instants that an active appointment covers.
Covered(row) == IF Active(row) THEN {t \in Times : row.start <= t /\ t < row.end} ELSE {}

\* The conflicts are the pairs of appointments with an instant in common.
RadarIsRight ==
  \A i, j \in DOMAIN appts : i < j =>
    ((\E c \in conflicts : c.a = i /\ c.b = j) <=> Covered(appts[i]) \cap Covered(appts[j]) # {})

\* The conflicts are right after any failures and whoever else reconciles, once the last
\* change has been reconciled and unless an older reading has been written since.
RadarIsCurrent == ~due.conflicts => RadarIsRight

\* Right conflicts go wrong by a change of the appointments only, never by a reconciliation
\* (the dashboard: "active overlap(s) detected across normalized schedules").
ReconcilingIsHarmless == [][RadarIsRight => RadarIsRight' \/ appts' # appts]_vars

\* Once a change has been planned, and unless a plan by hand of an older reading has come
\* last, the last job of the appointment for the calendar makes it what it now is.
CalendarFollows ==
  \A id \in DOMAIN appts : appts[id].provider \in Copied /\ id \notin due.jobs =>
    \E n \in DOMAIN jobs :
      /\ jobs[n].appt = id /\ jobs[n].target = "google"
      /\ jobs[n].op = "delete" <=> appts[id].status = "cancelled"
      /\ jobs[n].start = appts[id].start /\ jobs[n].end = appts[id].end
      /\ \A m \in DOMAIN jobs : jobs[m].appt = id /\ jobs[m].target = "google" => m <= n

\* A webhook whose answer says "accepted" has been written.
AcceptedIsApplied ==
  [][reply' # None /\ reply'.is # "error" =>
       \E n \in DOMAIN appts' : About(appts'[n], reply'.event)]_vars
-----------------------------------------------------------------------------
(***************************************************************************)
(* The inductive invariant.                                                *)
(***************************************************************************)

\* A task has what its next step needs.
Form(w) ==
  LET t == task[w]
  IN /\ t.pc = "idle" => t = Idle
     /\ t.pc = "upsert" => w = "webhook"
     /\ w = "webhook" /\ t.pc # "idle" =>
          \E n \in DOMAIN received : t.event = received[n]
     /\ w = "webhook" /\ t.pc \in {"list", "replace", "plan"} =>
          t.appt \in DOMAIN appts /\ About(appts[t.appt], t.event)
     /\ t.pc = "plan" => t.appt \in DOMAIN appts
     /\ t.pc = "job" => t.draft # None

\* One row per appointment of a provider.
OneRowEach ==
  \A m, n \in DOMAIN appts : Address(appts[m]) = Address(appts[n]) => m = n

\* A webhook is recorded once.
RecordedOnce ==
  \A m, n \in DOMAIN received : SameKey(received[m], received[n]) => m = n

\* Each row is what some webhook said of it.
RowsWereSent ==
  \A n \in DOMAIN appts : \E m \in DOMAIN received : appts[n] = RowOf(received[m])

Consistent ==
  /\ TypeOK /\ OneRowEach /\ RecordedOnce /\ RowsWereSent
  /\ \A w \in Workers : Form(w)
=============================================================================
