---------------------------- MODULE Appointments ----------------------------
(***************************************************************************)
(* The appointments table of app/models.py: its rows, the statuses they go *)
(* through (AppointmentLifecycle) and when two of them collide.            *)
(***************************************************************************)
EXTENDS Integers

CONSTANTS
  Clients,    \* users with role CLIENT
  Employees,  \* employees; an employee is also the user it is linked to
  Services,   \* bookable services
  Duration,   \* [Employees \X Services -> length], the override or the service's own
  Keys,       \* Idempotency-Key header values
  Ids,        \* appointment ids (bounds the appointments ever created)
  Horizon,    \* bounds the clock, and the starts asked for
  None        \* SQL NULL / Python None

Times == 0 .. Horizon

Statuses == {"BOOKED", "CONFIRMED", "IN_PROGRESS", "COMPLETED", "CANCELLED", "NO_SHOW"}

\* OCCUPYING_APPOINTMENT_STATUSES, and the predicate of the exclusion constraint.
Occupying == {"BOOKED", "CONFIRMED", "IN_PROGRESS"}

\* AppointmentLifecycle.ALLOWED_TRANSITIONS.
Allowed ==
  [s \in Statuses |->
     CASE s = "BOOKED"      -> {"CONFIRMED", "CANCELLED"}
       [] s = "CONFIRMED"   -> {"IN_PROGRESS", "CANCELLED", "NO_SHOW"}
       [] s = "IN_PROGRESS" -> {"COMPLETED"}
       [] OTHER             -> {}]

(***************************************************************************)
(* The request fingerprint (a SHA-256 of the canonical request) is the     *)
(* tuple it digests: two requests have the same print iff they ask for the *)
(* same employee, service, start and note.                                 *)
(***************************************************************************)

\* The client's own note, or that of a waitlist acceptance or of the assistant.
Notes  == {"own", "Waitlist match", "SlotBridge AI"}
Prints == [employee : Employees, service : Services, start : Times, note : Notes]

Row == [client : Clients, employee : Employees, service : Services, start : Times,
        status : Statuses, key : Keys, print : Prints]

\* The row a booking inserts.
NewRow(client, employee, service, start, key, note) ==
  [client |-> client, employee |-> employee, service |-> service, start |-> start,
   status |-> "BOOKED", key |-> key,
   print |-> [employee |-> employee, service |-> service, start |-> start, note |-> note]]

ASSUME DurationAssumption == Duration \in [Employees \X Services -> Nat \ {0}]
ASSUME HorizonAssumption  == Horizon \in Nat
ASSUME NoneAssumption     ==
  None \notin Row \cup Ids \cup Employees \cup Times \cup Statuses

End(row) == row.start + Duration[<<row.employee, row.service>>]

Occupies(row) == row.status \in Occupying

\* Half-open intervals [start, end), as in _has_overlap and in the tstzrange '[)'
\* of the exclusion constraint.
Overlap(a, b) == a.employee = b.employee /\ a.start < End(b) /\ b.start < End(a)

\* The two rows cannot both be in the table: ex_appointments_employee_time_active.
Clash(a, b) == Occupies(a) /\ Occupies(b) /\ Overlap(a, b)
\* Two versions of one booking: only the start and the status of a row ever change.
SameBooking(a, b) ==
  /\ a.client = b.client /\ a.employee = b.employee /\ a.service = b.service
  /\ a.key = b.key /\ a.print = b.print
=============================================================================
