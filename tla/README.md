# SlotBridge: specification and verification

SlotBridge lets clients book appointments with the employees of small service
organisations. A FastAPI backend (`src/app`) keeps everything in PostgreSQL; a
Flutter app (`src/mobile`) talks to it; an older webhook gateway
(`src/app/core.py`, `src/app/main.py`) copies appointments of external
providers into a SQLite file of its own.

This directory holds TLA+ models of that code, the TLC configurations that
check them on small instances, and TLAPS proofs of the properties that matter
most, for instances of any size. Paths below are relative to the repository.

1. [The system](#1-the-system)
2. [What is modelled](#2-what-is-modelled)
3. [What the runs check](#3-what-the-runs-check)
4. [What is proved](#4-what-is-proved)
5. [Abstractions and limits](#5-abstractions-and-limits)
6. [Findings](#6-findings)
7. [What is not modelled](#7-what-is-not-modelled)

To repeat the checks: `tlc -config MCBook.cfg MCBooking` (and so on for the
other configurations), `tlapm BookingProofs.tla` (and `CommitProofs`, `JourneyProofs`,
`GatewayProofs`, `IntervalProofs`, `CalendarProofs`, `ReviewsProofs`, `AssistantProofs`).

## 1. The system

### Components

**Appointments** (`app/models.py`, `app/services/booking.py`). An appointment
belongs to a client, an employee and a service, occupies a half-open interval of
time, has a status (`AppointmentStatus`) and the idempotency key and
fingerprint of the request that created it. Two constraints guard the table: an
exclusion constraint forbids two occupying appointments of one employee to
overlap, a unique constraint forbids a client to use a key twice.
*Correct when* the statuses move only along `ALLOWED_TRANSITIONS`, an ended
appointment stays as it is, and the history and audit tables explain the row.

**Booking engine** (`app/services/booking.py`, `app/api/appointments.py`).
`create`, `cancel`, `reschedule`, `change_status` and `create_journey`, each a
request of its own in a transaction of its own. State: the appointments, their
status history, their audit log. *Correct when* nobody is double-booked, a retry
under the same key books nothing new and is answered, no update is lost,
requests wait for each other in a circle only where nothing orders them (two clashing
writes, two releases of the same entries: PostgreSQL ends one of them, see section 6), and
concurrent requests come to the same as one after the other.

**Waitlist** (`app/services/waitlist.py`, `app/api/waitlist.py`). Entries with a
preferred window, `WAITING`, then `MATCHED` to a released slot, then `ACCEPTED`.
The booking engine calls `match_released_slot` inside the transaction that
cancels or moves an appointment; `accept_waitlist` calls the engine's `create`
inside its own. *Correct when* an entry is only matched to a slot that is given
up, and one match buys one appointment.

**Request transaction** (`app/database.py`, `get_db`). One session per request,
committed at the end, rolled back on any exception. *Correct when* an
answer the client holds is backed by a commit.

**Availability** (`app/services/availability.py`, `app/services/intervals.py`).
Pure functions of the schedule, the breaks, the blocked slots and the
appointments: merge intervals, subtract, lay a grid of slots over the rest.
*Correct when* the slots are exactly the grid points whose whole duration is
free.

**Schedule administration** (`app/api/schedules.py`,
`app/services/scheduling.py`). Work schedules, breaks, exceptions and blocked
slots, edited by staff while clients book. *Correct when* the exceptions of a
day never contradict each other.

**Smart Journey** (`app/services/journeys.py`, `app/api/journeys.py`,
`create_journey`). A planner searches routes through several services; the
booking of a route inserts several appointments under keys derived from one.
*Correct when* a journey is booked whole or not at all, its steps do not overlap
and its retry is replayed.

**Reviews** (`app/services/reviews.py`, `app/api/reviews.py`). Reviews of
completed appointments, their editing window, moderation, reports and replies.
*Correct when* an appointment has one review, a hidden review stays hidden until a
moderator shows it, every change is in the audit log and readers see what is published.

**AI assistant** (`app/api/ai.py`). Proposes actions in signed tokens and
performs them when the user confirms. *Correct when* a token books at most
once, only what was proposed to this user, and every chat is answered.

**Webhook gateway** (`app/core.py`, `app/main.py`). Records webhook events,
upserts provider appointments, detects overlaps between providers, plans
notification jobs, keeps a dead-letter list. Several commits per webhook.
*Correct when* every event delivered at least once takes effect exactly once and
the table of conflicts matches the appointments.

**Mobile flows** (`mobile/lib/features/booking`, `.../journey`). Controllers that
load slots and plans asynchronously while the user changes the selection, and
submit with idempotency keys. *Correct when* what is shown belongs to what is
selected and what is submitted is what is shown, once.

**Others**: authentication and roles, the catalogue, recommendations, review
moderation by an external service, health and version endpoints, migrations and
seeds, mobile screens and the Android updater. They are listed in
`PROJECT.json` with the reason each is left out.

### How they interact

    mobile flows --HTTP--> appointments / waitlist / journeys / ai / reviews
                                |            |
                   transaction (get_db)      | create
                                v            v
    availability <--reads-- booking engine --match_released_slot--> waitlist
          ^                     |
          | reads               | appointments, history, audit (PostgreSQL)
    schedule administration ----+
    providers --webhooks--> gateway (SQLite)

Requests run in parallel (worker threads, and any number of processes). They
share nothing but the database, and meet there in four ways: the advisory lock on
(client, key), row locks on appointments, row locks on waitlist entries, and the
wait for an uncommitted row that the exclusion constraint may or may not have to
refuse. In the last case the one that waits has put its own row into the table and its
indexes already: PostgreSQL checks an exclusion constraint after the insertion.

### What is hard about it

- *Interleaving.* The overlap query sees committed rows only. Two requests can
  both pass it; what happens then depends on the exclusion constraint, the order
  of the flushes, and whether the first one commits.
- *Retries.* The client retries under the same key while its first attempt may be
  unknown, in flight, committed, past, moved or cancelled.
- *Deadlock.* A cancellation holds a row and wants entries, an acceptance holds an
  entry and wants a key and a slot, a move holds a row, a slot and wants entries, a journey
  holds the slots of its earlier steps and wants the next. Nothing orders the entries two
  releases lock; and two clashing rows, each written before its own check, are in each
  other's way.
- *Partial failure.* A row, its history, its audit log and the waitlist entries
  change together or not at all.
- *Ordering.* A move changes the row object before it offers the slot the row
  *had*.
- *Stale reads.* Reviews and schedule rows are loaded without a lock and written column
  by column later; minutes pass between a proposal of the assistant and its confirmation.

The hazards, each at its line and with the properties that cover it, are in
`PROJECT.json`.

## 2. What is modelled

| Module | What it is |
|---|---|
| `Appointments` | rows, statuses, transitions, overlap: the vocabulary of the others |
| `Booking` | the booking engine and the waitlist as concurrent transactions |
| `Ledger` | what the engine promises: one whole operation at a time |
| `BookingProofs` | theorems about `Booking`, for any instance |
| `CommitProofs` | theorems about what its commits do to the log and the waitlist, and about who waits for whom |
| `MCBooking` | the small instances TLC checks |
| `Journey` | `create_journey`: several rows per transaction, beside other journeys, bookings, moves and status changes |
| `JourneyProofs` | theorems about `Journey`, for any instance |
| `MCJourney` | the small instances of `Journey` |
| `Gateway` | the webhook gateway, commit by commit |
| `Feed` | what the gateway promises: each webhook takes effect at most once |
| `GatewayProofs` | theorems about `Gateway`, for any instance |
| `MCGateway` | the small instances of `Gateway` |
| `Intervals` | merge, subtract and slot generation, and the instants they stand for |
| `Calendar` | one day of one employee: its rows being written, read, booked and moved in |
| `IntervalProofs` | a theorem about the interval arithmetic, for any finite sets of intervals |
| `CalendarProofs` | theorems about `Calendar`, for any instance |
| `MCCalendar` | the small instances of `Calendar` |
| `Reviews` | reviews, reports, replies and their moderation as concurrent requests |
| `ReviewsProofs` | theorems about `Reviews`, for any instance |
| `MCReviews` | the small instances of `Reviews` |
| `Assistant` | chats with Gemini, the tokens they hand out and their confirmation |
| `AssistantProofs` | theorems about `Assistant`, for any instance |
| `MCAssistant` | the small instance of `Assistant` |

### State

`Booking` keeps the committed tables (`appts`, `history`, `audit`, `waitlist`),
the clock `now`, the open transaction of every request (`tx`) and the answer the
last step sent (`reply`). A transaction holds the version of the row it loaded
(`seen`), the version it wants to write (`draft`), the entries it has locked
(`claimed`) and those it has found and not locked yet (`wanted`). Locks are not state of
their own: who holds one follows from how far a transaction has come, so `HoldsKey`, `HoldsRow`, `HoldsEntry` and `Wrote` are
read off `tx`, and a rollback releases everything by resetting one record.

### Actions

An action is one *statement of one request that another request can come
between*: everything from one point where the database can make it wait, or where
it reads what another may change, up to the next.

| Action | Code |
|---|---|
| `Submit` | a request reaches its handler |
| `LockEntry` | `accept_waitlist` up to the call of `create` |
| `Lookup` | `create`: advisory lock, lookup of the key, replay, past check |
| `Validate` | `_validate_target_slot` on committed rows |
| `Flush` | `session.flush`: the row is in the table and its indexes, in the way of others |
| `Exclude` | the exclusion constraint's check of that row: waits, fails or lets it pass |
| `LoadMove` | `reschedule` up to the slot check |
| `Cancel` | `cancel` up to `match_released_slot` |
| `ChangeStatus` | `change_status`, with the write of its flush |
| `Match` | `match_released_slot`: the rows its `SELECT` finds |
| `LockMatches` | `match_released_slot`: `FOR UPDATE` of these rows, one by one |
| `Commit` | `get_db` commits and the answer is sent |
| `Fail` | any other exception, a lost connection, a broken deadlock, a crash |
| `Join` | `create_waitlist` |
| `Tick` | time passes |

Every early return of the handlers is a disjunct with its HTTP code. `Fail` can
strike any open transaction at any point; since a transaction's writes are
in `tx` until it commits, it is also the crash of the process.

A path through the model, for orientation: `reschedule` is `Submit` (the request
waits for its row), `LoadMove` (row lock, status and window checks), `Validate`,
`Flush` (from here on its new version and the one it replaces block others), `Exclude`
(waits while an uncommitted version clashes; a committed one that nobody is replacing means
409), `Match`, `LockMatches` (waits for each entry), `Commit`.

`Flush` and `Exclude` are two steps because PostgreSQL inserts the heap and index tuple
first and looks for conflicts afterwards. So two clashing rows can both be written, and
their transactions wait for each other; `BreakDeadlock` is the detector that ends one.

### Journeys

`Journey` is a module of its own because a journey holds several uncommitted rows
and meets other transactions at each of them. Its table `appts` is a sequence in the
order of commits; a transaction (`tx`) has a request, the step it is `at` and the row it has
`seen`, and what it has written (`Inserted`) follows from that. An ordinary booking appears
as a request of one step under its own key. The rows of journeys are appointments like any
other, so they are moved, cancelled and given other statuses one by one
(`MoveRequest`, `StatusRequest`; a cancellation is the status `CANCELLED`): `reschedule` and
`change_status` do not look at the journey a row belongs to.

| Action | Code (`create_journey`, `app/services/booking.py:245`) |
|---|---|
| `Lookup` | advisory lock of the header, lookup of every step's key, replay or refusal |
| `Load` | `reschedule`, `cancel`, `change_status`: the row `FOR UPDATE`, and its status |
| `Validate` | one step: past, order, `_validate_target_slot` on the rows committed by now; of a move the last of these |
| `Write` | one row of the flush is put into the table and its indexes |
| `Exclude` | its check: waits, fails or goes on to the next row |
| `Commit` | `get_db` commits all rows, the answer is sent |
| `Submit`, `Fail`, `Tick` | as in `Booking` |

The idempotency key of a row is `StepKey(header, i)`, in the code a SHA-256 of the
header and the index. `StepKeyAssumption` says what is needed of it: different headers
and indices have different keys, and no client sends a header that looks like one.

### The gateway

`Gateway` keeps the five SQLite tables (`received`, `appts`, `conflicts`, `jobs`,
`dead`), what each worker does next (`task`), the answer to a webhook (`reply`) and one
history variable, `due`: whether the conflicts are older than the appointments, for which
appointments the last job does not rest on the last change, and which workers rest on a
reading that a change has overtaken (`Readers`). Every transaction of `app/core.py` is a
step:

| Action | Code |
|---|---|
| `Receive` | `ingest` up to the commit of `record_webhook`, or the answer to a duplicate |
| `Upsert` | `DB.upsert` |
| `List`, `Replace` | `reconcile`: read and detect, then `replace_conflicts` |
| `Plan`, `CreateJob`, `DeadLetter` | `plan`: read, `create_job`, `dead_letter` |
| `Call` | an administrator's `/api/reconcile` or `/api/sync-plan` |
| `Fail` | an exception (a locked database) or a crash between two commits |

The webhook handler is a coroutine that awaits nothing after it has the body, and the
server is one process (`scripts/entrypoint.sh`): webhooks are handled one at a time, by
the worker `"webhook"`. The administrators' handlers are plain functions, which FastAPI
runs in threads beside it.

### The calendar

`Calendar` keeps the rows of the four schedule tables (`rows`, in the order of their
creation, never deleted), the occupied intervals (`appts`) and a transaction per request
(`tx`) with what it has loaded or read so far. It uses the operators of `Intervals`, which
translate `app/services/intervals.py` statement by statement: the loops are folds of
`Absorb` and `Carve`. The functions sort what they are given, so it is a set here and the
order comes from `Latest`; what `merge_intervals` returns is a sequence, since the loops
after it rely on its order. One history component, `standing`, is the set of rows nobody has
changed since a request arrived. The constant `Midnights` says whether the midnights that
bound the day exist; both are tried.

| Action | Code |
|---|---|
| `Find` | `reschedule` up to the calculation: the appointment `FOR UPDATE` |
| `Load` | `session.get` of an update (`app/api/schedules.py`) |
| `CheckException` | `ensure_exception_compatibility` |
| `Write` | flush and commit of a creation or an update, under the constraints of `app/models.py` |
| `ReadExceptions`, `ReadHours`, `ReadBreaks`, `ReadBlocks`, `ReadAppointments` | the SELECTs of `calculate`, in its order, or 422 at a time that does not exist; the last one computes the slots, for a move without the appointment itself (`exclude_appointment_id`) |
| `Insert` | the booking or the move that the calculation was for |
| `Cancel` | the commit of a cancellation |
| `Submit`, `Fail` | as in `Booking` |

`Booking` and `Journey` see of this the constant `Grid` and their check against the
appointments; `Calendar` is what stands behind the constant. Local times become instants
by the constant `Utc`, which is `None` in the hour that daylight saving skips.

### Reviews

`Reviews` keeps the completed appointments, the four tables (`reviews`, `reports`,
`replies`, `audit`), the clock, and per request (`tx`) what it does next and the row it has
loaded (`seen`). Nothing locks: a request loads a row in one statement and writes in a later
one, so what it has loaded may be old. `Written` is SQLAlchemy's UPDATE: of the new row the
columns that differ from the loaded one, of the committed row the others. One history
variable, `during`, holds the versions (status and overall rating) that each review has had
since a reader's request arrived.

| Action | Code (`app/services/reviews.py`) |
|---|---|
| `LoadCreate`, `LoadEdit`, `LoadReport`, `LoadReply`, `LoadModeration`, `LoadResolution` | each method up to its flush: rows, rights, window and status, or a refusal |
| `WriteCreate`, `WriteChange`, `WriteReport`, `WriteReply`, `WriteResolution` | flush and commit, with the audit row, under the unique constraints |
| `AnswerWrite` | the handler reads the review again and answers |
| `ReadOne` | a single review |
| `ReadCount`, `ReadItems` | a list: first the number, then a page of it, with its rating filter, order, `OFFSET` and `LIMIT` (`Pages`) |
| `Complete` | an appointment is completed (the booking engine) |
| `Submit`, `Fail`, `Tick` | as in `Booking` |

The service commits in the middle of the request; a failure after that undoes nothing.

### The assistant

`Assistant` keeps the appointments and waitlist entries (`appts`, `waitlist`), the tokens
handed out (`tokens`, by nonce), the `settings` (whether there is a key to Gemini, and which
model falls back), the clock, and per chat (`tx`) where it stands, how many attempts and calls it has made and the
token it has prepared.

| Action | Code (`app/api/ai.py`) |
|---|---|
| `Ask`, `Chat` | a message arrives; 503 without a key, 404 without an organisation, and the shortcuts for what the client has tapped |
| `Struggle` | a call to Gemini that times out, meets a limit or a server error: again, with the fallback, or give up |
| `Reject`, `Understand` | an answer that is refused, or that is a text or a call of a tool |
| `ExecuteOther`, `ExecuteChange` | the tool: it reads, or prepares a token |
| `ConfirmBooking`, `ConfirmCancel`, `ConfirmMove`, `ConfirmWaitlist` | `confirm`, by what the token proposes |
| `Create`, `Cancel`, `Reschedule`, `ChangeStatus` | the same and other clients in the application, and the staff |
| `Fail`, `Tick` | an exception or crash; time passes, and tokens expire |

A confirmation is one transaction of the booking engine and one step here; `Booking`
(`ImplementsLedger`) and `Journey` have its inside. Anybody may send any token that was
ever handed out, any number of times.

### The faulty variants

`Booking`, `Journey`, `Gateway`, `Intervals`, `Calendar`, `Reviews` and `Assistant` define
wrong variants of some definitions (`FaultyMustWait`, `FaultyKeyFree`, ...). No
specification uses them. Each states a slip the code could contain (no exclusion constraint,
no advisory lock, no `FOR UPDATE`), and for each property there is one that breaks it:
`PROJECT.json`, "mutants".

## 3. What the runs check

| Run | Instance | Checks | Distinct states |
|---|---|---|---|
| `book` | 2 clients, 1 employee, 2 services of different length, 2 keys, 3 appointments, 2 waitlist entries of what one gives up, 2 concurrent requests | `TypeOK`, `Consistent`, `NoDoubleBooking`, `OneBookingPerKey`, `AcceptedOnce`, `OnlyRivalsDeadlock`, `RetryIsReplayed`, `MatchOnlyOnRelease` | 499 000 |
| `move` | 2 appointments, 1 waitlist entry, 2 concurrent requests of every kind: bookings, a move, a cancellation, a confirmation by the employee, an acceptance | `TrailExplainsRow`, `TerminalIsFinal`, `ImplementsLedger`, `EveryRequestAnswered` | 159 000 |
| `accept_retry` | an acceptance and its retry | `AcceptRetryIsReplayed`, violated: see findings | |
| `journey` | 2 clients, 2 employees; journeys through them in opposite orders, different ones in the wrong order under their headers, an ordinary booking; a first step moved past the next, a confirmation, a cancellation; 2 concurrent requests | `Consistent`, `NoDoubleBooking`, `JourneyIsWhole`, `UnmovedStepsFollow`, `OnlyRivalsDeadlock`, `RetryIsReplayed`, `EveryRequestAnswered` | 84 000 |
| `gateway` | three providers, two of them with the same external id and event key; a cancellation without a time, an all-day entry; one administrator who reconciles and plans | `Consistent`, `RadarIsCurrent`, `CalendarFollows`, `ImplementsFeed` | 801 000 |
| `gateway_radar` | a booking, its move and its cancellation at one provider, an appointment at another; an administrator who reconciles | `ReconcilingIsHarmless`, violated: see findings | |
| `gateway_lost` | the same webhooks without administrators | `AcceptedIsApplied`, violated: see findings | |
| `calendar` | a day with a daylight-saving gap; two working windows, a break, a block that reaches past the day, a day off, replacement hours, edits of them, questions, bookings and a move; 2 concurrent requests | `Consistent`, `OfferIsExact`, `HonoursWhatStands` | 1 213 000 |
| `calendar_dayoff` | a day off and replacement hours, 2 concurrent requests | `DayOffStandsAlone`, violated: see findings | |
| `reviews` | 2 appointments of 2 clients with one employee, an administrator; 15 requests of most kinds (not among them: the lists of one's own reviews and of the administrator and the review of an appointment, which differ from the others in `Selected` only), nearly all about the first review, a first page by rating and a second page of one review among them, 2 at a time; 3 audit rows | `Consistent`, `AuditAgrees`, `EveryChangeIsAudited`, `OnlyModerationUnhides`, `AnswersShowThePublished` | 901 000 |
| `reviews_refused` | a review, the employee's reply, a moderator who hides it | `RefusedChangesNothing`, violated: see findings | |
| `assistant` | 3 clients, one without an organisation, 2 employees; with and without a key to Gemini; 7 messages, 6 tool calls, a route of two steps; one chat and its token, the application and the staff beside it | `Consistent`, `TokenBooksOnce`, `NoDoubleBooking`, `CallsAreFew`, `TerminalIsFinal`, `OnlyTheProposed`, `EveryChatAnswered` | 655 000 |

- `NoDoubleBooking`: an employee's occupying appointments never overlap.
- `OneBookingPerKey`: no two rows of a client share a key; moreover no insert even
  *meets* another row, committed or flushed, under its key. So the handler of the
  unique-constraint violation in `create` is a second line of defence that never
  fires on PostgreSQL.
- `RetryIsReplayed`: once the first attempt has committed, the same request under
  the same key is answered 200 whatever has become of the appointment, the slot
  and the clock since, unless the server itself fails.
- `TrailExplainsRow`: the history leads from status to status to the present one; the audit
  log begins with the booking, every later row starts where the rows before it leave the
  appointment, and the last one leaves it where it is. A lost update breaks a chain.
- `TerminalIsFinal`: an ended appointment never changes; nobody's appointment
  becomes another's.
- `ImplementsLedger`: the committed appointments only take the steps of `Ledger`.
- `AcceptedOnce`: a client has no more appointments booked at a match than entries accepted
  for it, under any number of keys, and one at least if there is such an entry.
- `MatchOnlyOnRelease`: an entry is matched in the very step that gives up the slot
  it is offered.
- `OnlyRivalsDeadlock`: wherever requests stand still, each waiting for another, there are two
  whose uncommitted rows clash, or a release that locks its entries; and of two requests both
  want the same time or both are such releases. The first cannot be avoided, since each row is
  written before its own check; the second is there because the code gives the entries no
  order, so two releases of the same wish can each hold an entry that the other wants (`book`
  reaches both; see section 6). Keys, locked rows and the times that moves leave never make a
  circle by themselves, and a release and an acceptance never wait for each other. It rests on
  the order in which the handlers take things, on every slot being checked after the rows that
  are being moved away were loaded, and on what a release finds lying beside the slots that
  acceptances are after.
- `EveryRequestAnswered`: a request that waits gets its turn and is answered: one of those on
  a circle by the detector, which answers it 500, the others because it is gone.
- `Consistent`: the inductive invariant of the proofs (section 4).

Of `Journey`, besides `NoDoubleBooking`, `RetryIsReplayed` and `EveryRequestAnswered`
with the same meaning:

- `JourneyIsWhole`: the rows under a header are those of one journey somebody asked
  for, each once, all of them. Two journeys under one header never mix.
- `UnmovedStepsFollow`: the client can be at every step of a journey that is where it was
  booked; each ends before the later ones begin, with different employees too, where the
  exclusion constraint sees nothing. A step that was moved is exempt: nothing in `reschedule`
  keeps it between the others, and the run moves a first step past the second. What the other
  steps do is still covered, and so is a step that was moved back.
- `OnlyRivalsDeadlock`: wherever requests stand still, two of them are after the time of one
  row, one of them writing it or leaving it. The rows that a journey has inserted before never
  close a circle by themselves. It rests on the order of the steps being checked before the
  rows are inserted, and on the flush inserting them in that order.

Of `Gateway`:

- `ImplementsFeed`: the webhooks recorded and the rows, seen without their ids, only take
  steps of `Feed`: an event not taken before changes the row of its appointment, or, cut
  off by a failure, nothing. A late repetition never undoes a newer event.
- `RadarIsCurrent`: whatever failed before and whoever reconciles beside, the conflicts are
  the pairs of appointments with an instant in common, once the last change has been
  reconciled and unless an older reading has been written since.
- `ReconcilingIsHarmless`: right conflicts go wrong by a change of the appointments only.
- `CalendarFollows`: once a change has been planned, and unless a plan by hand of an older
  reading came last, the last calendar job of the appointment deletes it if it is cancelled
  and else gives it its present times.
- `AcceptedIsApplied`: a webhook answered `accepted` has been written.

Of `Calendar`:

- `OfferIsExact`: whatever rows a calculation has read, the starts it offers are exactly
  those at which every instant of the service is worked and not taken, on the grid of the
  window (`Startable`, which knows no intervals).
- `HonoursWhatStands`: a booking or a move never ignores a row that stood from its arrival to its
  commit, although the rows are read one kind after the other without locks; if nothing
  was written meanwhile, it lies within the working hours.
- `Consistent`: updates that cross each other mix their columns, and still leave windows, no
  window twice, and at most one active day off.

Of `Reviews`:

- `Consistent`: one review per appointment, one reply per review, one report per reporter,
  though nothing is locked; and what a request has loaded is still about its rows.
- `AuditAgrees`: the log tells of every review, reply, report and hiding there is, each
  insertion once and in its place, and of nothing that is not there.
- `EveryChangeIsAudited`: no step changes a review or a reply without the one audit row that
  says so, by somebody who may.
- `OnlyModerationUnhides`: a hidden review is shown again only by a moderator's own step,
  never as the side effect of an edit that had loaded it before. It rests on the UPDATE
  naming only the columns that differ.
- `AnswersShowThePublished`: a list, read in two statements, shows nobody else a review that
  was unpublished, or without the rating asked for, all the while. Its total counts at least
  those that were in the list all the while; and a page that is not full, so the last, misses
  no more of these than the pages before it hold. A full page says nothing about the rest, and
  between the requests for two pages a review may slip from one to the other.
- `RefusedChangesNothing`: a request refused at its end has changed nothing.

Of `Assistant`, besides `NoDoubleBooking` and `TerminalIsFinal`:

- `TokenBooksOnce`: under the keys of a token there is a row for each step it proposes, as
  proposed, or none at all, however often and late it is confirmed.
- `OnlyTheProposed`: a chat changes nothing; a confirmation changes what its token proposes,
  for the client it was handed to, while it lasts, and nothing else.
- `CallsAreFew`: with a rate limit, a fallback to another model or to the same one, an
  answer takes five calls at most.
- `EveryChatAnswered`: every chat ends, whatever Gemini does.

### Bounds, and why they suffice

`Ids` bounds the appointments ever created, `Requests` those in flight at once,
`Entries` the waitlist, `Horizon` the clock, `MaxMoves` the moves of an
appointment (a move under way when the bound is reached still completes), and
`Inputs` / `Wishes` the requests that are sent. Within `Inputs` every order, every
repetition and every interleaving is explored; a request may address an
appointment before it exists.

A journey has two or three steps in the runs; the proofs cover any number up to
`MaxSteps`. The properties relate at most two rows or two transactions, so two
concurrent requests show them; a third could only hold or release what one of the
two waits for, and every transaction can end by itself at any time (`Fail`). A
circle of three waiting transactions is beyond two requests: that each has rivals on it, or a
release that locks its entries, is what `OnlyRivalsDeadlock` says, and it is proved for any
number. That the detector then gets everybody answered is checked for two.

The services have different lengths so that overlap is more than equality of starts.
Three appointments let a key be reused after a cancellation while another booking
has taken the slot. `Horizon` is just large enough for a start to become past and
for a move to a free and to a taken slot.

In `calendar` a creation is sent while the day has fewer than `MaxRows` rows, so it
has three at most, and the appointments besides: enough for neighbouring windows
with something taken at their border, for two updates of one row, and for a row that
appears between two SELECTs.

In `gateway` each webhook may be sent any number of times: a repetition that is
accepted as a duplicate changes nothing, so only their order matters, and all orders
are explored. `MaxJobs` bounds the jobs a plan by hand may add.

In `reviews`, `MaxAudit` bounds the changes: three are enough for a review, a change
of it and another that had loaded it before. In `assistant` one nonce means one
token (a lost one uses it up), confirmed any number of times by anybody; two tokens
meet only in the tables, as a token and the application do. `Horizon` lets a token
expire and a start become past.

Symmetry of ids and of request slots is used for safety runs only. The stronger
reason to trust the small instances is that most of the properties are also proved
for all (section 4).

TLC's deadlock check is on in every run but those of `Reviews` and `Assistant`, which stop
when the bound on the changes, or on the tokens and the clock, is used up. It says little
here, since a request can always fail; where requests can wait for each other in a circle
is the question of `OnlyRivalsDeadlock`, and that each of them gets on, `EveryRequestAnswered`.

### Fairness

In `Booking` and `Journey`, `FairSpec` asks for strong fairness of `Handle(r)`, every
statement of a request but its arrival and its failure. Weak fairness would be too little:
whether a request that waits for a lock can go on alternates as others take and release it.
Strong fairness is what PostgreSQL provides: lock waiters queue in order of arrival, so one
for whom the lock comes free again and again gets it. Weak fairness of `BreakDeadlock` is
PostgreSQL's detector: a backend that has waited for `deadlock_timeout` looks whether it is on
a circle (`Deadlocked`), and if so ends its transaction with an error; a circle does not
dissolve by itself. Any other `Fail` is not fair: no answer depends on the server breaking
down. No fairness is asked of arrivals, joins or time. In `Assistant`
weak fairness is enough: a chat holds no lock and waits for nothing but Gemini, and every
request to Gemini has a timeout (`app/api/ai.py:511`).

## 4. What is proved

All of it is checked by TLAPS. `BookingProofs` rests on the assumptions of `Appointments` and
`Booking`: durations are positive numbers, `Horizon` is a natural number, `None` is
none of the values it stands beside, `Grid` offers times, `Inputs` and `Wishes` are
requests and wishes. No set has to be finite, there or in the other modules (`IntervalProofs`
is about finite sets of intervals, and those of `Calendar` are shown to be finite).

Every safety invariant and every action property of the runs is proved, refinements
included. What stays with TLC is liveness under fairness, `EveryRequestAnswered` and
`EveryChatAnswered`, which TLAPS cannot prove, and the properties that are violated.

### Booking and waitlist

| Theorem | Statement |
|---|---|
| `TypeCorrect` | `Spec => []TypeOK` |
| `Invariance` | `Spec => [](TypeOK /\ Consistent)` |
| `NeverDoubleBooked` | `Spec => []NoDoubleBooking` |
| `KeyBooksOnce` | `Spec => []OneBookingPerKey` |
| `RetryIsAnswered` | `Spec => RetryIsReplayed` |
| `EndedStaysEnded` | `Spec => TerminalIsFinal` |
| `Refinement` | `Spec => ImplementsLedger` |
| `TrailExplains` (`CommitProofs`) | `Spec => []TrailExplainsRow` |
| `MatchedOnRelease` (`CommitProofs`) | `Spec => MatchOnlyOnRelease` |
| `SpentOnce` (`CommitProofs`) | `Spec => []AcceptedOnce` |
| `RivalsDeadlock` (`CommitProofs`) | `Spec => []OnlyRivalsDeadlock` |

**The invariant.** `NoDoubleBooking` is not inductive: whether a commit keeps it
depends on what the transaction found out before. `Consistent` adds what every open
transaction knows, in three parts:

- `Form`: a transaction looks the way its statements make it look at its `pc`. The
  draft of a booking is a new row of its client under its key; the draft of a change
  is one operation away from the row it loaded.
- `FitsTables`: what it knows is still true. The row it locked has not changed, the
  key it locked is still unused, and a row that has passed the exclusion constraint
  clashes with no committed one.
- `Apart`: two transactions have different targets and different keys, and have not both
  passed the constraint with versions that clash (both may have written such versions).

The row lock keeps the first fact, the advisory lock the second, the exclusion
constraint the third; `Apart` is what they give between transactions. When one
commits, `Apart` with every other is exactly what keeps *their* `FitsTables`
true.

**The argument.** Every action but `Commit` changes only its own transaction, so
`LocalStep` reduces it to three facts about the new transaction: its form, that it
fits the tables, that it is apart from all others. There is one lemma per action,
`CommitConsistent` for the one action that writes, `Inductive` puts them together.
`OnlyCommitWrites` and `CommitsOneOperation` then say that a change of the table is a
booking or one operation on the row *as it stands*; from that follow
`EndedStaysEnded` and `Refinement`. `RetryIsAnswered` uses `UniqueKeys` (the row found
under the key is the one with the print) and `FitsTables` (a request past the lookup
cannot have its key in the table).

`CommitProofs` goes on from there. `TrailExplains` needs no more: since a commit appends to
the log what its operation did to the row *as it stands*, the chain grows at its end. For the
waitlist the invariant is strengthened once more (`EntriesHeld`): what a transaction has read
of the entries it locked stays so while it holds them, since only the holder writes an entry.
Then an acceptance adds one appointment and one accepted entry, everything else adds none, and
a cancellation takes neither row away: `AllProportionate` is the inequality that
`AcceptedOnce` states, in terms of finite sets and their cardinalities.

`RivalsDeadlock` first follows the waits to those who have written (`WritersStandStill`): who
holds an entry or a row has begun, who holds a key is past its lookup, who has written is past
its flush, and none of them waits for one that is less far, but for a release that locks its
entries. Writers that are no rivals can only wait for the times that moves are leaving. Those
waits make no circle (`NoRing`): every slot was checked against the committed rows, so of any
writers the one whose slot was checked last asks for a time that none of the others, whose
rows were committed then, gives up. What remains is an acceptance that holds an
entry a release wants, while it waits for the release's slot. At the time of the release's
`SELECT` the entry was waiting, and an acceptance holds a matched one; so the entry was matched
meanwhile, to a slot of *another* release. That slot was occupied in the committed table until
then, and the row of our release was written already, before and after its change: the two lie
beside each other (`Beside`, kept by `StillFound`), so the acceptance does not wait for that
row (`AcceptanceIsBeside`).

### Journeys

`JourneyProofs` proves, from the assumptions of `Appointments` and `Journey`:

| Theorem | Statement |
|---|---|
| `Invariance` | `Spec => []Consistent` |
| `NeverDoubleBooked` | `Spec => []NoDoubleBooking` |
| `BookedWhole` | `Spec => []JourneyIsWhole` |
| `UnmovedInOrder` | `Spec => []UnmovedStepsFollow` |
| `RivalsDeadlock` | `Spec => []OnlyRivalsDeadlock` |
| `RetryIsAnswered` | `Spec => RetryIsReplayed` |

The invariant has the same three parts. `Form` adds how much of the order of the steps
has been checked (`Ordered`; `OrderedGrows` is the step from neighbours to all pairs,
which needs every step to end after it begins). `FitsTable`: none of the step keys is in
the table, and no row that has passed the constraint clashes with it. `Apart`: different
headers, different rows to change, and no clash between rows that have passed. Two more facts tie the table to the
requests: `RowsAreAskedFor`, by which a row under a step key comes from a request with
that header, and `JourneyIsWhole` itself, by which a header with any row has the row of
its first step (`FirstStepThere`). So a lookup that finds its own steps unused knows that
the whole header is, longer journeys included; `CommitKeys` then says what stands under
every key after a commit, and `CommitStep` follows.

Moves and status changes leave what a row was booked as in its key and its print
(`SameBooking`), so the invariant speaks of that where a row may have been moved since:
`RowsAreAskedFor` up to start and status, `BookedInOrder` of the rows as booked. A row that is
where it was booked is as booked, which gives `UnmovedInOrder`.

For `RivalsDeadlock` nobody waits for a request at its lookup or its load that is waited for
itself (`WaitersWrite`), so on a circle everybody is at the check of a row. One that waits for
a row its holder inserted *before* wants an earlier time than the holder wants now
(`WaitsForLater`, from `Ordered`). Times are numbers up to `Horizon`, so of any requests one
wants the latest (`LeastOfNumbers`), and it waits for a rival.

### The gateway

`GatewayProofs` proves, for any set of webhooks and any number of administrators:

| Theorem | Statement |
|---|---|
| `Invariance` | `Spec => []Consistent` |
| `Refinement` | `Spec => ImplementsFeed` |
| `RadarCatchesUp` | `Spec => []RadarIsCurrent` |
| `CalendarCatchesUp` | `Spec => []CalendarFollows` |

`Consistent` says that webhooks are recorded once and appointments have one row each, and
what the task of each worker needs (`Form`). In the refinement the key of the webhook in
flight counts as taken from the step that writes its row, or fails to; every other step
is a stutter (`TakesKey`, `ContentsPut`). The other two rest on an invariant about what each
worker holds: a reading that no change has overtaken is still the table (`due.overtaken`
names the others), so what is written from it is right. `DetectsAll` is the equivalence of
`detect_conflicts` with instants in common.

### The calendar

| Theorem | Statement |
|---|---|
| `SlotsAreExact` (`IntervalProofs`) | for finite `W` and `X`, the slots generated in what is left of `W` after subtracting `X` are `Startable` |
| `RowsAlwaysFit` | `Spec => []Consistent` |
| `OffersAreExact` | `Spec => OfferIsExact` |
| `BookingsHonour` | `Spec => HonoursWhatStands` |

**Intervals.** `SlotsAreExact` relates the loops of `app/services/intervals.py` to the instants
that their intervals stand for. It rests on an invariant of each loop. `Merges`: the intervals
merged so far are sorted, have gaps between them and cover what was put in; so each is a run
of instants, and a window starts where its run starts (`RunStartOf`). `Carved`: the parts kept
of a base cover what lies before the cursor and in no exclusion so far, and the cursor is never
beyond the next one. The induction theorems of the library take an operator and cannot be
used; `Induction` and `SubsetInduction` say the same of *sets* (a set of numbers, or of subsets
of a finite set, that has the first, and with each the next, has all) and follow from `WFMin`,
which takes a set. The folds of the community modules choose a function that satisfies an
equation; `FoldExists` shows that there is one.

**The rows.** For `RowsAlwaysFit` the invariant adds the shape of the transactions and that an
update at its write has a row to write (`Suits`; rows are never deleted). The one action that
matters is `Write`: `UpdatedRow` says that a mixture of columns has the types of both rows, and
`StillFit` that a row that passes the constraints against the others can be put among them,
whichever of the two is asked about. The second is not symmetric on the face of it: the
constraint excuses days off from being the same window as another row, and a row with times is
excused from meeting one.

**Offers and bookings.** `Read` says what a calculation holds (`Reads`): the rows of the kinds
it has read that have stood since it began are among what is taken; and if everything stands,
its windows are those of the rows. A row that is written leaves the `standing` of every other
request, so a write keeps this true. `OffersAreExact` is then `SlotsAreExact` at the last
SELECT, and `BookingsHonour` goes through the instants of the booked service, which
`Startable` puts in the windows and outside what is taken. It needs `DayAssumption`: of a
block the calculation sees only what reaches into the day, and the windows, so the service too,
lie within the day. A move takes only its own appointment out of what is taken, which no row of
the schedule is.

### Reviews

| Theorem | Statement |
|---|---|
| `Invariance` | `Spec => []Consistent` |
| `HiddenStays` | `Spec => OnlyModerationUnhides` |
| `ChangesAreAudited` | `Spec => EveryChangeIsAudited` |
| `LogAgrees` | `Spec => []AuditAgrees` |
| `AnswersAreRight` | `Spec => AnswersShowThePublished` |

Most steps change only their own request (`OnlyWrites`), and a write keeps what the other
requests have loaded true of their rows (`Kept`): it changes no author, no employee and
removes nothing. `HiddenStays` looks at the one UPDATE that could bring a review back:
`Written` takes the status column only where the new value differs from the loaded one, which
an author's edit never has. For `LogAgrees` every write is shown to add to the tables exactly
what its audit row says (`Story`). `AnswersAreRight` needs to know that the history variable of a reader has the
present version of every review (`Watching`), so that what a SELECT finds published was
published at one moment at least; that a list has counted no fewer reviews than have been
in it all the time, which only become fewer after the count (`Throughout`); and that a page
that is not full holds all rows of its SELECT but those skipped, of which there are no more
than the pages before it have room for.

### The assistant

| Theorem | Statement |
|---|---|
| `Invariance` | `Spec => []Consistent` |
| `FewCalls` | `Spec => []CallsAreFew` |
| `NeverDoubleBooked` | `Spec => []NoDoubleBooking` |
| `EndedStays` | `Spec => TerminalIsFinal` |
| `BooksOnce` | `Spec => []TokenBooksOnce` |
| `AsProposed` | `Spec => OnlyTheProposed` |

`Consistent` ties nonces to chats and tokens, and rows under the key of a token to the token's
client. So a confirmation finds under its keys its own rows or none, and books all its steps
or replays; the keys differ by `KeyAssumption`, which is what the code expects of a random
UUID. `FewCalls` needs how the attempts of a chat and its calls grow together through the
fallback.

## 5. Abstractions and limits

- *PostgreSQL only.* On SQLite the advisory lock is skipped and the exclusion
  constraint does not exist; the documentation (`docs/architecture.md`) rules SQLite
  out for the booking engine.
- *Scope.* One organisation and one branch. Checks that the employee, service and
  branch belong together are constants of the instance: `Submit` sends only requests
  that pass them. Role checks that depend on the appointment (`_can_access`) are
  modelled.
- *Schedule.* What an employee's empty calendar offers is the constant `Grid`.
  Schedules do not change during a run. The two `SELECT`s of `_validate_target_slot`
  (`calculate` and `_has_overlap`) are one step, since the answer is 409 in either
  case and the flush decides.
- *Time.* Date and time of day are one number line, in units of the slot grid. The
  `now` a handler reads is the clock when the statement before its check ran.
- *Ids* are chosen when a request arrives rather than when it inserts; nothing
  reads an id before the row is committed.
- *Entries* are locked one by one, in any order, since the query has no `ORDER BY`; a plan may
  happen to give two releases the same order. An entry that has changed meanwhile stays
  locked, though the query no longer returns it.
- *The exclusion constraint* meets the conflicting rows of a written one in any order, as its
  index scan may: a committed conflict can be reported while an uncommitted one is still
  there. A conflict with a row that an open transaction is replacing waits for it. PostgreSQL
  ends a deadlock with an error that is no `IntegrityError`, so no handler turns it into a 409:
  `Fail` answers 500.
- *Staff.* `NO_SHOW` and `COMPLETED` are statuses of `Booking` as of the code; of the
  status changes `move` sends a confirmation and `book` none, to keep them small. The proofs
  cover all of them, and `assistant` sends `NO_SHOW`.
- *Commit and answer* are one step. In FastAPI before 0.118 the commit follows the
  handler and precedes the answer; later versions send the answer first (hazard).
- *Journeys.* The lock and the lookups of all step keys are one step, since under the
  lock nobody else writes those keys. The rows are inserted in the order of the steps:
  SQLAlchemy's unit of work inserts new objects of one class in the order they were
  added. Who may change a row, and whether a client still may at this time, is left out, so
  moves and status changes may come from anybody: more than the code allows, and checked
  exactly in `Booking`. Entries of the waitlist, and the trail, are in `Booking` only; no run
  has an acceptance or a release beside a journey, though with one a circle of both kinds of
  waits is possible in the code.
- *Fingerprints* are the tuples they digest: SHA-256 is taken to be injective.
  `preferred_date`, `preferred_start_time` and `preferred_end_time` of a waitlist
  entry are one window.
- *The calendar* is that of one employee on one day; a row for another employee, branch or
  day is like an inactive one. Its local times are those from one midnight to the next, so
  their instants lie within the day (`DayAssumption`); whether the midnights themselves exist
  is any choice of `Midnights`. Intervals that start together may be
  sorted in any order, and lists whose order nobody uses are sets. The checks that employee, branch and service exist, belong
  together and are active are left to `Fail`. Of the appointments only their intervals are
  there; their clients, keys and statuses are in `Booking`. The separate
  overlap query after the calculation is contained in what `Insert` checks.
- *Reviews.* Flush and commit are one step: they follow each other at once, and the row lock
  that the flush takes makes a second writer wait for the commit. The ratings are the
  columns of `Fields`. Of a list, its rating filter, order and pages are modelled, reviews of
  the same time in any order; an employee's rating and the moderators' statistics read every
  row and are pages large enough. The averages they compute, names, anonymity and the
  organisation's link for outside reviews are left out.
- *The assistant.* Names, dates and wording are left out: `Calls` are the tool calls with what
  they mean. What Gemini answers is any of them, or a refusal. A confirmation that fails in
  the booking engine answers one code, whichever it was, and a Gemini that gives up likewise.
- *Isolation.* READ COMMITTED, PostgreSQL's default: each statement sees the rows
  committed when it begins; a `FOR UPDATE` that waited sees the newest version.

## 6. Findings

- **The retry of an acceptance is refused** (run `accept_retry`). `accept_waitlist`
  checks that the entry is `MATCHED` (`app/api/waitlist.py:42`) before `create` looks
  the key up. A client that accepted, lost the answer and tries again under the same
  `Idempotency-Key` gets 409 `WAITLIST_NOT_MATCHED`, though the appointment is booked.
  `docs/architecture.md:63` says that the key protects the repetition of one and the
  same request, and `README.md:142` lists idempotency for critical mutations.
- **Old conflicts are written over new ones** (run `gateway_radar`). `/api/reconcile` runs
  in a thread beside the webhooks; between its read and its write (`app/core.py:217`) a
  webhook can change an appointment and reconcile. The conflicts of before then stay until
  the next webhook, while the dashboard (`app/main.py:547`) reports them as the active
  overlaps detected.
- **A webhook is accepted and lost** (run `gateway_lost`). `ingest` records a webhook
  (`app/core.py:208`) before it writes the appointment. If it fails in between, the
  provider gets a 500 and sends the webhook again, which is answered
  `"accepted":True,"deduplicated":True` and never written.
- **A day off beside replacement hours** (run `calendar_dayoff`). The check
  (`app/services/scheduling.py:49`) and the insertion are not one: two requests at the same
  time both pass. The error there says that a day off cannot coexist with active
  replacement intervals, and so does a test (`tests/test_schedule_api.py:267`). The
  calculation then takes the day for a day off.

- **A refused reply is written** (run `reviews_refused`). `upsert_reply` commits the
  employee's reply whatever the status of the review (`app/services/reviews.py:394`); then the
  handler reads the review with `get_authorized` (`app/api/reviews.py:254`), which shows a
  review that is not published to its author and administrators only. The employee gets 404
  `REVIEW_NOT_FOUND`, and the reply is there. `app/database.py:36` promises "One transaction
  boundary per request, with rollback on every failure."

Noted while modelling, without a run: updates of a schedule row write only the columns
that differ from what they loaded, so two updates of one row can leave a window neither
asked for. An all-day calendar entry has no UTC offset, and comparing it with a time that
has one raises `TypeError`; while both are in the table, every reconciliation fails, and
with it the planning of every later webhook (modelled as the error branch of `List`). A
plan called by hand that reads an appointment before a webhook cancels it can create its
job after the cancellation's. All waiting entries that fit are matched to the same slot,
and an entry whose slot was taken by someone else stays `MATCHED` for ever. A move by less
than the appointment's length offers its old start although the moved appointment still
covers part of it. The query that locks them (`app/services/waitlist.py:12`) has no
`ORDER BY`, so two releases that fit the same entries may lock them in different orders;
PostgreSQL then aborts one, whose client gets a 500 for a cancellation that a retry would
make. Two clashing inserts at the same instant can wait for each other too, each written
before its own check (`app/services/booking.py:226`); the loser then gets a 500, where
`docs/architecture.md:70` says that the constraint returns a conflict and
`tests/test_booking_concurrency.py:73` expects nine 409s: which of the two it is depends on
timing. A step of a journey can be moved past another (`app/services/booking.py:474` does not
look at the journey). The same header with only the first steps of an earlier journey is answered 200 with those
steps
(`app/services/booking.py:284` looks up only the keys it is asked about), where
`app/services/booking.py:692` would refuse a different request. A token for the waitlist that
is confirmed twice makes two entries, and a move confirmed again after the client moved the
appointment back moves it again. An administrator who restores a published review writes no
status, so a hiding that commits first stays although the log ends with `REVIEW_RESTORED`.

## 7. What is not modelled

- *The planner and the recommendations* are pure searches over the slots that availability
  offers. They change nothing, and whatever they propose is checked again by `create` and
  `create_journey`.
- *Review moderation by AI* is one call to an external service that suggests; a person acts.
- *Authentication and roles* are stateless; the models have the role checks that depend on a
  row.
- *The catalogue, health and version endpoints, migrations and seeds* read, edit single rows,
  or run once by hand.
- *The request boundary* is modelled for FastAPI before 0.118. `requirements.txt`
  (`fastapi>=0.116,<1`) also allows versions that send the answer before the commit; then a
  client may hold a 201 for a booking that never commits. It is a hazard on the list, and
  no promise of the repository says which order is meant.
- *The mobile flows* are the state of one screen of one user. Every request such a screen can
  send, late, twice or under a new key, is among the requests of `Booking` and `Journey`;
  what the screen shows meanwhile is not in any model, and its three hazards are on the list
  without a property.
- *Mobile session, repositories, screens and the updater* keep nothing the server depends on.
