----------------------------- MODULE Assistant -----------------------------
(***************************************************************************)
(* SlotBridge AI: a chat asks Gemini, which may call one tool; the tools   *)
(* that would change something only prepare an action, signed into a token *)
(* that the client may confirm, once, again or never, as long as it lasts. *)
(*                                                                         *)
(* A chat is many steps: the client's other requests, and everybody        *)
(* else's, happen between them and between a token and its confirmation.   *)
(* A confirmation is one transaction of the booking engine, and here one   *)
(* step on the committed rows; so are the requests of the application.     *)
(* Booking and Journey have their interleavings, and show that they amount *)
(* to that.                                                                *)
(***************************************************************************)
EXTENDS Appointments, Sequences, FiniteSets

CONSTANTS
  Members,         \* clients with an organisation
  Grid,            \* [Employees \X Services -> starts offered on an empty calendar]
  TokenKey(_, _),  \* the idempotency key of the i-th row that a token books, from its nonce
  Requests,        \* chats that can be going on at once
  Asks,            \* the messages that clients send
  Calls,           \* the tool calls that Gemini answers with
  Journeys,        \* the routes that the planner may find
  OwnSteps,        \* what clients book for themselves
  OwnKeys,         \* under which keys
  StaffStatuses,   \* the statuses that the staff give appointments
  Lifetime,        \* how long a token can be confirmed: ten minutes
  Nonces,          \* what tells tokens apart: bounds the chats ever begun
  MaxEntries       \* bounds the waitlist entries

Step == [employee : Employees, service : Services, start : Times]

MaxSteps == 6

\* What a token proposes: the steps to book or to wait for, or the appointment to change and
\* its new start.
Proposal ==
       [type : {"CREATE_BOOKING", "WAITLIST", "CREATE_JOURNEY"}, steps : Seq(Step),
        appt : {None}, start : {None}]
  \cup [type : {"CANCEL"}, steps : {<<>>}, appt : Nat, start : {None}]
  \cup [type : {"RESCHEDULE"}, steps : {<<>>}, appt : Nat, start : Times]

\* The payload of a confirmation token, but for its nonce.
Token == [user : Clients, action : Proposal, exp : Nat]

\* selection: what the client has tapped; value: the start of the appointment tapped.
ChatRequest ==
  [user : Clients, value : Times \cup {None},
   selection : {"none", "service", "employee", "slot", "appointment", "journey"}]

\* ALLOWED, and a name that is not; "read" stands for the tools that only read.
FunctionCall == [name : {"read", "prepare_cancellation", "unknown"}]
           \cup [name : {"prepare_booking", "prepare_waitlist"}, step : Step]
           \cup [name : {"prepare_reschedule"}, start : Times]

\* service and employee as asked for; the entry's window is its start and the minute after.
WaitlistEntry == [client : Clients, step : Step, status : {"WAITING", "MATCHED"}]

ASSUME InputAssumption == /\ Members \subseteq Clients
                          /\ Grid \in [Employees \X Services -> SUBSET Times]
                          /\ Asks \subseteq ChatRequest /\ Calls \subseteq FunctionCall
                          /\ Journeys \subseteq {j \in Seq(Step) : Len(j) \in 2 .. MaxSteps}
                          /\ OwnSteps \subseteq Step
                          /\ OwnKeys \subseteq Keys
                          /\ StaffStatuses \subseteq Statuses \ {"CANCELLED"}
ASSUME BoundAssumption == Lifetime \in Nat /\ MaxEntries \in Nat
ASSUME AbsenceAssumption == 
  None \notin ChatRequest \cup FunctionCall \cup Token \cup Requests \cup Nonces

\* Nonces never repeat, and no client sends a header that looks like the key of a token.
ASSUME KeyAssumption ==
  \A m, n \in Nonces, i, j \in 1 .. MaxSteps :
    /\ TokenKey(n, i) \in Keys \ OwnKeys
    /\ TokenKey(m, i) = TokenKey(n, j) => m = n /\ i = j

VARIABLES
  appts,     \* the appointments, in the order of their commits: the id of a row is its index
  waitlist,  \* the entries that the assistant made, in the order of their commits
  tokens,    \* the tokens that clients have been handed, by nonce
  settings,  \* whether there is a gemini_api_key, and gemini_fallback_model
  now,       \* the clock
  tx,        \* what each chat does next, and what it knows
  reply      \* the answer the last step sent, if it sent one

tables == <<appts, waitlist>>
vars   == <<appts, waitlist, tokens, settings, now, tx, reply>>

\* attempt: the round of the retry loop; calls: the requests sent to Gemini for one answer,
\* of which no more than MaxCalls are counted; nonce: that of the chat's token.
MaxCalls == 6

Tx == [pc : {"idle", "received", "first", "execute", "second"}, ask : ChatRequest \cup {None},
       nonce : Nonces \cup {None},
       model : {"primary", "other"}, attempt : Nat, calls : 0 .. MaxCalls,
       call : FunctionCall \cup {None}, token : Token \cup {None}]

\* The model that falls back may be gemini_model itself.
Settings == [configured : BOOLEAN, fallback : {"primary", "other"}]

\* 409 also stands for the other refusals, 503 for everything that Gemini may do wrong.
Codes == {200, 400, 404, 409, 422, 500, 503}

Idle == [pc |-> "idle", ask |-> None, nonce |-> None, model |-> "primary", attempt |-> 1,
         calls |-> 0, call |-> None, token |-> None]

TypeOK ==
  /\ appts \in Seq(Row)
  /\ waitlist \in Seq(WaitlistEntry)
  /\ tokens \in [Nonces -> Token \cup {None}]
  /\ settings \in Settings
  /\ now \in Times
  /\ tx \in [Requests -> Tx]
  /\ reply \in [to : Clients, code : Codes, confirmed : Nonces \cup {None}] \cup {None}

Init ==
  /\ appts = <<>> /\ waitlist = <<>> /\ tokens = [n \in Nonces |-> None]
  /\ settings \in Settings
  /\ now = 0
  /\ tx = [r \in Requests |-> Idle]
  /\ reply = None

-----------------------------------------------------------------------------
(***************************************************************************)
(* The booking engine, one transaction at a time.  (A Faulty... definition *)
(* is a wrong variant of the one below it, used by no specification.)      *)
(***************************************************************************)

RowOf(user, step, key, note) ==
  NewRow(user, step.employee, step.service, step.start, key, note)

\* Other appointments are not looked at again.
FaultyTaken(rows, row) == FALSE

\* _has_overlap, and the exclusion constraint.
Taken(rows, row) == \E n \in DOMAIN rows : Clash(rows[n], row)

\* Each row begins when the one before has ended.
InOrder(rows) == \A i \in DOMAIN rows : i > 1 => End(rows[i - 1]) <= rows[i].start

\* The rows can be booked: create and create_journey.
Bookable(rows) ==
  /\ InOrder(rows)
  /\ \A i \in DOMAIN rows : /\ rows[i].start > now
                            /\ rows[i].start \in Grid[<<rows[i].employee, rows[i].service>>]
                            /\ ~Taken(appts, rows[i])

Cancellable(user, row) ==
  row.client = user /\ row.start > now /\ "CANCELLED" \in Allowed[row.status]

\* The status of a moved appointment is not looked at.
FaultyMovable(user, n, start) ==
  appts[n].client = user /\ appts[n].start > now /\ start > now /\ start # appts[n].start

\* A client's appointment can be moved there, as far as reschedule looks before the slot.
Movable(user, n, start) ==
  /\ appts[n].client = user /\ appts[n].start > now
  /\ appts[n].status \in {"BOOKED", "CONFIRMED"}
  /\ start > now /\ start # appts[n].start

Moved(n, start) == [appts[n] EXCEPT !.start = start]

\* The new place of an appointment is free, of all but itself.
Fits(n, start) ==
  /\ start \in Grid[<<appts[n].employee, appts[n].service>>]
  /\ \A m \in DOMAIN appts \ {n} : ~Clash(appts[m], Moved(n, start))

\* match_released_slot.
Released(entries, row) ==
  [e \in DOMAIN entries |->
     IF /\ entries[e].step = [employee |-> row.employee, service |-> row.service,
                              start |-> row.start]
        /\ entries[e].status = "WAITING"
     THEN [entries[e] EXCEPT !.status = "MATCHED"] ELSE entries[e]]

CancelAt(n) ==
  /\ appts' = [appts EXCEPT ![n].status = "CANCELLED"]
  /\ waitlist' = Released(waitlist, appts[n])

MoveTo(n, start) ==
  /\ appts' = [appts EXCEPT ![n].start = start]
  /\ waitlist' = Released(waitlist, appts[n])

-----------------------------------------------------------------------------
(***************************************************************************)
(* A chat.                                                                 *)
(***************************************************************************)

Proceed(r, t) ==
  /\ tx' = [tx EXCEPT ![r] = t]
  /\ reply' = None
  /\ UNCHANGED <<tables, tokens, settings, now>>

\* The chat is answered, with the token that it has prepared if all went well.
Answer(r, code, prepared) ==
  /\ tx' = [tx EXCEPT ![r] = Idle]
  /\ reply' = [to |-> tx[r].ask.user, code |-> code, confirmed |-> None]
  /\ tokens' = IF prepared = None THEN tokens ELSE [tokens EXCEPT ![tx[r].nonce] = prepared]
  /\ UNCHANGED <<tables, settings, now>>

\* _encode_action.
EncodeAction(user, action) == [user |-> user, action |-> action, exp |-> now + Lifetime]

Propose(type, steps) == [type |-> type, steps |-> steps, appt |-> None, start |-> None]
Change(type, n, start) == [type |-> type, steps |-> <<>>, appt |-> n, start |-> start]

\* No token has the nonce, and no chat is about to use it (uuid4 never repeats).
Fresh(n) == tokens[n] = None /\ \A r \in Requests : tx[r].nonce # n

Ask(r) ==
  /\ tx[r].pc = "idle"
  /\ \E ask \in Asks, n \in Nonces :
       Fresh(n) /\ Proceed(r, [Idle EXCEPT !.pc = "received", !.ask = ask, !.nonce = n])

\* The planner's route as it could be booked now, but for the clock.
Planned(r, steps) ==
  LET rows == [i \in DOMAIN steps |-> RowOf(tx[r].ask.user, steps[i], TokenKey(tx[r].nonce, i),
                                            "SlotBridge AI")]
  IN /\ InOrder(rows)
     /\ \A i \in DOMAIN rows : /\ rows[i].start \in Grid[<<rows[i].employee, rows[i].service>>]
                               /\ ~Taken(appts, rows[i])

\* chat, up to Gemini: without its key no chat is answered; a route tapped is planned again
\* and proposed, if it is still there; a specialist tapped, or a service named without one,
\* is answered from the database; and a slot tapped that is not among those shown is refused.
Chat(r) ==
  LET ask == tx[r].ask
      may == settings.configured /\ ask.user \in Members
  IN /\ tx[r].pc = "received"
     /\ \/ ~settings.configured /\ Answer(r, 503, None)
        \/ settings.configured /\ ask.user \notin Members /\ Answer(r, 404, None)
        \/ /\ may /\ ask.selection = "journey"
           /\ \/ Answer(r, 409, None)
              \/ \E steps \in Journeys :
                   /\ Planned(r, steps)
                   /\ Answer(r, 200, EncodeAction(ask.user, Propose("CREATE_JOURNEY", steps)))
        \/ /\ may /\ ask.selection \in {"employee", "none"}
           /\ \E code \in {200, 404} : Answer(r, code, None)
        \/ may /\ ask.selection = "slot" /\ Answer(r, 409, None)
        \/ /\ may /\ ask.selection # "journey"
           /\ Proceed(r, [tx[r] EXCEPT !.pc = "first"])

\* No answer to the first question is an answer to the chat; without one to the second, the
\* chat is answered with what the tool has found or prepared.
GiveUp(r) ==
  \/ tx[r].pc = "first" /\ Answer(r, 503, None)
  \/ tx[r].pc = "second" /\ Answer(r, 200, tx[r].token)

\* The model that falls back is not looked at.
FaultyMayFallBack(trouble, model) == trouble = "rate_limit"

\* A rate limit makes _gemini try the other model, once.
MayFallBack(trouble, model) ==
  trouble = "rate_limit" /\ model = "primary" /\ settings.fallback # model

\* One more attempt is made than the loop has rounds.
FaultyRetryLimit(trouble) == 4

RetryLimit(trouble) == IF trouble = "rate_limit" THEN 3 ELSE 2

\* _gemini, when the request times out, fails or is answered 429 or 5xx.
Struggle(r) ==
  LET t == [tx[r] EXCEPT !.calls = IF @ < MaxCalls THEN @ + 1 ELSE @]
  IN /\ tx[r].pc \in {"first", "second"}
     /\ \E trouble \in {"timeout", "network", "rate_limit", "upstream"} :
          \/ /\ MayFallBack(trouble, t.model)
             /\ Proceed(r, [t EXCEPT !.model = settings.fallback, !.attempt = 1])
          \/ /\ ~MayFallBack(trouble, t.model) /\ t.attempt < RetryLimit(trouble)
             /\ Proceed(r, [t EXCEPT !.attempt = @ + 1])
          \/ /\ ~MayFallBack(trouble, t.model) /\ t.attempt >= RetryLimit(trouble)
             /\ GiveUp(r)

\* _gemini, when the answer is any other refusal, or no valid answer.
Reject(r) == GiveUp(r)

\* A valid answer: a text, a call that is allowed or one that is not; the text of the second
\* answer, and any call in it, is only shown.
Understand(r) ==
  \/ tx[r].pc = "first" /\ Answer(r, 200, None)
  \/ /\ tx[r].pc = "first"
     /\ \E call \in Calls :
          \/ call.name = "unknown" /\ Answer(r, 422, None)
          \/ /\ call.name # "unknown"
             /\ Proceed(r, [tx[r] EXCEPT !.pc = "execute", !.call = call])
  \/ tx[r].pc = "second" /\ Answer(r, 200, tx[r].token)

\* list_my, view="upcoming".
Upcoming(user) ==
  {n \in DOMAIN appts : /\ appts[n].client = user /\ appts[n].start >= now
                        /\ appts[n].status # "CANCELLED"}

\* The appointment that prepare_cancellation and prepare_reschedule are about: the one
\* tapped, or the nearest.
Meant(ask) ==
  {n \in Upcoming(ask.user) :
     IF ask.selection = "appointment" THEN appts[n].start = ask.value
     ELSE \A m \in Upcoming(ask.user) : appts[n].start <= appts[m].start}

\* A tool has done its work; Gemini is asked to put it into words.
Result(r, token) ==
  Proceed(r, [tx[r] EXCEPT !.pc = "second", !.call = None, !.token = token,
                           !.model = "primary", !.attempt = 1, !.calls = 0])

\* The other tools; for any tool, a branch, a service or an employee may be missing.
ExecuteOther(r) ==
  LET t == tx[r]
  IN /\ t.pc = "execute"
     /\ \/ Answer(r, 404, None)
        \/ t.call.name = "read" /\ Result(r, None)
        \/ /\ t.call.name = "prepare_booking"
           /\ Result(r, EncodeAction(t.ask.user, Propose("CREATE_BOOKING", <<t.call.step>>)))
        \/ /\ t.call.name = "prepare_waitlist"
           /\ Result(r, EncodeAction(t.ask.user, Propose("WAITLIST", <<t.call.step>>)))

\* prepare_cancellation and prepare_reschedule.
ExecuteChange(r) ==
  LET t == tx[r]
  IN /\ t.pc = "execute" /\ t.call.name \in {"prepare_cancellation", "prepare_reschedule"}
     /\ \/ Upcoming(t.ask.user) = {} /\ Answer(r, 404, None)
        \/ Upcoming(t.ask.user) # {} /\ Meant(t.ask) = {} /\ Answer(r, 409, None)
        \/ \E n \in Meant(t.ask) :
             Result(r, EncodeAction(t.ask.user,
               IF t.call.name = "prepare_cancellation" THEN Change("CANCEL", n, None)
               ELSE Change("RESCHEDULE", n, t.call.start)))

\* Any other exception (arguments that make no sense, an answer of a shape not foreseen), a
\* lost connection, a crash: a token that was prepared is never handed out.
Fail(r) == tx[r].pc # "idle" /\ Answer(r, 500, None)

-----------------------------------------------------------------------------
(***************************************************************************)
(* A confirmation.                                                         *)
(***************************************************************************)

\* Whose token it is is not looked at.
FaultyDecoded(user, n) == now <= tokens[n].exp

\* _decode_action accepts the token.  Nobody but _encode_action can sign one.
Decoded(user, n) == tokens[n].user = user /\ now <= tokens[n].exp

Confirmed(user, n, code) ==
  /\ reply' = [to |-> user, code |-> code, confirmed |-> n]
  /\ UNCHANGED <<tokens, settings, now, tx>>

Refused(user, n, code) == Confirmed(user, n, code) /\ UNCHANGED tables

\* The rows that the n-th token books.
Proposed(user, n) ==
  [i \in DOMAIN tokens[n].action.steps |->
     RowOf(user, tokens[n].action.steps[i], TokenKey(n, i), "SlotBridge AI")]

\* The key of the token is not looked up.
FaultyBooked(user, n) == FALSE

\* Its rows are there: _appointment_by_idempotency.
Booked(user, n) ==
  \E m \in DOMAIN appts : appts[m].client = user /\ appts[m].key = TokenKey(n, 1)

\* confirm, of CREATE_BOOKING and CREATE_JOURNEY: replayed once the rows are there.
ConfirmBooking(user, n) ==
  /\ tokens[n].action.type \in {"CREATE_BOOKING", "CREATE_JOURNEY"}
  /\ \/ Booked(user, n) /\ Refused(user, n, 200)
     \/ ~Booked(user, n) /\ ~Bookable(Proposed(user, n)) /\ Refused(user, n, 409)
     \/ /\ ~Booked(user, n) /\ Bookable(Proposed(user, n))
        /\ appts' = appts \o Proposed(user, n)
        /\ Confirmed(user, n, 200)
        /\ UNCHANGED waitlist

\* confirm, of CANCEL.
ConfirmCancel(user, n) ==
  LET m == tokens[n].action.appt
  IN /\ tokens[n].action.type = "CANCEL"
     /\ \/ ~Cancellable(user, appts[m]) /\ Refused(user, n, 409)
        \/ Cancellable(user, appts[m]) /\ CancelAt(m) /\ Confirmed(user, n, 200)

\* confirm, of RESCHEDULE.
ConfirmMove(user, n) ==
  LET m == tokens[n].action.appt
      start == tokens[n].action.start
      may == Movable(user, m, start) /\ Fits(m, start)
  IN /\ tokens[n].action.type = "RESCHEDULE"
     /\ \/ ~may /\ Refused(user, n, 409)
        \/ may /\ MoveTo(m, start) /\ Confirmed(user, n, 200)

\* confirm, of WAITLIST: an entry each time.
ConfirmWaitlist(user, n) ==
  /\ tokens[n].action.type = "WAITLIST" /\ Len(waitlist) < MaxEntries
  /\ waitlist' = Append(waitlist, [client |-> user, step |-> tokens[n].action.steps[1],
                                   status |-> "WAITING"])
  /\ Confirmed(user, n, 200)
  /\ UNCHANGED appts

Confirm(user, n) ==
  \/ ~Decoded(user, n) /\ Refused(user, n, 400)
  \/ /\ Decoded(user, n)
     /\ \/ Refused(user, n, 500)
        \/ ConfirmBooking(user, n) \/ ConfirmCancel(user, n)
        \/ ConfirmMove(user, n) \/ ConfirmWaitlist(user, n)

-----------------------------------------------------------------------------
(***************************************************************************)
(* The application meanwhile.                                              *)
(***************************************************************************)

Beside == reply' = None /\ UNCHANGED <<tokens, settings, now, tx>>

Create(user) ==
  /\ user \in Members
  /\ \E step \in OwnSteps, key \in OwnKeys :
       LET row == RowOf(user, step, key, "own")
       IN /\ \A n \in DOMAIN appts : ~(appts[n].client = user /\ appts[n].key = key)
          /\ Bookable(<<row>>)
          /\ appts' = Append(appts, row)
  /\ Beside /\ UNCHANGED waitlist

Cancel(user) ==
  /\ \E n \in DOMAIN appts : Cancellable(user, appts[n]) /\ CancelAt(n)
  /\ Beside

Reschedule(user) ==
  /\ \E n \in DOMAIN appts, start \in Times :
       Movable(user, n, start) /\ Fits(n, start) /\ MoveTo(n, start)
  /\ Beside

\* The staff: change_status.
ChangeStatus ==
  /\ \E n \in DOMAIN appts : \E s \in Allowed[appts[n].status] \cap StaffStatuses :
       appts' = [appts EXCEPT ![n].status = s]
  /\ Beside /\ UNCHANGED waitlist

Tick ==
  /\ now < Horizon /\ now' = now + 1
  /\ reply' = None
  /\ UNCHANGED <<tables, tokens, settings, tx>>

Handle(r) ==
  \/ Chat(r) \/ Struggle(r) \/ Reject(r) \/ Understand(r)
  \/ ExecuteOther(r) \/ ExecuteChange(r)

Next ==
  \/ \E r \in Requests : Ask(r) \/ Handle(r) \/ Fail(r)
  \/ \E user \in Clients, n \in Nonces : tokens[n] # None /\ Confirm(user, n)
  \/ \E user \in Clients : Create(user) \/ Cancel(user) \/ Reschedule(user)
  \/ ChangeStatus
  \/ Tick

Spec == Init /\ [][Next]_vars

\* A chat goes on by itself: every request to Gemini has a timeout.
FairSpec == Spec /\ \A r \in Requests : WF_vars(Handle(r))

-----------------------------------------------------------------------------
(***************************************************************************)
(* Properties.                                                             *)
(***************************************************************************)

\* The rows a token's keys have, of its user.
RowsUnder(n, i) ==
  {m \in DOMAIN appts : appts[m].client = tokens[n].user /\ appts[m].key = TokenKey(n, i)}

\* What a token proposes makes sense: as many steps as its type has, or an appointment of its
\* user.
Sensible(token) ==
  LET k == token.action
  IN /\ k.type \in {"CREATE_BOOKING", "WAITLIST"} => Len(k.steps) = 1
     /\ k.type = "CREATE_JOURNEY" => Len(k.steps) \in 2 .. MaxSteps
     /\ k.type \in {"CANCEL", "RESCHEDULE"} =>
          k.appt \in DOMAIN appts /\ appts[k.appt].client = token.user

TxOK(r) ==
  LET t == tx[r]
  IN /\ t.pc = "idle" => t = Idle
     /\ t.pc # "idle" => t.ask \in Asks /\ t.nonce \in Nonces /\ tokens[t.nonce] = None
     /\ t.pc = "execute" => t.call \in Calls
     /\ t.token # None => t.token.user = t.ask.user /\ Sensible(t.token)
     /\ \A s \in Requests \ {r} : t.nonce # None => tx[s].nonce # t.nonce

\* The inductive invariant: the types; chats have nonces of their own and prepare for their
\* user; every token proposes something that makes sense; and a row under the key of a token
\* (_encode_action's nonce, create's idempotency key) is of a token handed out, its user's.
Consistent ==
  /\ TypeOK
  /\ \A r \in Requests : TxOK(r)
  /\ \A n \in Nonces : tokens[n] # None => Sensible(tokens[n])
  /\ \A m \in DOMAIN appts, n \in Nonces, i \in 1 .. MaxSteps :
       appts[m].key = TokenKey(n, i) => tokens[n] # None /\ appts[m].client = tokens[n].user

\* However often a token is confirmed, late, or after its appointments were moved or
\* cancelled, it books what it proposed once and whole, or nothing: under its keys is a row for
\* each of its steps, as proposed, and nothing else.
TokenBooksOnce ==
  \A n \in Nonces : tokens[n] # None =>
    LET k == tokens[n].action
    IN \/ \A i \in 1 .. MaxSteps : RowsUnder(n, i) = {}
       \/ /\ k.type \in {"CREATE_BOOKING", "CREATE_JOURNEY"}
          /\ \A i \in 1 .. MaxSteps : \A m \in RowsUnder(n, i) :
               /\ i \in DOMAIN k.steps /\ RowsUnder(n, i) = {m}
               /\ appts[m].print = [employee |-> k.steps[i].employee,
                                    service |-> k.steps[i].service,
                                    start |-> k.steps[i].start, note |-> "SlotBridge AI"]
          /\ \A i \in DOMAIN k.steps : RowsUnder(n, i) # {}

\* The time between a proposal and its confirmation books nobody twice: whatever the chat saw
\* is checked again (docs/architecture.md, "AI": a repeated check by the backend).
NoDoubleBooking ==
  \A m, n \in DOMAIN appts : m # n => ~Clash(appts[m], appts[n])

\* A late confirmation, like everything else, leaves an ended appointment as it is.
TerminalIsFinal ==
  [][\A n \in DOMAIN appts :
       appts[n].status \in {"COMPLETED", "CANCELLED", "NO_SHOW"} => appts'[n] = appts[n]]_vars

\* A chat changes nothing, and a confirmation only what its token proposes to its own user
\* while it lasts: "mutating tools only prepare an action for explicit confirmation" (the
\* system prompt of chat).
OnlyTheProposed ==
  [][/\ tx' # tx => UNCHANGED tables
     /\ reply' # None /\ reply'.confirmed # None /\ tables' # tables =>
          LET token == tokens[reply'.confirmed]
              k == token.action
          IN /\ reply'.code = 200 /\ reply'.to = token.user /\ now <= token.exp
             /\ Len(appts') = Len(appts) +
                  (IF k.type \in {"CREATE_BOOKING", "CREATE_JOURNEY"} THEN Len(k.steps) ELSE 0)
             /\ \A m \in DOMAIN appts : appts'[m] # appts[m] =>
                  /\ m = k.appt /\ appts[m].client = token.user
                  /\ appts'[m] = IF k.type = "CANCEL" THEN [appts[m] EXCEPT !.status = "CANCELLED"]
                                                      ELSE [appts[m] EXCEPT !.start = k.start]
             /\ \A m \in DOMAIN appts' \ DOMAIN appts : appts'[m].client = token.user
             /\ Len(waitlist') = Len(waitlist) + (IF k.type = "WAITLIST" THEN 1 ELSE 0)]_vars

\* A failing Gemini is asked five times at most for an answer, at most three times in a row of
\* one model: the loop of _gemini never runs out ("Gemini retry loop exhausted").
CallsAreFew == \A r \in Requests : tx[r].attempt <= 3 /\ tx[r].calls < 5

\* Every chat is answered, whatever Gemini does.
EveryChatAnswered == \A r \in Requests : tx[r].pc # "idle" ~> tx[r].pc = "idle"
=============================================================================
