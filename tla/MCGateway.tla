----------------------------- MODULE MCGateway -----------------------------
(***************************************************************************)
(* Small instances of Gateway for TLC.                                     *)
(***************************************************************************)
EXTENDS Gateway, TLC

CONSTANTS m1, m2, m3, x, y

Sent(provider, key, external, start, end, status) ==
  [provider |-> provider, key |-> key, external |-> external, start |-> start, end |-> end,
   zoned |-> TRUE, status |-> status]

AllDay(key, external) ==
  [provider |-> "google", key |-> key, external |-> external, start |-> 0, end |-> 3,
   zoned |-> FALSE, status |-> "scheduled"]

\* An appointment that is booked, moved and cancelled, and one of another provider that
\* touches it first and overlaps it then.
FeedEvents ==
  {Sent("mindbody", m1, x, 0, 2, "scheduled"), Sent("mindbody", m2, x, 1, 3, "scheduled"),
   Sent("mindbody", m3, x, 1, 3, "cancelled"), Sent("google", m1, y, 2, 3, "scheduled")}

\* The same external id and event key at two providers, a cancellation without a time, and
\* an all-day entry.
MixedEvents ==
  {Sent("mindbody", m1, x, 0, 2, "scheduled"), Sent("vagaro", m1, x, 1, 3, "scheduled"),
   Sent("vagaro", m2, x, None, None, "cancelled"), AllDay(m1, y)}
=============================================================================
