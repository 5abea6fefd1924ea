----------------------------- MODULE MCReviews -----------------------------
(***************************************************************************)
(* Two appointments with one employee, of two clients; an administrator,   *)
(* and one of another organisation.                                        *)
(***************************************************************************)
EXTENDS Reviews, TLC

CONSTANTS anna, boris, emma, root, alien, v1, v2, u1, u2

MCMembers    == {anna, boris, emma, root}
MCClientOf   == v1 :> anna @@ v2 :> boris
MCEmployeeOf == v1 :> emma @@ v2 :> emma
MCFields     == {"rating"}
Stars(n)     == [f \in MCFields |-> n]

Create(a, v)   == [kind |-> "create", actor |-> a, appt |-> v, content |-> Stars(2)]
Update(a, n)   == [kind |-> "update", actor |-> a, review |-> n, change |-> Stars(1)]
Withdraw(a, n) == [kind |-> "withdraw", actor |-> a, review |-> n]
Report(a, n)   == [kind |-> "report", actor |-> a, review |-> n]
ReplyTo(a, n, x)    == [kind |-> "reply", actor |-> a, review |-> n, text |-> x]
Moderate(a, n, s)   == [kind |-> "moderate", actor |-> a, review |-> n, to |-> s, reason |-> "ok"]
Resolve(a, n, b, s) == [kind |-> "resolve", actor |-> a, review |-> n, reporter |-> b, to |-> s]
Get(a, n)      == [kind |-> "get", actor |-> a, review |-> n]
Browse(a, stars, sort, page, size) ==
  [kind |-> "browse", actor |-> a, employee |-> emma, rating |-> stars, sort |-> sort,
   page |-> page, size |-> size]

\* Most of what can happen to the first review, some of it without the permission.
MCInputs ==
  {Create(anna, v1), Create(anna, v2), Create(boris, v2), Update(anna, 1), Withdraw(anna, 1),
   Report(boris, 1), Resolve(root, 1, boris, "DISMISSED"),
   ReplyTo(emma, 1, "ok"), ReplyTo(boris, 1, "no"),
   Moderate(root, 1, "HIDDEN"), Moderate(root, 1, "PUBLISHED"), Moderate(root, 1, "FLAGGED"),
   Get(boris, 1), Browse(boris, 2, "newest", 1, 2),
   Browse(boris, None, "highest_rating", 2, 1)}

\* A reply while moderators work.
RefusedInputs == {Create(anna, v1), ReplyTo(emma, 1, "ok"), Moderate(root, 1, "HIDDEN")}

Swap == Permutations(Requests)
=============================================================================
