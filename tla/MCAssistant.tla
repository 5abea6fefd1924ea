---------------------------- MODULE MCAssistant ----------------------------
(***************************************************************************)
(* A client with one specialist, who talks to the assistant and uses the   *)
(* application too, and another client who wants the same hours.           *)
(***************************************************************************)
EXTENDS Assistant, TLC

CONSTANTS anna, boris, carol, emma, olga, cut

MCDuration == [x \in {emma, olga} \X {cut} |-> 1]
MCGrid     == [x \in {emma, olga} \X {cut} |-> {1, 2}]

\* The key of a token's row; a client's own key is a pair that no token has.
MCTokenKey(n, i) == <<n, i>>
MCOwnKeys == {<<0, 0>>}
MCKeys    == MCOwnKeys \cup (Nonces \X (1 .. MaxSteps))

At(e, t) == [employee |-> e, service |-> cut, start |-> t]

Says(user, selection, value) == [user |-> user, selection |-> selection, value |-> value]

MCAsks == {Says(anna, "none", None), Says(anna, "appointment", 2), Says(anna, "employee", None),
           Says(anna, "slot", None), Says(anna, "service", None), Says(anna, "journey", None),
           Says(carol, "none", None)}

MCCalls == {[name |-> "read"], [name |-> "unknown"],
            [name |-> "prepare_booking", step |-> At(emma, 1)],
            [name |-> "prepare_waitlist", step |-> At(emma, 1)],
            [name |-> "prepare_cancellation"],
            [name |-> "prepare_reschedule", start |-> 2]}

MCJourneys == {<<At(emma, 1), At(olga, 2)>>}

MCOwnSteps == {At(emma, 1)}
=============================================================================
