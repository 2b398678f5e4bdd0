------------------------ MODULE MCAttributionLedger ------------------------
(***************************************************************************)
(* Small instances of AttributionLedger for TLC: a turn of the Relay and   *)
(* one counted by the client, each into commit a and then b, while a is    *)
(* rewritten to b.                                                         *)
(***************************************************************************)
EXTENDS AttributionLedger, TLC

CONSTANTS a, b, relay, local, q1, w1, w2

AmendedLate == [g \in Groups |-> <<a, b>>]

OwnedByRelay == [q \in Requests |-> relay]

TokensOf == [q \in Requests |-> 4]

Amended == {<<a, b>>}

EitherWay == {<<a, b>>, <<b, a>>}

WorkerSymmetry == Permutations(Workers)
=============================================================================
