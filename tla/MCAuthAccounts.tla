--------------------------- MODULE MCAuthAccounts ---------------------------
(***************************************************************************)
(* A deployment raises the cost or the scheme, not both: each of the two   *)
(* checks of rehashPasswordIfStale is then the only one that can see it.   *)
(***************************************************************************)
EXTENDS AuthAccounts, TLC

CONSTANTS a1, a2, r1, r2, ann, first, second, brief, none

MCAccounts == {a1, a2}
MCRequests == {r1, r2}
MCFirst == [scheme |-> 1, cost |-> 1]
MCReleases == {MCFirst, [scheme |-> 1, cost |-> 2], [scheme |-> 2, cost |-> 1]}
=============================================================================
