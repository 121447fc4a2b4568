----------------------------- MODULE MCSessions -----------------------------
(* An instance of Sessions for TLC.  Browsers are not interchangeable: the    *)
(* module chooses one of them for places that are not in use.                 *)
EXTENDS Sessions, TLC

CONSTANTS b1, b2, r1, r2
MCBrowsers == {b1, b2}
MCRequests == {r1, r2}
Symmetry == Permutations(MCRequests)
=============================================================================
