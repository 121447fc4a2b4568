----------------------------- MODULE MCPushGate -----------------------------
(* Instances of PushGate for TLC. *)
EXTENDS PushGate, TLC

\* Attempts and reviewers' calls are interchangeable.  Only for runs without
\* liveness properties.
Symmetry == Permutations(Attempts) \union Permutations(Reviews)
=============================================================================
