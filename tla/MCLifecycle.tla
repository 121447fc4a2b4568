---------------------------- MODULE MCLifecycle ----------------------------
(* Instances of Lifecycle for TLC. *)
EXTENDS Lifecycle

\* Two configured repositories, of two hosts, and one an administrator may add.
ConfiguredUrls == <<"u1", "u2">>
AllUrls == {"u1", "u2", "u3"}
Hosts == [u \in AllUrls |-> IF u = "u2" THEN "gitlab.com" ELSE "github.com"]
=============================================================================
