---------------------------- MODULE ReviewLedger ----------------------------
(***************************************************************************)
(* What the proxy promises about held pushes, with no processors, no       *)
(* checkouts, no interleaving inside a call and no crash: a ledger of      *)
(* verdicts, and releases that only follow a grant.                        *)
(*                                                                         *)
(* PushGate implements this specification: a verdict is read off the flags *)
(* of a stored push, and a release is an attempt that was let through.     *)
(***************************************************************************)
CONSTANTS Ids,        \* push identifiers
          Attempts    \* attempts to push

VARIABLES verdict,    \* the standing verdict on each push
          granted,    \* the pushes that were authorised at some time
          released    \* <<attempt, push>>: the attempts let through

ledgerVars == <<verdict, granted, released>>

Standing == {"none", "held", "authorised", "rejected", "canceled"}

LedgerTypeOK ==
    /\ verdict \in [Ids -> Standing]
    /\ granted \subseteq Ids
    /\ released \subseteq Attempts \X Ids

LedgerInit ==
    /\ verdict = [p \in Ids |-> "none"]
    /\ granted = {}
    /\ released = {}

\* An attempt that ends without having been let through leaves its push held.
Hold(p) ==
    /\ verdict' = [verdict EXCEPT ![p] = "held"]
    /\ UNCHANGED <<granted, released>>

\* An attempt that was let through restates the authorisation it relied on.
Restate(p) ==
    /\ p \in granted
    /\ verdict' = [verdict EXCEPT ![p] = "authorised"]
    /\ UNCHANGED <<granted, released>>

\* A reviewer, or the system for the pre-receive hook, decides a recorded push.
Grant(p) ==
    /\ verdict[p] # "none"
    /\ verdict' = [verdict EXCEPT ![p] = "authorised"]
    /\ granted' = granted \union {p}
    /\ UNCHANGED released

Refuse(p) ==
    /\ verdict[p] # "none"
    /\ \E v \in {"rejected", "canceled"} : verdict' = [verdict EXCEPT ![p] = v]
    /\ UNCHANGED <<granted, released>>

\* An attempt reaches the upstream only for a push that was granted.
Release(a, p) ==
    /\ p \in granted
    /\ released' = released \union {<<a, p>>}
    /\ UNCHANGED <<verdict, granted>>

LedgerNext ==
    \/ \E p \in Ids : Hold(p) \/ Restate(p) \/ Grant(p) \/ Refuse(p)
    \/ \E a \in Attempts, p \in Ids : Release(a, p)

LedgerSpec == LedgerInit /\ [][LedgerNext]_ledgerVars
=============================================================================
