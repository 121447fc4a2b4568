---------------------------- MODULE MCReviewDesk ----------------------------
(* An instance of ReviewDesk for TLC: an administrator and bob have local   *)
(* accounts; the OIDC provider knows alice, whose email spells her name     *)
(* with a capital, and another bob.                                         *)
EXTENDS ReviewDesk

OidcProfile == [alice_sub |-> [name |-> "alice", upper |-> TRUE],
                bob_sub |-> [name |-> "bob", upper |-> FALSE]]
OidcEmail == [alice_sub |-> "alice@x", bob_sub |-> "bob@y"]

Local(address, isAdmin) ==
    [email |-> address, admin |-> isAdmin, password |-> TRUE, sub |-> None]

FirstAccounts == [admin |-> Local("admin@x", TRUE), bob |-> Local("bob@x", FALSE),
                  alice |-> NoAccount]

FirstLists == [canPush |-> {Stored("admin"), Stored("bob")}, canAuthorise |-> {Stored("admin")}]

OneUrl == [p \in Ids |-> Urls]
ByAlice == [p \in Ids |-> "alice@x"]

\* One browser presents an administrator's token, the other none.
AdminToken ==
    LET first == CHOOSE b \in Browsers : TRUE IN
    [b \in Browsers |-> IF b = first THEN [username |-> Stored("admin"), admin |-> TRUE]
                        ELSE NoToken]

Lists == {{}, {[name |-> "alice", upper |-> TRUE]}}
=============================================================================
