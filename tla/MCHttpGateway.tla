--------------------------- MODULE MCHttpGateway ---------------------------
(* An instance of HttpGateway for TLC: a repository on each of two hosts, a *)
(* second one right under its host, and one of an account of github.com     *)
(* that is named like the other host.                                       *)
EXTENDS HttpGateway

MCUrls == {<<Fallback, "team", "tool">>, <<"gitea", "team", "tool">>,
           <<"gitea", "tool">>, <<Fallback, "gitea", "tool">>}
=============================================================================
