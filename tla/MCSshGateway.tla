---------------------------- MODULE MCSshGateway ----------------------------
(* An instance of SshGateway for TLC: all sessions share one connection, and *)
(* one of them pushes while the others pull.                                *)
EXTENDS SshGateway

OneConn == [s \in Sessions |-> CHOOSE c \in Conns : TRUE]

PushAndPull ==
    LET pusher == CHOOSE s \in Sessions : TRUE IN
    [s \in Sessions |-> IF s = pusher THEN "receive-pack" ELSE "upload-pack"]
=============================================================================
