----------------------------- MODULE MCMigration -----------------------------
(* An instance of Migration for TLC. *)
EXTENDS Migration, TLC

Doc(key, marks, data) == [key |-> key, marks |-> marks, data |-> data]
Line(op, id, doc) == [op |-> op, id |-> id, doc |-> doc]
NoDoc == Doc("", {}, "")

Alice == Doc("Alice", {"a@x"}, "old")
Namesake == Doc("alice", {"b@x"}, "old")
Shadow == Doc("bob", {"a@x"}, "old")
Repository == Doc("url", {}, "old")
Held == Doc("push", {}, "held")
Decided == Doc("push", {}, "authorised")
Other == Doc("other", {}, "held")

MCLower == ("Alice" :> "alice") @@ ("alice" :> "alice") @@ ("bob" :> "bob")

Logs(users, repos, pushes) == [users |-> users, repos |-> repos, pushes |-> pushes]
NeDB(logs) == [kind |-> "nedb", logs |-> logs]
Mongo(logs) == [kind |-> "mongo", logs |-> logs]

\* Every file of up to two lines, and every history of a document in three.
PushLines ==
    {Line("put", "1", Held), Line("put", "1", Decided), Line("put", "2", Other),
     Line("put", "2", Doc("push", {}, Undecodable)), Line("delete", "1", NoDoc),
     Line("delete", "2", NoDoc), Line("index", "", NoDoc), Line("noId", "", NoDoc),
     Line("broken", "", NoDoc)}
HistoryLines ==
    {Line("put", "1", Held), Line("put", "1", Decided), Line("delete", "1", NoDoc),
     Line("put", "2", Other), Line("broken", "", NoDoc)}
PushFiles == UNION {[1..n -> PushLines] : n \in 0..2} \union [1..3 -> HistoryLines]

UserLines(u, v) == <<Line("put", "1", u), Line("put", "2", v)>>
OneRepo == <<Line("put", "1", Repository)>>

MCSources ==
    {NeDB(Logs(<<>>, <<>>, f)) : f \in PushFiles}
    \union {NeDB(Logs(UserLines(u, v), OneRepo, <<Line("put", "1", p)>>)) :
              u, v \in {Alice, Namesake, Shadow}, p \in {Held, Decided}}
    \union {Mongo(Logs(UserLines(Alice, Shadow), OneRepo,
                       <<Line("put", "1", p), Line("put", "2", q)>>)) :
              p, q \in {Held, Decided, Doc("push", {}, Undecodable)}}

Empty == [c \in Collections |-> {}]
MCStores == {Empty, [Empty EXCEPT !.users = {Doc("alice", {"a@x"}, "live")}]}

MCLiveRows ==
    [users |-> {Doc("alice", {"b@x"}, "live")}, repos |-> {Doc("url", {}, "live")},
     pushes |-> {Doc("push", {}, "rejected")}]
=============================================================================
