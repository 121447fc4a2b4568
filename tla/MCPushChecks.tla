---------------------------- MODULE MCPushChecks ----------------------------
(* An instance of PushChecks for TLC. *)
EXTENDS PushChecks, TLC, Functions

MCBranches == {"main", "dev"}
Blocked == [blocked |-> {"secret"}, valid |-> TRUE]
BlockedAddress == [blocked |-> {"noreply"}, valid |-> TRUE]
MCUsers == ("alice" :> {"alice"}) @@ ("twins" :> {"ann", "eve"})

\* The characters that tell git's lines apart, one that every rule looks for, and
\* one that does not matter.
MCHits == [c \in {"+", "-", " ", "@", "d", "i", "\\", "x"} |-> {}]
          @@ ("s" :> {"literal", "pattern"}) @@ ("p" :> {"provider"})

\* One upstream commit on another, and two new ones with any parents.
UpToTwo(S) == {<<>>} \union {<<a>> : a \in S} \union {<<a, b>> \in S \X S : a # b}
HistoriesOf(new) ==
    {<<<<>>, <<1>>, p, q>> : p \in UpToTwo({1, 2}),
                             q \in IF new = 4 THEN UpToTwo({1, 2, 3}) ELSE {<<>>}}

Good == [header |-> <<"tree", "parent", "author", "committer", "other">>, persons |-> TRUE,
         message |-> "fine", author |-> "alice", committer |-> "alice", form |-> "commit"]

Flawed ==
    {[Good EXCEPT !.message = m] : m \in {"", "secret"}}
    \union {[Good EXCEPT !.author = a] : a \in {"", "noreply"}}
    \union {[Good EXCEPT !.committer = c] : c \in {"", "bob", "twins"}}
    \union {[Good EXCEPT !.form = "ofs_delta", !.message = m] : m \in {"fine", "secret"}}
    \union {[Good EXCEPT !.persons = FALSE], [Good EXCEPT !.header = Append(@, "author")],
            [Good EXCEPT !.header = Tail(@)]}

AllGood == [c \in 1..4 |-> Good]

Repository == [listed |-> TRUE, canPush |-> {}, canAuthorise |-> {"alice"}]

Push(h, commits, tips, old, new, pack, unpacks, organization, changes) ==
    [parents |-> h, commit |-> commits, heads |-> tips, old |-> old, new |-> new,
     repo |-> Repository, pack |-> pack, unpacks |-> unpacks,
     organization |-> organization, changes |-> changes]

Heads == {("main" :> 2) @@ ("dev" :> d) : d \in {Zero, 1}}

\* Every pack of up to three commits, in every order.
Packs == {s \in UNION {[1..n -> 1..4] : n \in 1..3} : IsInjective(s)}

PacksOf(new) == {s \in Packs : new \in ToSet(s)}

Chain == <<<<>>, <<1>>, <<2>>, <<3>>>>

GraphPushes ==
    UNION {{Push(h, AllGood, b, o, n, p, TRUE, "acme", <<>>) :
               h \in HistoriesOf(n), b \in Heads, o \in {Zero, 1, 2}, p \in PacksOf(n)} :
           n \in {3, 4}}
    \union UNION {{Push(Chain, AllGood, b, 2, n, p, FALSE, "acme", <<>>) :
               b \in Heads, p \in PacksOf(n)} : n \in 1..4}

\* A commit that something is wrong with, in a push of one or of two.
FlawedPushes ==
    {Push(Chain, [AllGood EXCEPT ![c] = f],
          ("main" :> 2) @@ ("dev" :> Zero), o, 4, p, TRUE, "acme", <<>>) :
        c \in {3, 4}, f \in Flawed, o \in {Zero, 2}, p \in {<<4, 3>>, <<3, 4>>, <<4>>}}

\* Diffs: one file with any three edits, and two files.
Texts == {<<"x">>, <<"s">>, <<"+", "+", " ", "s">>, <<"-", "-", " ", "p">>,
          <<"@", "@", "s">>, <<"d", "s">>}
Edit == [op : {"keep", "del", "add"}, text : Texts]
Note == [op |-> "noNewline", text |-> <<>>]
File(old, new, edits) == [old |-> old, new |-> new, edits |-> edits]
KeepX == [op |-> "keep", text |-> <<"x">>]

Diffs ==
    {<<File("f", "f", e)>> : e \in [1..3 -> Edit]}
    \union {<<File("f", "f", <<a, Note, b>>), File(DevNull, "g", <<b>>)>> :
               a, b \in {e \in Edit : e.op # "keep"}}
    \union {<<File("f", DevNull, <<a>>), File("f", "g", <<b, KeepX, KeepX, KeepX, c>>)>> :
               a \in {e \in Edit : e.op = "del"}, b, c \in {e \in Edit : e.op = "add"}}

DiffPushes ==
    {Push(Chain, AllGood, ("main" :> 2) @@ ("dev" :> Zero), 2, 3,
          <<3>>, TRUE, o, d) : o \in {"acme", "private"}, d \in Diffs}

AllPushes == GraphPushes \union FlawedPushes \union DiffPushes
=============================================================================
