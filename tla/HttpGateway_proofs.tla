------------------------- MODULE HttpGateway_proofs -------------------------
(***************************************************************************)
(* Proofs about HttpGateway, for every set of repositories, any number of  *)
(* requests at a time, of changes, of failures and of restarts.            *)
(***************************************************************************)
EXTENDS HttpGateway, TLAPS

Replies == {"none", "OK", "invalid", "unreadable", "refused", "unauthorised", "upstream",
            "badGateway"}

\* A request as the model keeps it.
Request ==
    [step : {"idle", "arrived", "parse", "check", "chain", "forward", "done"},
     kind : Kinds, path : Paths \union {Nothing}, valid : BOOLEAN, body : Nat, raw : Nat,
     unread : Nat, url : Seq(Names), target : Seq(Names), got : Nat,
     reply : Replies, seen : SUBSET SUBSET Urls]

Now(path) == repos \intersect Meanings(path)

Active(q) == q.step \notin {"idle", "done"}

\* What the lookup found of the path, at some time while the request was under way.
LookedUp(q) ==
    \/ q.url = q.path /\ \E us \in q.seen : q.path \in us
    \/ q.url = Legacy(q.path) /\ \E us \in q.seen : q.path \notin us

Accepted(q) == \E us \in q.seen : q.url \in us

\* One request, on its way.
RequestInv(q) ==
    /\ Active(q) => q.path \in Paths /\ Now(q.path) \in q.seen
    /\ q.step \in {"parse", "check", "chain", "forward"} => q.unread = q.raw
    /\ q.step \in {"check", "chain", "forward"} => LookedUp(q)
    /\ q.step \in {"chain", "forward"} => Accepted(q)
    /\ Active(q) => q.target = Nothing /\ q.reply = "none"
    /\ q.step = "idle" => q = NoRequest

\* And what it leaves.
DoneInv(q) ==
    /\ q.reply = "unauthorised" =>
         \/ /\ \E us \in q.seen : q.path \in us
            /\ \E us \in q.seen : q.path \notin us
         \/ /\ \E us \in q.seen : q.path \notin us
            /\ \E us \in q.seen : Legacy(q.path) \notin us
    /\ q.target # Nothing =>
         /\ q.got = q.raw /\ Accepted(q)
         /\ Routable(q.url) => q.target = q.url

GatewayInv ==
    /\ repos \subseteq Urls
    /\ origins = Hosts(started)
    /\ req \in [Requests -> Request]
    /\ \A r \in Requests : RequestInv(req[r]) /\ DoneInv(req[r])

-----------------------------------------------------------------------------

LEMMA PathsAreSequences ==
  ASSUME NEW p \in Paths
  PROVE  /\ p \in Seq(Names) /\ Len(p) > 0
         /\ Legacy(p) \in Seq(Names) /\ Head(Legacy(p)) = Fallback /\ Legacy(p)[2] = Head(p)
<1>1. p \in Seq(Names) /\ Len(p) > 0
  <2>1. CASE p \in Urls  BY <2>1, UrlsAssumption
  <2>2. CASE \E u \in Urls : p = Tail(u)
    <3>1. PICK u \in Urls : p = Tail(u)  BY <2>2
    <3>2. u \in Seq(Names) /\ Len(u) > 1  BY UrlsAssumption
    <3>3. u # <<>>  BY <3>2
    <3>. QED  BY <3>1, <3>2, <3>3
  <2>. QED  BY <2>1, <2>2 DEF Paths
<1>2. <<Fallback>> \in Seq(Names) /\ Len(<<Fallback>>) = 1 /\ <<Fallback>>[1] = Fallback
  BY UrlsAssumption
<1>. QED
  BY <1>1, <1>2 DEF Legacy

\* A path goes to the URL that it was taken for, if that is one the proxy can tell.
LEMMA TargetIsUrl ==
  ASSUME NEW p \in Paths, NEW u \in {p, Legacy(p)}, origins = Hosts(started), Routable(u)
  PROVE  ResolveTarget(p) = u
<1>1. p \in Seq(Names) /\ Len(p) > 0
  BY PathsAreSequences
<1>2. CASE u = p
  BY <1>2 DEF Routable, ResolveTarget
<1>3. CASE u = Legacy(p)
  <2>1. Head(u) = Fallback /\ u[2] = Head(p)
    BY <1>3, PathsAreSequences
  <2>. QED
    BY <1>3, <2>1 DEF Routable, ResolveTarget
<1>. QED
  BY <1>2, <1>3

-----------------------------------------------------------------------------
(* The invariant *)

LEMMA InitGateway ==
  ASSUME Init
  PROVE  GatewayInv
<1>1. NoRequest \in Request
  BY DEF NoRequest, Request, Kinds, Nothing, Replies
<1>2. RequestInv(NoRequest) /\ DoneInv(NoRequest)
  BY DEF NoRequest, RequestInv, DoneInv, Active, Nothing
<1>. QED
  BY <1>1, <1>2 DEF Init, GatewayInv, ProxiedHosts

\* A step of one request, that leaves everything else alone.
LEMMA OneRequestMoves ==
  ASSUME GatewayInv, NEW r \in Requests, NEW q \in Request,
         UNCHANGED <<repos, origins, started>>,
         req' = [req EXCEPT ![r] = q],
         RequestInv(q), DoneInv(q)
  PROVE  GatewayInv'
<1>1. \A x : Now(x)' = Now(x)
  BY DEF Now
<1>2. \A x : Routable(x)' = Routable(x)
  BY DEF Routable
<1>3. req' \in [Requests -> Request]
  BY DEF GatewayInv
<1>4. ASSUME NEW x \in Requests  PROVE (RequestInv(req[x]) /\ DoneInv(req[x]))'
  <2>1. req'[x] = IF x = r THEN q ELSE req[x]
    BY DEF GatewayInv
  <2>2. RequestInv(req'[x]) /\ DoneInv(req'[x])
    BY <2>1 DEF GatewayInv
  <2>. QED
    BY <2>2, <1>1, <1>2 DEF RequestInv, DoneInv, Active, LookedUp, Accepted
<1>. QED
  BY <1>3, <1>4 DEF GatewayInv

LEMMA AnswerMoves ==
  ASSUME GatewayInv, NEW r \in Requests, Active(req[r]), NEW reply \in Replies \ {"none"},
         UNCHANGED <<repos, origins, started>>, Answer(r, reply),
         reply = "unauthorised" =>
            LookedUp(req[r]) /\ \E us \in req[r].seen : req[r].url \notin us
  PROVE  GatewayInv'
<1> DEFINE q == [req[r] EXCEPT !.step = "done", !.reply = reply]
<1>1. req[r] \in Request /\ RequestInv(req[r])
  BY DEF GatewayInv
<1>2. q \in Request
  BY <1>1 DEF Request
<1>3. req' = [req EXCEPT ![r] = q]
  BY DEF Answer, GatewayInv
<1>4. RequestInv(q)
  BY <1>1 DEF RequestInv, Request, Active
<1>5. DoneInv(q)
  BY <1>1, <1>2 DEF RequestInv, DoneInv, Request, LookedUp, Active
<1>. QED
  BY <1>2, <1>3, <1>4, <1>5, OneRequestMoves

LEMMA ArriveKeepsInv ==
  ASSUME GatewayInv, NEW r \in Requests, NEW kind \in Kinds, NEW path \in Paths,
         NEW valid \in BOOLEAN, NEW body \in Bodies, Arrive(r, kind, path, valid, body)
  PROVE  GatewayInv'
<1> DEFINE q == [NoRequest EXCEPT !.step = "arrived", !.kind = kind, !.path = path,
                    !.valid = valid, !.body = body, !.unread = body, !.seen = {Now(path)}]
<1>1. body \in Nat
  BY MaxPackBodyAssumption DEF Bodies
<1>2. {Now(path)} \in SUBSET SUBSET Urls
  BY DEF GatewayInv, Now
<1>3. NoRequest \in Request /\ NoRequest.target = Nothing /\ NoRequest.reply = "none"
  BY DEF NoRequest, Request, Kinds, Nothing, Replies
<1>4. q \in Request /\ q.step = "arrived" /\ q.path = path /\ q.seen = {Now(path)}
      /\ q.target = Nothing /\ q.reply = "none"
  <2> DEFINE named == [NoRequest EXCEPT !.step = "arrived", !.kind = kind, !.path = path]
  <2>1. named \in Request /\ named.step = "arrived" /\ named.path = path
        /\ named.target = Nothing /\ named.reply = "none"
    BY <1>3 DEF Request
  <2> HIDE DEF named
  <2>2. [named EXCEPT !.valid = valid, !.body = body, !.unread = body, !.seen = {Now(path)}]
            \in Request
    BY <1>1, <1>2, <2>1 DEF Request
  <2>3. q = [named EXCEPT !.valid = valid, !.body = body, !.unread = body, !.seen = {Now(path)}]
    BY DEF named
  <2>. QED
    BY <2>1, <2>2, <2>3 DEF Request
<1>5. req' = [req EXCEPT ![r] = q] /\ UNCHANGED <<repos, origins, started>>
  BY DEF Arrive, Now
<1>6. RequestInv(q) /\ DoneInv(q)
  BY <1>4 DEF RequestInv, DoneInv, Active
<1>. QED
  BY <1>4, <1>5, <1>6, OneRequestMoves

LEMMA LeaveKeepsInv ==
  ASSUME GatewayInv, NEW r \in Requests, Leave(r)
  PROVE  GatewayInv'
<1>1. NoRequest \in Request
  BY DEF NoRequest, Request, Kinds, Nothing, Replies
<1>2. RequestInv(NoRequest) /\ DoneInv(NoRequest)
  BY DEF NoRequest, RequestInv, DoneInv, Active, Nothing
<1>. QED
  BY <1>1, <1>2, OneRequestMoves DEF Leave

\* What is forwarded is what the chain accepted, and it goes there.
LEMMA SentMoves ==
  ASSUME GatewayInv, NEW r \in Requests, req[r].step = "forward",
         NEW reply \in Replies \ {"none", "unauthorised"},
         UNCHANGED <<repos, origins, started>>, Sent(r, reply)
  PROVE  GatewayInv'
<1> DEFINE target == ResolveTarget(req[r].path)
           q == [req[r] EXCEPT !.step = "done", !.reply = reply, !.target = target,
                               !.got = req[r].unread]
<1>1. req[r] \in Request /\ RequestInv(req[r]) /\ origins = Hosts(started)
  BY DEF GatewayInv
<1>2. req[r].path \in Paths /\ req[r].url \in {req[r].path, Legacy(req[r].path)}
  BY <1>1 DEF RequestInv, Active, LookedUp
<1>3. target \in Seq(Names)
  BY <1>2, PathsAreSequences DEF ResolveTarget
<1>4. q \in Request
  BY <1>1, <1>3 DEF Request
<1>5. Routable(req[r].url) => target = req[r].url
  BY <1>1, <1>2, TargetIsUrl
<1>6. RequestInv(q) /\ DoneInv(q)
  BY <1>1, <1>5 DEF RequestInv, DoneInv, Active, Request, Accepted
<1>7. req' = [req EXCEPT ![r] = q]
  BY DEF Sent, GatewayInv
<1>. QED
  BY <1>4, <1>6, <1>7, OneRequestMoves

\* The steps between the arrival and the answer.
LEMMA HandlerKeepsInv ==
  ASSUME GatewayInv, NEW r \in Requests,
         \/ HealthCheck(r) \/ RefuseInvalid(r) \/ BufferPackBody(r) \/ BufferFails(r)
         \/ ParseAction(r) \/ PushUnparsed(r) \/ CheckRepoInAuthorisedList(r)
         \/ LookupFails(r) \/ ChainEnds(r) \/ Forward(r) \/ BadGateway(r)
  PROVE  GatewayInv'
<1>0. req[r] \in Request /\ RequestInv(req[r]) /\ DoneInv(req[r])
  BY DEF GatewayInv
<1>1. CASE HealthCheck(r)
  BY <1>1, AnswerMoves DEF HealthCheck, Active, Replies
<1>2. CASE RefuseInvalid(r)
  BY <1>2, AnswerMoves DEF RefuseInvalid, Active, Replies
<1>3. CASE BufferPackBody(r)
  <2> DEFINE n == IF req[r].body < MaxPackBody THEN req[r].body ELSE MaxPackBody
             q == [req[r] EXCEPT !.step = "parse", !.raw = n, !.unread = n]
  <2>1. n \in Nat
    BY <1>0, MaxPackBodyAssumption DEF Request
  <2>2. q \in Request /\ RequestInv(q) /\ DoneInv(q)
    BY <1>0, <1>3, <2>1 DEF BufferPackBody, Request, RequestInv, DoneInv, Active
  <2>3. req' = [req EXCEPT ![r] = q] /\ UNCHANGED <<repos, origins, started>>
    BY <1>3 DEF BufferPackBody, GatewayInv
  <2>. QED
    BY <2>2, <2>3, OneRequestMoves
<1>4. CASE BufferFails(r)
  BY <1>4, AnswerMoves DEF BufferFails, Active, Replies
<1>5. CASE ParseAction(r)
  <2> DEFINE url == UrlOf(req[r].path)
             q == [req[r] EXCEPT !.step = "check", !.url = url]
  <2>1. req[r].path \in Paths /\ Now(req[r].path) \in req[r].seen
    BY <1>0, <1>5 DEF ParseAction, RequestInv, Active
  <2>2. url \in Seq(Names)
    BY <2>1, PathsAreSequences DEF UrlOf
  <2>3. \/ url = req[r].path /\ req[r].path \in Now(req[r].path)
        \/ url = Legacy(req[r].path) /\ req[r].path \notin Now(req[r].path)
    BY DEF UrlOf, Now, Meanings
  <2>4. q \in Request /\ RequestInv(q) /\ DoneInv(q)
    BY <1>0, <1>5, <2>1, <2>2, <2>3 DEF ParseAction, Request, RequestInv, DoneInv, Active, LookedUp
  <2>5. req' = [req EXCEPT ![r] = q] /\ UNCHANGED <<repos, origins, started>>
    BY <1>5 DEF ParseAction, GatewayInv
  <2>. QED
    BY <2>4, <2>5, OneRequestMoves
<1>6. CASE PushUnparsed(r)
  BY <1>6, AnswerMoves DEF PushUnparsed, Active, Replies
<1>7. CASE CheckRepoInAuthorisedList(r)
  <2>1. /\ Now(req[r].path) \in req[r].seen /\ LookedUp(req[r]) /\ req[r].step = "check"
        /\ req[r].url \in {req[r].path, Legacy(req[r].path)}
    BY <1>0, <1>7 DEF CheckRepoInAuthorisedList, RequestInv, Active, LookedUp
  <2>2. req[r].url \in repos <=> req[r].url \in Now(req[r].path)
    BY <2>1 DEF Now, Meanings
  <2>3. CASE req[r].url \in repos
    <3> DEFINE q == [req[r] EXCEPT !.step = IF req[r].kind = "push" THEN "chain" ELSE "forward"]
    <3>1. q \in Request /\ RequestInv(q) /\ DoneInv(q)
      BY <1>0, <2>1, <2>2, <2>3
         DEF Request, RequestInv, DoneInv, Active, LookedUp, Accepted
    <3>2. req' = [req EXCEPT ![r] = q] /\ UNCHANGED <<repos, origins, started>>
      BY <1>7, <2>3 DEF CheckRepoInAuthorisedList, GatewayInv
    <3>. QED
      BY <3>1, <3>2, OneRequestMoves
  <2>4. CASE req[r].url \notin repos
    BY <1>7, <2>1, <2>2, <2>4, AnswerMoves DEF CheckRepoInAuthorisedList, Active, Replies
  <2>. QED
    BY <2>3, <2>4
<1>8. CASE LookupFails(r)
  BY <1>8, AnswerMoves DEF LookupFails, Active, Replies
<1>9. CASE ChainEnds(r)
  <2> DEFINE q == [req[r] EXCEPT !.step = "forward"]
  <2>1. CASE req' = [req EXCEPT ![r].step = "forward"]
    <3>1. q \in Request /\ RequestInv(q) /\ DoneInv(q)
      BY <1>0, <1>9 DEF ChainEnds, Request, RequestInv, DoneInv, Active, LookedUp, Accepted
    <3>2. req' = [req EXCEPT ![r] = q] /\ UNCHANGED <<repos, origins, started>>
      BY <1>9, <2>1 DEF ChainEnds, GatewayInv
    <3>. QED
      BY <3>1, <3>2, OneRequestMoves
  <2>2. CASE Answer(r, "refused")
    BY <1>9, <2>2, AnswerMoves DEF ChainEnds, Active, Replies
  <2>. QED
    BY <1>9, <2>1, <2>2 DEF ChainEnds
<1>10. CASE Forward(r)
  BY <1>10, SentMoves DEF Forward, Replies
<1>11. CASE BadGateway(r)
  BY <1>11, SentMoves DEF BadGateway, Replies
<1>. QED
  BY <1>1, <1>2, <1>3, <1>4, <1>5, <1>6, <1>7, <1>8, <1>9, <1>10, <1>11

\* The store may change at any moment; a request then has seen both.
LEMMA ReposChangeKeepsInv ==
  ASSUME GatewayInv, NEW u \in Urls, ReposChange(u)
  PROVE  GatewayInv'
<1>1. repos' \subseteq Urls /\ UNCHANGED <<origins, started>>
  BY DEF GatewayInv, ReposChange
<1>2. \A x : Routable(x)' = Routable(x)
  BY <1>1 DEF Routable
<1>3. ASSUME NEW r \in Requests
      PROVE  req'[r] \in Request /\ (RequestInv(req[r]) /\ DoneInv(req[r]))'
  <2>1. req[r] \in Request /\ RequestInv(req[r]) /\ DoneInv(req[r])
    BY DEF GatewayInv
  <2>2. CASE req[r].step \in {"idle", "done"}
    <3>1. req'[r] = req[r]
      BY <2>2 DEF ReposChange
    <3>. QED
      BY <2>1, <2>2, <3>1, <1>2 DEF RequestInv, DoneInv, Active, Accepted
  <2>3. CASE req[r].step \notin {"idle", "done"}
    <3>1. req'[r] = [req[r] EXCEPT !.seen = @ \union {repos' \intersect Meanings(req[r].path)}]
      BY <2>3 DEF ReposChange
    <3>2. repos' \intersect Meanings(req[r].path) \in SUBSET Urls
      BY <1>1
    <3>3. /\ req'[r] \in Request
          /\ req'[r].seen = req[r].seen \union {repos' \intersect Meanings(req[r].path)}
          /\ req'[r].step = req[r].step /\ req'[r].path = req[r].path
          /\ req'[r].url = req[r].url /\ req'[r].target = req[r].target
          /\ req'[r].reply = req[r].reply
          /\ req'[r].raw = req[r].raw /\ req'[r].unread = req[r].unread
      BY <2>1, <3>1, <3>2 DEF Request
    <3>. QED
      BY <2>1, <2>3, <3>3 DEF RequestInv, DoneInv, Active, LookedUp, Accepted, Now
  <2>. QED
    BY <2>2, <2>3
<1>4. req' \in [Requests -> Request]
  BY <1>3 DEF ReposChange
<1>. QED
  BY <1>1, <1>3, <1>4 DEF GatewayInv

LEMMA RestartKeepsInv ==
  ASSUME GatewayInv, Restart
  PROVE  GatewayInv'
<1>1. NoRequest \in Request
  BY DEF NoRequest, Request, Kinds, Nothing, Replies
<1>2. RequestInv(NoRequest)' /\ DoneInv(NoRequest)'
  BY DEF NoRequest, RequestInv, DoneInv, Active, Nothing
<1>3. \A r \in Requests : req'[r] = NoRequest
  BY DEF Restart
<1>. QED
  BY <1>1, <1>2, <1>3 DEF GatewayInv, Restart, ProxiedHosts, RequestInv, DoneInv

LEMMA GatewayInvIsInvariant == Spec => []GatewayInv
<1>1. Init => GatewayInv
  BY InitGateway
<1>2. GatewayInv /\ [Next]_vars => GatewayInv'
  <2> SUFFICES ASSUME GatewayInv, [Next]_vars  PROVE GatewayInv'
    OBVIOUS
  <2>1. CASE UNCHANGED vars
    BY <2>1 DEF vars, GatewayInv, RequestInv, DoneInv, Active, LookedUp, Accepted, Now, Routable
  <2>2. CASE Next
    BY <2>2, ArriveKeepsInv, LeaveKeepsInv, HandlerKeepsInv, ReposChangeKeepsInv,
       RestartKeepsInv DEF Next
  <2>. QED
    BY <2>1, <2>2
<1>. QED
  BY <1>1, <1>2, PTL DEF Spec

-----------------------------------------------------------------------------
(* What follows from it *)

\* Whatever is registered and deleted while requests are under way, and however
\* stale the hosts are that the proxy read when it started, what it forwards goes
\* to the repository that the chain accepted.
THEOREM ForwardedToWhatWasAccepted == Spec => []ReachesWhatWasAccepted
<1>1. GatewayInv => ReachesWhatWasAccepted
  BY DEF GatewayInv, DoneInv, ReachesWhatWasAccepted, Accepted
<1>. QED
  BY <1>1, GatewayInvIsInvariant, PTL

\* Nobody is refused as unknown a repository that stayed registered while his
\* request was under way.
THEOREM RegisteredIsNeverUnknown == Spec => []RegisteredIsServed
<1>1. GatewayInv => RegisteredIsServed
  BY DEF GatewayInv, DoneInv, RegisteredIsServed
<1>. QED
  BY <1>1, GatewayInvIsInvariant, PTL

\* For every body and every limit, what is examined is what is forwarded.
THEOREM ExaminedIsForwarded == Spec => []ForwardsWhatWasExamined
<1>1. GatewayInv => ForwardsWhatWasExamined
  BY DEF GatewayInv, DoneInv, ForwardsWhatWasExamined
<1>. QED
  BY <1>1, GatewayInvIsInvariant, PTL
=============================================================================
