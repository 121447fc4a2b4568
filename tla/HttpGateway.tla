----------------------------- MODULE HttpGateway -----------------------------
(***************************************************************************)
(* git over HTTP (internal/proxy/git/proxy.go, internal/giturl, and the    *)
(* part of the chain that finds out which repository a request is for).    *)
(* The chain looks the repository up by the path; the proxy then forwards  *)
(* by the path too, with the hosts it read from the store at its start.    *)
(* Repositories come and go meanwhile.                                     *)
(*                                                                         *)
(* A URL is the sequence of its names, host first; so is a path, with a    *)
(* host or without.  What the chain says once the repository is accepted   *)
(* is a choice here: PushGate and PushChecks model it.                     *)
(***************************************************************************)
EXTENDS Naturals, Sequences

CONSTANTS
    Requests,     \* places for requests under way
    Names,        \* of hosts, of groups and of repositories
    Urls,         \* what may be registered
    MaxPackBody,  \* the limit of a buffered body, in some unit
    MaxRequests, MaxChanges, MaxFaults   \* bounds: requests, repository changes, failures

Fallback == "github.com"

ASSUME UrlsAssumption ==
    /\ Fallback \in Names
    /\ \A u \in Urls : u \in Seq(Names) /\ Len(u) > 1
ASSUME MaxPackBodyAssumption == MaxPackBody \in Nat

Legacy(path) == <<Fallback>> \o path
Paths == Urls \union {Tail(u) : u \in {v \in Urls : Head(v) = Fallback}}
Hosts(us) == {Head(u) : u \in us}
Bodies == 0..(MaxPackBody + 1)
Nothing == <<>>

\* The reference discovery is a GET, the others are POSTs with a body.
Kinds == {"health", "discovery", "fetch", "push"}
IsPackPost(kind) == kind \in {"fetch", "push"}

NoRequest ==
    [step |-> "idle", kind |-> "health", path |-> Nothing, valid |-> FALSE, body |-> 0,
     raw |-> 0, unread |-> 0, url |-> Nothing, target |-> Nothing, got |-> 0,
     reply |-> "none", seen |-> {}]

VARIABLES
    repos,     \* the URLs registered in the store
    origins,   \* the hosts the handler knows
    started,   \* the URLs that were registered at the start of the process
    req,       \* the requests under way; seen: which URLs its path may mean were registered, and when
    arrived, changes, faults   \* counters of the bounds

counters == <<arrived, changes, faults>>
vars == <<repos, origins, started, req, counters>>

TypeOK ==
    /\ repos \subseteq Urls /\ started \subseteq Urls /\ origins \subseteq Hosts(Urls)
    /\ \A r \in Requests :
          /\ req[r].kind \in Kinds /\ req[r].path \in Paths \union {Nothing}
          /\ req[r].raw <= MaxPackBody /\ req[r].unread <= req[r].body
    /\ arrived <= MaxRequests /\ changes <= MaxChanges /\ faults <= MaxFaults

\* The distinct hosts of the registered repositories.
ProxiedHosts(us) == Hosts(us)

Init ==
    /\ repos \in SUBSET Urls
    /\ started = repos
    /\ origins = ProxiedHosts(repos)
    /\ req = [r \in Requests |-> NoRequest]
    /\ arrived = 0 /\ changes = 0 /\ faults = 0

\* What a path may mean.
Meanings(path) == {path, Legacy(path)}

Answer(r, reply) == req' = [req EXCEPT ![r].step = "done", ![r].reply = reply]

-----------------------------------------------------------------------------
(* Outside: clients, administrators, restarts *)

Arrive(r, kind, path, valid, body) ==
    /\ req[r].step = "idle" /\ arrived < MaxRequests
    /\ body > 0 => IsPackPost(kind)
    /\ req' = [req EXCEPT ![r] =
                 [NoRequest EXCEPT !.step = "arrived", !.kind = kind, !.path = path,
                    !.valid = valid, !.body = body, !.unread = body,
                    !.seen = {repos \intersect Meanings(path)}]]
    /\ arrived' = arrived + 1
    /\ UNCHANGED <<repos, origins, started, changes, faults>>

Leave(r) ==
    /\ req[r].step = "done"
    /\ req' = [req EXCEPT ![r] = NoRequest]
    /\ UNCHANGED <<repos, origins, started, counters>>

\* A repository is created or deleted; the handler keeps the hosts it has.
ReposChange(u) ==
    /\ changes < MaxChanges
    /\ changes' = changes + 1
    /\ repos' = IF u \in repos THEN repos \ {u} ELSE repos \union {u}
    /\ req' = [r \in Requests |->
                 IF req[r].step \in {"idle", "done"} THEN req[r]
                 ELSE [req[r] EXCEPT !.seen = @ \union {repos' \intersect Meanings(req[r].path)}]]
    /\ UNCHANGED <<origins, started, arrived, faults>>

Restart ==
    /\ faults < MaxFaults
    /\ faults' = faults + 1
    /\ origins' = ProxiedHosts(repos)
    /\ started' = repos
    /\ req' = [r \in Requests |-> NoRequest]
    /\ UNCHANGED <<repos, arrived, changes>>

-----------------------------------------------------------------------------
(* ServeHTTP, before the chain *)

HealthCheck(r) ==
    /\ req[r].step = "arrived" /\ req[r].kind = "health"
    /\ Answer(r, "OK")
    /\ UNCHANGED <<repos, origins, started, counters>>

RefuseInvalid(r) ==
    /\ req[r].step = "arrived" /\ req[r].kind # "health" /\ ~req[r].valid
    /\ Answer(r, "invalid")
    /\ UNCHANGED <<repos, origins, started, counters>>

\* Mutant: the body is read for the chain and not put back.
BufferAndDrain(r) ==
    /\ req[r].step = "arrived" /\ req[r].kind # "health" /\ req[r].valid
    /\ LET n == IF req[r].body < MaxPackBody THEN req[r].body ELSE MaxPackBody
       IN req' = [req EXCEPT ![r].step = "parse", ![r].raw = n, ![r].unread = @ - n]
    /\ UNCHANGED <<repos, origins, started, counters>>

\* What is beyond the limit is left out of what the chain sees and of what is
\* forwarded alike.
BufferPackBody(r) ==
    /\ req[r].step = "arrived" /\ req[r].kind # "health" /\ req[r].valid
    /\ LET n == IF req[r].body < MaxPackBody THEN req[r].body ELSE MaxPackBody
       IN req' = [req EXCEPT ![r].step = "parse", ![r].raw = n, ![r].unread = n]
    /\ UNCHANGED <<repos, origins, started, counters>>

\* The client went away while it sent.
BufferFails(r) ==
    /\ req[r].step = "arrived" /\ IsPackPost(req[r].kind) /\ req[r].valid /\ faults < MaxFaults
    /\ faults' = faults + 1
    /\ Answer(r, "unreadable")
    /\ UNCHANGED <<repos, origins, started, arrived, changes>>

-----------------------------------------------------------------------------
(* The chain, as far as the repository goes *)

\* Mutant: the host-less meaning comes first.
UrlOfLegacy(path) == IF Legacy(path) \in repos THEN Legacy(path) ELSE path

\* "https:/" and the path, if that is registered; else github.com is assumed.
UrlOf(path) == IF path \in repos THEN path ELSE Legacy(path)

ParseAction(r) ==
    /\ req[r].step = "parse"
    /\ req' = [req EXCEPT ![r].step = "check", ![r].url = UrlOf(req[r].path)]
    /\ UNCHANGED <<repos, origins, started, counters>>

\* A push's body is parsed before its repository is looked at.
PushUnparsed(r) ==
    /\ req[r].step = "check" /\ req[r].kind = "push"
    /\ Answer(r, "refused")
    /\ UNCHANGED <<repos, origins, started, counters>>

CheckRepoInAuthorisedList(r) ==
    /\ req[r].step = "check"
    /\ IF req[r].url \in repos
       THEN req' = [req EXCEPT ![r].step = IF req[r].kind = "push" THEN "chain" ELSE "forward"]
       ELSE Answer(r, "unauthorised")
    /\ UNCHANGED <<repos, origins, started, counters>>

\* The store cannot be read, by either lookup.
LookupFails(r) ==
    /\ req[r].step \in {"parse", "check"} /\ faults < MaxFaults
    /\ faults' = faults + 1
    /\ Answer(r, "refused")
    /\ UNCHANGED <<repos, origins, started, arrived, changes>>

\* The rest of the push chain lets it pass, blocks it or reports an error.
ChainEnds(r) ==
    /\ req[r].step = "chain"
    /\ \/ req' = [req EXCEPT ![r].step = "forward"]
       \/ Answer(r, "refused")
    /\ UNCHANGED <<repos, origins, started, counters>>

-----------------------------------------------------------------------------
(* Forwarding *)

\* Mutant: a known host stays in the path.
TargetUnstripped(path) == IF Head(path) \in origins THEN <<Head(path)>> \o path ELSE Legacy(path)

\* A path under a known host goes to that host, any other to github.com.
ResolveTarget(path) == IF Head(path) \in origins THEN path ELSE Legacy(path)

\* The upstream gets the request.
Sent(r, reply) ==
    req' = [req EXCEPT ![r].step = "done", ![r].reply = reply,
                       ![r].target = ResolveTarget(req[r].path), ![r].got = req[r].unread]

\* Its answer is the client's.
Forward(r) ==
    /\ req[r].step = "forward"
    /\ Sent(r, "upstream")
    /\ UNCHANGED <<repos, origins, started, counters>>

\* It could not be reached, or broke off; it may have received everything.
BadGateway(r) ==
    /\ req[r].step = "forward" /\ faults < MaxFaults
    /\ faults' = faults + 1
    /\ Sent(r, "badGateway")
    /\ UNCHANGED <<repos, origins, started, arrived, changes>>

Next ==
    \/ \E r \in Requests :
          \/ \E kind \in Kinds, path \in Paths, valid \in BOOLEAN, body \in Bodies :
                Arrive(r, kind, path, valid, body)
          \/ Leave(r) \/ HealthCheck(r) \/ RefuseInvalid(r) \/ BufferPackBody(r) \/ BufferFails(r)
          \/ ParseAction(r) \/ PushUnparsed(r) \/ CheckRepoInAuthorisedList(r) \/ LookupFails(r)
          \/ ChainEnds(r) \/ Forward(r) \/ BadGateway(r)
    \/ \E u \in Urls : ReposChange(u)
    \/ Restart

Spec == Init /\ [][Next]_vars

-----------------------------------------------------------------------------
(* Properties *)

\* The proxy can tell that a URL is under a host of its own: the host had a
\* repository when the process started ("the Go proxy resolves its origins at
\* startup", api_routes.go:437), and the URL is not that of an account of
\* github.com named like such a host.
Routable(u) ==
    /\ Head(u) \in Hosts(started)
    /\ Head(u) = Fallback => u[2] \notin Hosts(started)

\* What is forwarded reaches the repository that the chain accepted it for, which
\* was registered at some time while the request was under way; though path and
\* store are read three times, and the hosts were read once, long before.
ReachesWhatWasAccepted ==
    \A r \in Requests :
        req[r].target # Nothing /\ Routable(req[r].url) =>
            req[r].target = req[r].url /\ \E us \in req[r].seen : req[r].url \in us

\* A repository that stayed registered while a request for it was under way is not
\* refused as unknown, whichever others come and go: neither when its path names
\* the host nor when, as with clients older than that, it leaves out github.com.
\* A path that names a registered URL is for that one.
RegisteredIsServed ==
    \A r \in Requests :
        req[r].reply = "unauthorised" =>
            /\ \E us \in req[r].seen : req[r].path \notin us
            /\ \/ \E us \in req[r].seen : req[r].path \in us
               \/ \E us \in req[r].seen : Legacy(req[r].path) \notin us

\* The upstream gets of a body what the chain was given to examine, no more and no
\* less ("the body is also forwarded upstream unchanged", rawbody.go:11), whatever
\* the client sent and whether the chain read it or not.
ForwardsWhatWasExamined ==
    \A r \in Requests :
        req[r].target # Nothing => req[r].got = req[r].raw
=============================================================================
