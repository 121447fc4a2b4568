------------------------------ MODULE Lifecycle ------------------------------
(***************************************************************************)
(* The process from start to exit (cmd/git-proxy/main.go and               *)
(* internal/proxy/http/serve.go): default users, the seeding of the        *)
(* configured repositories, the upstream hosts read off the store, the     *)
(* listeners, the servers and their shutdown.  The store outlives the      *)
(* process, which may be killed between any two of its steps, and started  *)
(* again; while it serves, an administrator edits the repositories.        *)
(***************************************************************************)
EXTENDS Integers, Sequences, FiniteSets

CONSTANTS
    AuthorisedList,  \* the configured repositories, a sequence of urls
    Urls,            \* all urls a repository may have
    HostOf,          \* the upstream host of each url
    HttpServers,     \* the servers built by NewServers: "mgmt", "git"
    Schemes,         \* what each of them listens for: "http", "https"
    Ssh,             \* whether the SSH server is enabled
    Failing,         \* what may fail in this instance
    MaxStarts,       \* bound on starts of the process
    MaxEdits         \* bound on the administrator's edits

Servers == HttpServers \union (IF Ssh THEN {"ssh"} ELSE {})

\* The goroutines of the servers, each with a listener.
Listeners == (HttpServers \X Schemes) \union (IF Ssh THEN {<<"ssh", "tcp">>} ELSE {})
Of(server) == {l \in Listeners : l[1] = server}

DefaultUsers == {"admin", "user"}
Rights == {"canPush", "canAuthorise"}
Absent == {"absent"}    \* no repository has the url

Starting ==
    {"openStore", "defaultUsers", "listRepos", "seed", "grantPush",
     "grantAuthorise", "origins", "bind"}

Fallible == {"store", "bind", "listener"}

ASSUME LifecycleAssumption ==
    /\ AuthorisedList \in Seq(Urls)
    /\ "ssh" \notin HttpServers
    /\ Failing \subseteq Fallible
    /\ MaxStarts \in Nat /\ MaxEdits \in Nat

VARIABLES
    repos,      \* durable: the rights the user admin has on each repository
    users,      \* durable: the default users that exist
    phase,      \* where run stands: a start-up step, "serving" or "down"
    existing,   \* seedAuthorisedRepos: the urls it found in the store
    next,       \* ... and the index in the list it has come to
    origins,    \* the hosts the git proxy recognises, fixed at start-up
    listener,   \* the goroutines' listeners
    server,     \* each server's Serve: "idle", "selecting", "draining", "returned"
    received,   \* the goroutines whose result Serve has received
    firstErr,   \* the servers that return an error
    signal,     \* the context of serveAll is cancelled
    status,     \* exit status of the last run: 0, 1, or -1 for none
    fresh,      \* history: the repositories created since this start
    dropped,    \* history: the repositories deleted since this start
    starts,     \* number of starts so far
    edits       \* number of the administrator's edits so far

vars == <<repos, users, phase, existing, next, origins, listener, server,
          received, firstErr, signal, status, fresh, dropped, starts, edits>>

storeVars == <<repos, users, fresh, dropped>>
counters == <<starts, edits>>
seedVars == <<existing, next, origins>>
serveVars == <<listener, server, received, firstErr, signal>>

TypeOK ==
    /\ repos \in [Urls -> SUBSET Rights \union {Absent}]
    /\ users \subseteq DefaultUsers
    /\ phase \in Starting \union {"serving", "down"}
    /\ existing \subseteq Urls
    /\ next \in 1..(Len(AuthorisedList) + 1)
    /\ origins \subseteq {HostOf[u] : u \in Urls}
    /\ listener \in [Listeners -> {"unbound", "serving", "failed", "shut"}]
    /\ server \in [Servers -> {"idle", "selecting", "draining", "returned"}]
    /\ received \subseteq Listeners
    /\ firstErr \subseteq Servers
    /\ signal \in BOOLEAN
    /\ status \in {-1, 0, 1}
    /\ fresh \subseteq Urls /\ dropped \subseteq Urls
    /\ starts \in 0..MaxStarts /\ edits \in 0..MaxEdits

Init ==
    /\ repos = [u \in Urls |-> Absent]
    /\ users = {}
    /\ phase = "down"
    /\ existing = {} /\ next = 1 /\ origins = {}
    /\ listener = [l \in Listeners |-> "unbound"]
    /\ server = [s \in Servers |-> "idle"]
    /\ received = {} /\ firstErr = {}
    /\ signal = FALSE
    /\ status = -1
    /\ fresh = {} /\ dropped = {}
    /\ starts = 0 /\ edits = 0

Configured == {AuthorisedList[i] : i \in DOMAIN AuthorisedList}

Stored == {u \in Urls : repos[u] # Absent}

-----------------------------------------------------------------------------
(* Start-up *)

\* What the process holds in memory, as a new one has it.
FreshMemory ==
    /\ existing' = {} /\ next' = 1 /\ origins' = {}
    /\ listener' = [l \in Listeners |-> "unbound"]
    /\ server' = [s \in Servers |-> "idle"]
    /\ received' = {} /\ firstErr' = {}
    /\ signal' = FALSE

\* A new process; nothing of the last one is left but the store.
Start ==
    /\ phase = "down" /\ starts < MaxStarts
    /\ starts' = starts + 1
    /\ phase' = "openStore"
    /\ FreshMemory
    /\ status' = -1
    /\ fresh' = {} /\ dropped' = {}
    /\ UNCHANGED <<repos, users, edits>>

\* A step of run fails, and the process exits with status 1.
StartFails ==
    /\ \/ phase \in Starting \ {"bind"} /\ "store" \in Failing
       \/ phase = "bind" /\ "bind" \in Failing
       \/ /\ phase = "seed" /\ next <= Len(AuthorisedList)
          /\ AuthorisedList[next] \in Stored \ existing   \* urls are unique
    /\ phase' = "down"
    /\ status' = 1
    /\ FreshMemory
    /\ UNCHANGED <<storeVars, counters>>

\* openStore: migrations are applied, the pool connects.
OpenStore ==
    /\ phase = "openStore"
    /\ phase' = "defaultUsers"
    /\ UNCHANGED <<storeVars, seedVars, serveVars, status, counters>>

\* CreateDefaultAdmin, one user at a time, each only when it is missing.
CreateDefaultUser(u) ==
    /\ phase = "defaultUsers"
    /\ u = (IF "admin" \notin users THEN "admin" ELSE "user")
    /\ u \notin users
    /\ users' = users \union {u}
    /\ UNCHANGED <<repos, phase, seedVars, serveVars, status, fresh, dropped, counters>>

DefaultUsersExist ==
    /\ phase = "defaultUsers"
    /\ users = DefaultUsers
    /\ phase' = "listRepos"
    /\ UNCHANGED <<storeVars, seedVars, serveVars, status, counters>>

\* seedAuthorisedRepos reads the urls it need not seed ...
ListRepos ==
    /\ phase = "listRepos"
    /\ existing' = Stored
    /\ phase' = "seed"
    /\ UNCHANGED <<storeVars, next, origins, serveVars, status, counters>>

\* Mutant: admin's rights are granted on every configured repository.
SkipRepoGranting ==
    /\ phase = "seed" /\ next <= Len(AuthorisedList)
    /\ AuthorisedList[next] \in existing
    /\ repos' = [repos EXCEPT ![AuthorisedList[next]] = Rights]
    /\ next' = next + 1
    /\ UNCHANGED <<users, fresh, dropped, phase, existing, origins, serveVars, status, counters>>

\* ... skips them ...
SkipRepo ==
    /\ phase = "seed" /\ next <= Len(AuthorisedList)
    /\ AuthorisedList[next] \in existing
    /\ next' = next + 1
    /\ UNCHANGED <<storeVars, phase, existing, origins, serveVars, status, counters>>

\* ... and creates the others, with admin's rights in two further store calls.
CreateRepo ==
    /\ phase = "seed" /\ next <= Len(AuthorisedList)
    /\ AuthorisedList[next] \notin existing \union Stored
    /\ repos' = [repos EXCEPT ![AuthorisedList[next]] = {}]
    /\ fresh' = fresh \union {AuthorisedList[next]}
    /\ phase' = "grantPush"
    /\ UNCHANGED <<users, dropped, seedVars, serveVars, status, counters>>

GrantPush ==
    /\ phase = "grantPush"
    /\ repos' = [repos EXCEPT ![AuthorisedList[next]] = @ \union {"canPush"}]
    /\ phase' = "grantAuthorise"
    /\ UNCHANGED <<users, fresh, dropped, seedVars, serveVars, status, counters>>

GrantAuthorise ==
    /\ phase = "grantAuthorise"
    /\ repos' = [repos EXCEPT ![AuthorisedList[next]] = @ \union {"canAuthorise"}]
    /\ next' = next + 1
    /\ phase' = "seed"
    /\ UNCHANGED <<users, fresh, dropped, existing, origins, serveVars, status, counters>>

SeedingDone ==
    /\ phase = "seed" /\ next > Len(AuthorisedList)
    /\ phase' = "origins"
    /\ UNCHANGED <<storeVars, seedVars, serveVars, status, counters>>

\* Mutant: the hosts are those of the repositories found before the seeding.
ProxiedHostsOfExisting ==
    /\ phase = "origins"
    /\ origins' = {HostOf[u] : u \in existing}
    /\ phase' = "bind"
    /\ UNCHANGED <<storeVars, existing, next, serveVars, status, counters>>

\* proxiedHosts: the hosts of the store's repositories, for the whole run.
ProxiedHosts ==
    /\ phase = "origins"
    /\ origins' = {HostOf[u] : u \in Stored}
    /\ phase' = "bind"
    /\ UNCHANGED <<storeVars, existing, next, serveVars, status, counters>>

\* NewServers binds the listeners, and serveAll starts every server.  The SSH
\* server listens only once it serves.
Bind ==
    /\ phase = "bind"
    /\ phase' = "serving"
    /\ listener' = [l \in Listeners |-> IF l[1] = "ssh" THEN "unbound" ELSE "serving"]
    /\ server' = [s \in Servers |-> "selecting"]
    /\ UNCHANGED <<storeVars, seedVars, received, firstErr, signal, status, counters>>

-----------------------------------------------------------------------------
(* Serving *)

Signal ==
    /\ phase = "serving" /\ ~signal
    /\ signal' = TRUE
    /\ UNCHANGED <<storeVars, phase, seedVars, listener, server, received,
                   firstErr, status, counters>>

\* A goroutine's accept loop fails, and it sends its error to Serve.
ListenerFails(l) ==
    /\ phase = "serving" /\ "listener" \in Failing
    /\ l[1] \in HttpServers /\ listener[l] = "serving"
    /\ listener' = [listener EXCEPT ![l] = "failed"]
    /\ UNCHANGED <<storeVars, phase, seedVars, server, received, firstErr,
                   signal, status, counters>>

\* Serve leaves its select, on the signal or on a first result, and shuts its
\* servers down: what still serves ends without an error.
ShutDown(s, got) ==
    /\ server' = [server EXCEPT ![s] = "draining"]
    /\ listener' = [l \in Listeners |->
                       IF l[1] = s /\ listener[l] = "serving" THEN "shut" ELSE listener[l]]
    /\ received' = received \union got
    /\ firstErr' = firstErr \union {s : l \in got}

SelectSignal(s) ==
    /\ phase = "serving" /\ s \in HttpServers
    /\ server[s] = "selecting" /\ signal
    /\ ShutDown(s, {})
    /\ UNCHANGED <<storeVars, phase, seedVars, signal, status, counters>>

SelectResult(s) ==
    /\ phase = "serving" /\ s \in HttpServers
    /\ server[s] = "selecting"
    /\ \E l \in Of(s) : listener[l] = "failed" /\ ShutDown(s, {l})
    /\ UNCHANGED <<storeVars, phase, seedVars, signal, status, counters>>

\* Mutant: the results after the first are received and thrown away.
DrainBlindly(l) ==
    /\ phase = "serving"
    /\ server[l[1]] = "draining"
    /\ l \notin received /\ listener[l] \in {"failed", "shut"}
    /\ received' = received \union {l}
    /\ UNCHANGED <<storeVars, phase, seedVars, listener, server, firstErr, signal,
                   status, counters>>

\* The remaining results, one per goroutine.
Drain(l) ==
    /\ phase = "serving"
    /\ server[l[1]] = "draining"
    /\ l \notin received /\ listener[l] \in {"failed", "shut"}
    /\ received' = received \union {l}
    /\ firstErr' = firstErr \union (IF listener[l] = "failed" THEN {l[1]} ELSE {})
    /\ UNCHANGED <<storeVars, phase, seedVars, listener, server, signal, status, counters>>

\* Mutant: the result taken by the select is waited for again.
ServeReturnsLate(s) ==
    /\ phase = "serving"
    /\ server[s] = "draining" /\ Of(s) \subseteq received
    /\ \A l \in Of(s) : listener[l] # "failed"
    /\ server' = [server EXCEPT ![s] = "returned"]
    /\ UNCHANGED <<storeVars, phase, seedVars, listener, received, firstErr, signal,
                   status, counters>>

ServeReturns(s) ==
    /\ phase = "serving"
    /\ server[s] = "draining" /\ Of(s) \subseteq received
    /\ server' = [server EXCEPT ![s] = "returned"]
    /\ UNCHANGED <<storeVars, phase, seedVars, listener, received, firstErr, signal,
                   status, counters>>

\* The SSH server's Serve: it binds here, survives failing accepts, and returns
\* when the context is cancelled.
SshListens ==
    /\ phase = "serving" /\ Ssh
    /\ server["ssh"] = "selecting" /\ listener[<<"ssh", "tcp">>] = "unbound"
    /\ listener' = [listener EXCEPT ![<<"ssh", "tcp">>] = "serving"]
    /\ UNCHANGED <<storeVars, phase, seedVars, server, received, firstErr, signal,
                   status, counters>>

SshListenFails ==
    /\ phase = "serving" /\ Ssh /\ "bind" \in Failing
    /\ server["ssh"] = "selecting" /\ listener[<<"ssh", "tcp">>] = "unbound"
    /\ listener' = [listener EXCEPT ![<<"ssh", "tcp">>] = "failed"]
    /\ server' = [server EXCEPT !["ssh"] = "returned"]
    /\ firstErr' = firstErr \union {"ssh"}
    /\ UNCHANGED <<storeVars, phase, seedVars, received, signal, status, counters>>

SshStops ==
    /\ phase = "serving" /\ Ssh /\ signal
    /\ listener[<<"ssh", "tcp">>] = "serving"
    /\ listener' = [listener EXCEPT ![<<"ssh", "tcp">>] = "shut"]
    /\ server' = [server EXCEPT !["ssh"] = "returned"]
    /\ UNCHANGED <<storeVars, phase, seedVars, received, firstErr, signal, status, counters>>

\* serveAll has seen every server return; run closes the store, main exits.
Exit ==
    /\ phase = "serving"
    /\ \A s \in Servers : server[s] = "returned"
    /\ phase' = "down"
    /\ status' = IF firstErr = {} THEN 0 ELSE 1
    /\ UNCHANGED <<storeVars, seedVars, serveVars, counters>>

\* The process is killed; a signal before serveAll kills it too.
Crash ==
    /\ phase # "down"
    /\ phase' = "down"
    /\ status' = 1
    /\ FreshMemory
    /\ UNCHANGED <<storeVars, counters>>

-----------------------------------------------------------------------------
(* The administrator, while the management server serves *)

\* An edit: the management server still serves.
Edit ==
    /\ phase = "serving" /\ server["mgmt"] = "selecting"
    /\ edits < MaxEdits
    /\ edits' = edits + 1

AdminCreatesRepo(u) ==
    /\ Edit /\ repos[u] = Absent
    /\ repos' = [repos EXCEPT ![u] = {}]
    /\ fresh' = fresh \union {u}
    /\ UNCHANGED <<users, dropped, phase, seedVars, serveVars, status, starts>>

AdminDeletesRepo(u) ==
    /\ Edit /\ repos[u] # Absent
    /\ repos' = [repos EXCEPT ![u] = Absent]
    /\ dropped' = dropped \union {u}
    /\ UNCHANGED <<users, fresh, phase, seedVars, serveVars, status, starts>>

AdminRevokes(u, right) ==
    /\ Edit /\ repos[u] # Absent /\ right \in repos[u]
    /\ repos' = [repos EXCEPT ![u] = @ \ {right}]
    /\ UNCHANGED <<users, fresh, dropped, phase, seedVars, serveVars, status, starts>>

-----------------------------------------------------------------------------
(* The specification *)

StartUp ==
    \/ OpenStore \/ (\E u \in DefaultUsers : CreateDefaultUser(u)) \/ DefaultUsersExist
    \/ ListRepos \/ SkipRepo \/ CreateRepo \/ GrantPush \/ GrantAuthorise
    \/ SeedingDone \/ ProxiedHosts \/ Bind \/ StartFails

Serving ==
    \/ \E s \in HttpServers : SelectSignal(s) \/ SelectResult(s) \/ ServeReturns(s)
    \/ \E l \in Listeners : Drain(l)
    \/ SshListens \/ SshListenFails \/ SshStops
    \/ Exit

Admin ==
    \E u \in Urls :
        \/ AdminCreatesRepo(u) \/ AdminDeletesRepo(u)
        \/ \E right \in Rights : AdminRevokes(u, right)

Next ==
    \/ Start \/ StartUp \/ Signal \/ Serving \/ Crash \/ Admin
    \/ \E l \in Listeners : ListenerFails(l)

Spec == Init /\ [][Next]_vars

\* The goroutines of the process run; Shutdown gives up after its timeout.
Fairness == WF_vars(StartUp) /\ WF_vars(Serving)

FairSpec == Spec /\ Fairness

-----------------------------------------------------------------------------
(* Properties *)

\* A process that serves has every configured repository in its store, unless an
\* administrator deleted it since, and recognises the host of every repository
\* that was not created since, however often it was killed while seeding.
ServesWhatItSeeded ==
    phase = "serving" =>
        /\ Configured \subseteq Stored \union dropped
        /\ \A u \in Stored :
              HostOf[u] \in origins \/ u \in fresh \ Configured

\* Start-up does not touch the rights of a repository that was there before:
\* what an administrator took away stays away (seedAuthorisedRepos grants rights
\* "on newly created ones" only).
RestartKeepsRights ==
    [][\A u \in Urls :
          phase # "serving" /\ repos[u] # Absent /\ u \notin fresh
             => repos'[u] = repos[u]]_vars

\* An exit status of 0 means that no listener failed, whichever of the signal
\* and the failures each Serve saw first.
FailuresAreReported ==
    phase = "down" /\ status = 0 => \A l \in Listeners : listener[l] # "failed"

\* A signal ends the process, whatever failed before or fails meanwhile.
SignalStopsTheProcess == signal ~> phase = "down"
=============================================================================
