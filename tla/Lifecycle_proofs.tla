-------------------------- MODULE Lifecycle_proofs --------------------------
(***************************************************************************)
(* Proofs about Lifecycle, for every configuration, every set of servers   *)
(* and listeners, whatever fails, and any number of starts, kills and      *)
(* edits.                                                                  *)
(***************************************************************************)
EXTENDS Lifecycle, TLAPS

Seeding == {"seed", "grantPush", "grantAuthorise"}
Seeded == {"origins", "bind", "serving"}
Granting == {"grantPush", "grantAuthorise"}
BeforeSeeding == {"openStore", "defaultUsers", "listRepos"}

\* The part of TypeOK that safety needs.
Typed ==
    /\ repos \in [Urls -> (SUBSET Rights) \union {Absent}]
    /\ listener \in [Listeners -> {"unbound", "serving", "failed", "shut"}]
    /\ server \in [Servers -> {"idle", "selecting", "draining", "returned"}]
    /\ next \in Nat \ {0}

\* Up to its place in the list start-up has found or made every repository; nobody
\* deletes one before it serves.
SeedInv ==
    /\ phase \in Starting => dropped = {}
    /\ phase \in BeforeSeeding => next = 1
    /\ phase \in Seeding => existing \subseteq Stored
    /\ phase \in Seeding \union Seeded =>
          \A i \in DOMAIN AuthorisedList :
              i < next => AuthorisedList[i] \in Stored \union dropped
    /\ phase \in Granting =>
          next \in DOMAIN AuthorisedList /\ AuthorisedList[next] \in Stored \intersect fresh
    /\ phase \in Seeded => next > Len(AuthorisedList)

\* The hosts are those of the repositories there were before it served, the
\* configured ones among them even if they were deleted and created again.
OriginsInv ==
    /\ phase \in {"bind", "serving"} => \A u \in Configured : HostOf[u] \in origins
    /\ phase = "bind" => \A u \in Stored : HostOf[u] \in origins
    /\ phase = "serving" =>
          \A u \in Stored : HostOf[u] \in origins \/ u \in fresh \ Configured

\* A failure that was received is remembered, and a server that returned has
\* received the result of each of its goroutines.
ResultsInv ==
    /\ phase \in Starting => received = {} /\ \A s \in Servers : server[s] = "idle"
    /\ \A l \in Listeners :
          /\ l \in received => listener[l] \in {"failed", "shut"}
          /\ listener[l] = "failed" /\ (l \in received \/ l[1] = "ssh") => l[1] \in firstErr
    /\ \A s \in HttpServers : server[s] = "returned" => Of(s) \subseteq received

LifecycleInv == Typed /\ SeedInv /\ OriginsInv /\ ResultsInv /\ FailuresAreReported

-----------------------------------------------------------------------------
(* Facts about the constants *)

LEMMA ConfiguredUrls ==
  /\ Len(AuthorisedList) \in Nat /\ DOMAIN AuthorisedList = 1..Len(AuthorisedList)
  /\ \A i \in DOMAIN AuthorisedList : AuthorisedList[i] \in Urls
  BY LifecycleAssumption

LEMMA RightsAreNotAbsent ==
  \A rights \in SUBSET Rights : rights # Absent
  BY DEF Rights, Absent

LEMMA OwnersOfListeners ==
  /\ HttpServers \subseteq Servers /\ "ssh" \notin HttpServers
  /\ Ssh => "ssh" \in Servers /\ <<"ssh", "tcp">> \in Listeners
  /\ \A l \in Listeners : l[1] \in HttpServers \/ (l[1] = "ssh" /\ l = <<"ssh", "tcp">>)
  /\ \A s \in HttpServers : \A l \in Of(s) : l \in Listeners /\ l[1] = s
  BY LifecycleAssumption DEF Servers, Listeners, Of

-----------------------------------------------------------------------------
(* Start-up *)

LEMMA InitLifecycle ==
  ASSUME Init
  PROVE  LifecycleInv
  BY OwnersOfListeners
     DEF Init, LifecycleInv, Typed, SeedInv, OriginsInv, ResultsInv, FailuresAreReported,
         Starting, BeforeSeeding, Seeding, Seeded, Granting

\* A process that begins, fails or is killed has nothing to lose but its memory.
LEMMA FreshMemoryIsRight ==
  ASSUME LifecycleInv, FreshMemory, repos' = repos,
         \/ phase' = "openStore" /\ dropped' = {}
         \/ phase' = "down" /\ status' # 0
  PROVE  LifecycleInv'
<1>1. Typed'
  BY DEF LifecycleInv, Typed, FreshMemory
<1>2. SeedInv' /\ OriginsInv'
  BY DEF SeedInv, OriginsInv, FreshMemory, Starting, BeforeSeeding, Seeding, Seeded, Granting
<1>3. ResultsInv'
  BY OwnersOfListeners DEF ResultsInv, FreshMemory
<1>4. FailuresAreReported'
  BY DEF FailuresAreReported
<1>. QED
  BY <1>1, <1>2, <1>3, <1>4 DEF LifecycleInv

\* Start-up touches neither listeners nor servers before it binds.
LEMMA StartingKeepsResults ==
  ASSUME LifecycleInv, phase \in Starting, phase' \in Starting,
         UNCHANGED <<listener, server, received, firstErr>>
  PROVE  ResultsInv' /\ FailuresAreReported'
  BY DEF LifecycleInv, ResultsInv, FailuresAreReported, Starting

LEMMA SeedingKeepsInv ==
  ASSUME LifecycleInv,
         \/ OpenStore \/ (\E u \in DefaultUsers : CreateDefaultUser(u)) \/ DefaultUsersExist
         \/ ListRepos \/ SkipRepo \/ CreateRepo \/ GrantPush \/ GrantAuthorise
         \/ SeedingDone \/ ProxiedHosts
  PROVE  LifecycleInv'
<1>0. phase \in Starting /\ phase' \in Starting
      /\ UNCHANGED <<listener, server, received, firstErr, dropped>>
  BY DEF OpenStore, CreateDefaultUser, DefaultUsersExist, ListRepos, SkipRepo, CreateRepo,
     GrantPush, GrantAuthorise, SeedingDone, ProxiedHosts, storeVars, seedVars, serveVars, Starting
<1>1. ResultsInv' /\ FailuresAreReported' /\ dropped = {} /\ dropped' = {}
  BY <1>0, StartingKeepsResults DEF LifecycleInv, SeedInv
<1>2. CASE \/ OpenStore \/ (\E u \in DefaultUsers : CreateDefaultUser(u)) \/ DefaultUsersExist
  <2>1. phase' \in {"defaultUsers", "listRepos"} /\ next = 1 /\ UNCHANGED <<repos, next>>
    BY <1>2 DEF OpenStore, CreateDefaultUser, DefaultUsersExist, storeVars, seedVars,
       LifecycleInv, SeedInv, BeforeSeeding
  <2>2. SeedInv' /\ OriginsInv'
    BY <1>1, <2>1 DEF SeedInv, OriginsInv, Starting, BeforeSeeding, Seeding, Seeded, Granting
  <2>. QED
    BY <1>0, <1>1, <2>1, <2>2 DEF LifecycleInv, Typed
<1>3. CASE ListRepos
  <2>1. /\ phase' = "seed" /\ existing' = Stored /\ UNCHANGED <<repos, next>> /\ phase = "listRepos"
        /\ next = 1
    BY <1>3 DEF ListRepos, storeVars, LifecycleInv, SeedInv, BeforeSeeding
  <2>2. SeedInv' /\ OriginsInv'
    BY <1>1, <2>1, ConfiguredUrls
       DEF SeedInv, OriginsInv, Starting, BeforeSeeding, Seeding, Seeded, Granting, Stored
  <2>. QED
    BY <1>0, <1>1, <2>1, <2>2 DEF LifecycleInv, Typed
<1>4. CASE SkipRepo
  <2>1. /\ phase = "seed" /\ phase' = "seed" /\ next \in DOMAIN AuthorisedList /\ next' = next + 1
        /\ AuthorisedList[next] \in existing /\ UNCHANGED <<repos, existing>> /\ next \in Nat \ {0}
    BY <1>4, ConfiguredUrls DEF SkipRepo, storeVars, LifecycleInv, Typed
  <2>2. SeedInv' /\ OriginsInv'
    <3>1. \A i \in DOMAIN AuthorisedList : i < next' => i < next \/ i = next
      BY <2>1, ConfiguredUrls
    <3>2. Stored' = Stored
      BY <2>1 DEF Stored
    <3>. QED
      BY <1>1, <2>1, <3>1, <3>2 DEF LifecycleInv, SeedInv, OriginsInv, Starting, BeforeSeeding,
         Seeding, Seeded, Granting
  <2>. QED
    BY <1>0, <1>1, <2>1, <2>2 DEF LifecycleInv, Typed
<1>5. CASE CreateRepo
  <2> DEFINE u == AuthorisedList[next]
  <2>1. /\ phase = "seed" /\ phase' = "grantPush" /\ next \in DOMAIN AuthorisedList /\ u \in Urls
        /\ repos' = [repos EXCEPT ![u] = {}] /\ fresh' = fresh \union {u}
        /\ UNCHANGED <<existing, next>>
    BY <1>5, ConfiguredUrls DEF CreateRepo, seedVars, LifecycleInv, Typed
  <2>2. Typed' /\ Stored' = Stored \union {u}
    BY <1>0, <2>1, RightsAreNotAbsent DEF LifecycleInv, Typed, Stored
  <2>3. SeedInv' /\ OriginsInv'
    BY <1>1, <2>1, <2>2 DEF LifecycleInv, SeedInv, OriginsInv, Starting, BeforeSeeding, Seeding,
       Seeded, Granting
  <2>. QED
    BY <1>1, <2>2, <2>3 DEF LifecycleInv
<1>6. CASE GrantPush \/ GrantAuthorise
  <2> DEFINE u == AuthorisedList[next]
  <2>1. PICK right \in Rights : repos' = [repos EXCEPT ![u] = @ \union {right}]
    BY <1>6 DEF GrantPush, GrantAuthorise, Rights
  <2>2. /\ phase \in Granting /\ next \in DOMAIN AuthorisedList /\ u \in Urls /\ u \in Stored
        /\ UNCHANGED <<existing, fresh>> /\ next \in Nat \ {0}
    BY <1>6, ConfiguredUrls
       DEF GrantPush, GrantAuthorise, seedVars, LifecycleInv, SeedInv, Granting, Typed
  <2>3. repos[u] \in SUBSET Rights
    BY <2>2 DEF LifecycleInv, Typed, Stored
  <2>4. repos' \in [Urls -> (SUBSET Rights) \union {Absent}] /\ Stored' = Stored
    BY <2>1, <2>2, <2>3, RightsAreNotAbsent DEF LifecycleInv, Typed, Stored
  <2>5. CASE GrantPush
    <3>1. phase' = "grantAuthorise" /\ next' = next
      BY <2>5 DEF GrantPush, seedVars
    <3>2. SeedInv' /\ OriginsInv'
      BY <1>1, <2>2, <2>4, <3>1 DEF LifecycleInv, SeedInv, OriginsInv, Starting, BeforeSeeding,
         Seeding, Seeded, Granting
    <3>. QED
      BY <1>0, <1>1, <2>4, <3>1, <3>2 DEF LifecycleInv, Typed
  <2>6. CASE GrantAuthorise
    <3>1. phase' = "seed" /\ next' = next + 1
      BY <2>6 DEF GrantAuthorise
    <3>2. \A i \in DOMAIN AuthorisedList : i < next' => i < next \/ i = next
      BY <2>2, <3>1, ConfiguredUrls
    <3>3. SeedInv' /\ OriginsInv'
      BY <1>1, <2>2, <2>4, <3>1, <3>2 DEF LifecycleInv, SeedInv, OriginsInv, Starting,
         BeforeSeeding, Seeding, Seeded, Granting
    <3>. QED
      BY <1>0, <1>1, <2>2, <2>4, <3>1, <3>3 DEF LifecycleInv, Typed
  <2>. QED
    BY <1>6, <2>5, <2>6
<1>7. CASE SeedingDone
  <2>1. phase = "seed" /\ next > Len(AuthorisedList) /\ phase' = "origins"
        /\ UNCHANGED <<repos, existing, next>>
    BY <1>7 DEF SeedingDone, storeVars, seedVars
  <2>2. SeedInv' /\ OriginsInv'
    BY <1>1, <2>1 DEF LifecycleInv, SeedInv, OriginsInv, Starting, BeforeSeeding, Seeding,
       Seeded, Granting, Stored
  <2>. QED
    BY <1>0, <1>1, <2>1, <2>2 DEF LifecycleInv, Typed
<1>8. CASE ProxiedHosts
  <2>1. phase = "origins" /\ phase' = "bind" /\ origins' = {HostOf[u] : u \in Stored}
        /\ UNCHANGED <<repos, existing, next>>
    BY <1>8 DEF ProxiedHosts, storeVars
  <2>2. Stored' = Stored
    BY <2>1 DEF Stored
  <2>3. \A i \in DOMAIN AuthorisedList : i < next /\ AuthorisedList[i] \in Stored
    BY <1>1, <2>1, ConfiguredUrls DEF LifecycleInv, SeedInv, Seeded, Typed
  <2>4. SeedInv'
    BY <1>1, <2>1, <2>2, <2>3 DEF LifecycleInv, SeedInv, Starting, BeforeSeeding, Seeding,
       Seeded, Granting
  <2>5. OriginsInv'
    BY <2>1, <2>2, <2>3 DEF OriginsInv, Configured
  <2>. QED
    BY <1>0, <1>1, <2>1, <2>4, <2>5 DEF LifecycleInv, Typed
<1>. QED
  BY <1>2, <1>3, <1>4, <1>5, <1>6, <1>7, <1>8

LEMMA BindKeepsInv ==
  ASSUME LifecycleInv, Bind
  PROVE  LifecycleInv'
<1>1. /\ phase = "bind" /\ phase' = "serving" /\ received = {} /\ received' = {}
      /\ UNCHANGED <<repos, fresh, dropped, existing, next, origins>>
      /\ server' = [s \in Servers |-> "selecting"]
      /\ listener' = [l \in Listeners |-> IF l[1] = "ssh" THEN "unbound" ELSE "serving"]
  BY DEF Bind, storeVars, seedVars, LifecycleInv, ResultsInv, Starting
<1>2. SeedInv' /\ OriginsInv'
  BY <1>1 DEF LifecycleInv, SeedInv, OriginsInv, Starting, BeforeSeeding, Seeding, Seeded,
     Granting, Stored
<1>3. ResultsInv' /\ FailuresAreReported'
  BY <1>1, OwnersOfListeners DEF ResultsInv, FailuresAreReported, Starting
<1>4. Typed'
  BY <1>1 DEF LifecycleInv, Typed
<1>. QED
  BY <1>2, <1>3, <1>4 DEF LifecycleInv

-----------------------------------------------------------------------------
(* Serving *)

\* What the store and start-up left is not touched.
LEMMA ServingKeepsSeeds ==
  ASSUME LifecycleInv, phase = "serving", phase' \in {"serving", "down"},
         UNCHANGED <<storeVars, seedVars>>
  PROVE  SeedInv' /\ OriginsInv' /\ next' \in Nat \ {0}
         /\ repos' \in [Urls -> (SUBSET Rights) \union {Absent}]
  BY DEF LifecycleInv, Typed, SeedInv, OriginsInv, storeVars, seedVars, Starting, BeforeSeeding,
     Seeding, Seeded, Granting, Stored

LEMMA ShutDownKeepsResults ==
  ASSUME LifecycleInv, phase = "serving", phase' = "serving", NEW s \in HttpServers,
         server[s] = "selecting", NEW got \in SUBSET Of(s),
         \A l \in got : listener[l] = "failed", ShutDown(s, got)
  PROVE  ResultsInv' /\ server' \in [Servers -> {"idle", "selecting", "draining", "returned"}]
         /\ listener' \in [Listeners -> {"unbound", "serving", "failed", "shut"}]
<1>1. \A l \in Listeners : listener'[l] = "failed" <=> listener[l] = "failed"
  BY DEF ShutDown, LifecycleInv, Typed
<1>2. \A l \in Listeners : listener[l] \in {"failed", "shut"} => listener'[l] = listener[l]
  BY DEF ShutDown, LifecycleInv, Typed
<1>3. \A l \in got : l \in Listeners /\ l[1] = s /\ s \in firstErr'
  BY OwnersOfListeners DEF ShutDown
<1>4. firstErr \subseteq firstErr' /\ received' = received \union got
  BY DEF ShutDown
<1>5. \A l \in Listeners :
        /\ l \in received' => listener'[l] \in {"failed", "shut"}
        /\ listener'[l] = "failed" /\ (l \in received' \/ l[1] = "ssh") => l[1] \in firstErr'
  BY <1>1, <1>2, <1>3, <1>4 DEF LifecycleInv, ResultsInv
<1>6. \A x \in HttpServers : server'[x] = "returned" => Of(x) \subseteq received'
  BY <1>4, OwnersOfListeners DEF LifecycleInv, ResultsInv, ShutDown, Typed
<1>7. server' \in [Servers -> {"idle", "selecting", "draining", "returned"}]
      /\ listener' \in [Listeners -> {"unbound", "serving", "failed", "shut"}]
  BY OwnersOfListeners DEF LifecycleInv, ShutDown, Typed
<1>. QED
  BY <1>5, <1>6, <1>7 DEF ResultsInv, Starting

LEMMA ServingKeepsInv ==
  ASSUME LifecycleInv, Serving \/ Signal \/ \E l \in Listeners : ListenerFails(l)
  PROVE  LifecycleInv'
<1>0. phase = "serving" /\ phase' \in {"serving", "down"} /\ UNCHANGED <<storeVars, seedVars>>
  BY DEF Serving, SelectSignal, SelectResult, ServeReturns, Drain, SshListens, SshListenFails,
     SshStops, Exit, Signal, ListenerFails
<1>1. SeedInv' /\ OriginsInv' /\ next' \in Nat \ {0}
      /\ repos' \in [Urls -> (SUBSET Rights) \union {Absent}]
  BY <1>0, ServingKeepsSeeds
<1>2. phase' = "serving" => FailuresAreReported'
  BY DEF FailuresAreReported
<1>3. ASSUME NEW s \in HttpServers, SelectSignal(s) \/ SelectResult(s)  PROVE LifecycleInv'
  <2>1. PICK got \in SUBSET Of(s) : ShutDown(s, got) /\ \A l \in got : listener[l] = "failed"
    <3>1. CASE SelectSignal(s)
      BY <3>1 DEF SelectSignal
    <3>2. CASE SelectResult(s)
      <4>1. PICK l \in Of(s) : listener[l] = "failed" /\ ShutDown(s, {l})
        BY <3>2 DEF SelectResult
      <4>. QED
        BY <4>1
    <3>. QED
      BY <1>3, <3>1, <3>2
  <2>2. server[s] = "selecting" /\ phase' = "serving"
    BY <1>3 DEF SelectSignal, SelectResult
  <2>3. ResultsInv' /\ server' \in [Servers -> {"idle", "selecting", "draining", "returned"}]
        /\ listener' \in [Listeners -> {"unbound", "serving", "failed", "shut"}]
    BY <1>0, <2>1, <2>2, ShutDownKeepsResults
  <2>. QED
    BY <1>1, <1>2, <2>2, <2>3 DEF LifecycleInv, Typed
<1>4. ASSUME NEW s \in HttpServers, ServeReturns(s)  PROVE LifecycleInv'
  <2>1. /\ server' = [server EXCEPT ![s] = "returned"] /\ Of(s) \subseteq received
        /\ phase' = "serving" /\ UNCHANGED <<listener, received, firstErr>>
    BY <1>0, <1>4 DEF ServeReturns
  <2>2. ResultsInv' /\ Typed'
    BY <1>1, <2>1, OwnersOfListeners DEF LifecycleInv, ResultsInv, Typed, Starting
  <2>. QED
    BY <1>1, <1>2, <2>1, <2>2 DEF LifecycleInv
<1>5. ASSUME NEW l \in Listeners, Drain(l)  PROVE LifecycleInv'
  <2>1. /\ listener[l] \in {"failed", "shut"} /\ received' = received \union {l}
        /\ firstErr' = firstErr \union (IF listener[l] = "failed" THEN {l[1]} ELSE {})
        /\ phase' = "serving" /\ UNCHANGED <<listener, server>>
    BY <1>0, <1>5 DEF Drain
  <2>2. ResultsInv' /\ Typed'
    BY <1>1, <2>1 DEF LifecycleInv, ResultsInv, Typed, Starting
  <2>. QED
    BY <1>1, <1>2, <2>1, <2>2 DEF LifecycleInv
<1>6. CASE SshListens \/ SshListenFails \/ SshStops
  <2> DEFINE ssh == <<"ssh", "tcp">>
  <2>1. PICK mark \in {"serving", "failed", "shut"} :
           /\ listener' = [listener EXCEPT ![ssh] = mark]
           /\ mark = "serving" => listener[ssh] = "unbound"
           /\ mark = "failed" => "ssh" \in firstErr'
    BY <1>6 DEF SshListens, SshListenFails, SshStops
  <2>2. /\ ssh \in Listeners /\ ssh[1] = "ssh" /\ phase' = "serving" /\ received' = received
        /\ firstErr \subseteq firstErr' /\ "ssh" \in Servers
        /\ server' = server \/ server' = [server EXCEPT !["ssh"] = "returned"]
    BY <1>0, <1>6, OwnersOfListeners DEF SshListens, SshListenFails, SshStops
  <2>3. Typed' /\ \A s \in HttpServers : server'[s] = server[s]
    BY <1>1, <2>1, <2>2, OwnersOfListeners DEF LifecycleInv, Typed
  <2>4. /\ listener'[ssh] = mark /\ \A l \in Listeners : l # ssh => listener'[l] = listener[l]
    BY <2>1, <2>2 DEF LifecycleInv, Typed
  <2>5. ASSUME NEW l \in Listeners
        PROVE  /\ l \in received' => listener'[l] \in {"failed", "shut"}
               /\ listener'[l] = "failed" /\ (l \in received' \/ l[1] = "ssh") => l[1] \in firstErr'
    <3>1. CASE l = ssh
      BY <2>1, <2>2, <2>4, <3>1 DEF LifecycleInv, ResultsInv
    <3>2. CASE l # ssh
      BY <2>2, <2>4, <3>2 DEF LifecycleInv, ResultsInv
    <3>. QED
      BY <3>1, <3>2
  <2>6. ResultsInv'
    BY <2>2, <2>3, <2>5 DEF LifecycleInv, ResultsInv, Starting
  <2>. QED
    BY <1>1, <1>2, <2>2, <2>3, <2>6 DEF LifecycleInv
<1>7. CASE Exit
  <2>1. /\ phase' = "down" /\ \A s \in Servers : server[s] = "returned"
        /\ status' = 0 => firstErr = {}
        /\ UNCHANGED <<listener, server, received, firstErr>>
    BY <1>7 DEF Exit, serveVars
  <2>2. FailuresAreReported'
    <3> SUFFICES ASSUME status' = 0, NEW l \in Listeners, listener[l] = "failed"  PROVE FALSE
      BY <2>1 DEF FailuresAreReported
    <3>1. l[1] \in HttpServers => l \in received
      BY <2>1, OwnersOfListeners DEF LifecycleInv, ResultsInv, Of
    <3>. QED
      BY <2>1, <3>1, OwnersOfListeners DEF LifecycleInv, ResultsInv
  <2>3. ResultsInv' /\ Typed'
    BY <1>1, <2>1 DEF LifecycleInv, ResultsInv, Typed, Starting
  <2>. QED
    BY <1>1, <2>2, <2>3 DEF LifecycleInv
<1>8. CASE Signal
  <2>1. phase' = "serving" /\ UNCHANGED <<listener, server, received, firstErr>>
    BY <1>0, <1>8 DEF Signal
  <2>2. ResultsInv' /\ Typed'
    BY <1>1, <2>1 DEF LifecycleInv, ResultsInv, Typed, Starting
  <2>. QED
    BY <1>1, <1>2, <2>1, <2>2 DEF LifecycleInv
<1>9. ASSUME NEW l \in Listeners, ListenerFails(l)  PROVE LifecycleInv'
  <2>1. /\ l[1] \in HttpServers /\ listener[l] = "serving"
        /\ listener' = [listener EXCEPT ![l] = "failed"]
        /\ phase' = "serving" /\ UNCHANGED <<server, received, firstErr>>
    BY <1>0, <1>9 DEF ListenerFails
  <2>2. ResultsInv' /\ Typed'
    BY <1>1, <2>1, OwnersOfListeners DEF LifecycleInv, ResultsInv, Typed, Starting
  <2>. QED
    BY <1>1, <1>2, <2>1, <2>2 DEF LifecycleInv
<1>. QED
  BY <1>3, <1>4, <1>5, <1>6, <1>7, <1>8, <1>9 DEF Serving

-----------------------------------------------------------------------------
(* The administrator *)

LEMMA AdminKeepsInv ==
  ASSUME LifecycleInv, Admin
  PROVE  LifecycleInv'
<1>0. phase = "serving" /\ phase' = "serving" /\ UNCHANGED <<seedVars, serveVars>>
  BY DEF Admin, AdminCreatesRepo, AdminDeletesRepo, AdminRevokes, Edit
<1>1. ResultsInv' /\ FailuresAreReported'
  BY <1>0 DEF LifecycleInv, ResultsInv, FailuresAreReported, serveVars, Starting
<1>2. /\ repos' \in [Urls -> (SUBSET Rights) \union {Absent}]
      /\ Stored \subseteq Stored' \union dropped' /\ dropped \subseteq dropped'
      /\ fresh \subseteq fresh' /\ Stored' \subseteq Stored \union fresh'
  <2>1. PICK u \in Urls : \/ AdminCreatesRepo(u) \/ AdminDeletesRepo(u)
                         \/ \E right \in Rights : AdminRevokes(u, right)
    BY DEF Admin
  <2>2. CASE AdminCreatesRepo(u)
    BY <2>2, RightsAreNotAbsent DEF AdminCreatesRepo, LifecycleInv, Typed, Stored
  <2>3. CASE AdminDeletesRepo(u)
    BY <2>3 DEF AdminDeletesRepo, LifecycleInv, Typed, Stored
  <2>4. ASSUME NEW right \in Rights, AdminRevokes(u, right)
        PROVE  /\ repos' \in [Urls -> (SUBSET Rights) \union {Absent}] /\ Stored' = Stored
               /\ UNCHANGED <<fresh, dropped>>
    <3>1. repos[u] \in SUBSET Rights /\ repos' = [repos EXCEPT ![u] = @ \ {right}]
      BY <2>4 DEF AdminRevokes, LifecycleInv, Typed
    <3>2. repos[u] \ {right} \in SUBSET Rights
      BY <3>1
    <3>. QED
      BY <2>4, <3>1, <3>2, RightsAreNotAbsent DEF AdminRevokes, LifecycleInv, Typed, Stored
  <2>. QED
    BY <2>1, <2>2, <2>3, <2>4
<1>3. SeedInv'
  BY <1>0, <1>2 DEF LifecycleInv, SeedInv, seedVars, Starting, BeforeSeeding, Seeding, Seeded,
     Granting
<1>4. OriginsInv'
  BY <1>0, <1>2 DEF LifecycleInv, OriginsInv, seedVars
<1>5. Typed'
  BY <1>0, <1>2 DEF LifecycleInv, Typed, seedVars, serveVars
<1>. QED
  BY <1>1, <1>3, <1>4, <1>5 DEF LifecycleInv

-----------------------------------------------------------------------------
(* The invariant *)

LEMMA LifecycleInvIsInductive ==
  ASSUME LifecycleInv, [Next]_vars
  PROVE  LifecycleInv'
<1>1. CASE Start
  BY <1>1, FreshMemoryIsRight DEF Start
<1>2. CASE StartFails \/ Crash
  BY <1>2, FreshMemoryIsRight DEF StartFails, Crash, storeVars
<1>3. CASE StartUp /\ ~StartFails
  BY <1>3, SeedingKeepsInv, BindKeepsInv DEF StartUp
<1>4. CASE Serving \/ Signal \/ \E l \in Listeners : ListenerFails(l)
  BY <1>4, ServingKeepsInv
<1>5. CASE Admin
  BY <1>5, AdminKeepsInv
<1>6. CASE UNCHANGED vars
  BY <1>6 DEF vars, LifecycleInv, Typed, SeedInv, OriginsInv, ResultsInv, FailuresAreReported,
     Stored
<1>. QED
  BY <1>1, <1>2, <1>3, <1>4, <1>5, <1>6 DEF Next, StartUp

LEMMA LifecycleInvIsInvariant == Spec => []LifecycleInv
<1>1. Init => LifecycleInv
  BY InitLifecycle
<1>2. LifecycleInv /\ [Next]_vars => LifecycleInv'
  BY LifecycleInvIsInductive
<1>. QED
  BY <1>1, <1>2, PTL DEF Spec

-----------------------------------------------------------------------------
(* What follows from it *)

\* A process that serves has what its configuration lists and knows every host it was
\* started with, whenever earlier ones were killed and whatever they left behind.
THEOREM SeededBeforeServing == Spec => []ServesWhatItSeeded
<1>1. LifecycleInv => ServesWhatItSeeded
  <2> SUFFICES ASSUME LifecycleInv, phase = "serving"
               PROVE  /\ Configured \subseteq Stored \union dropped
                      /\ \A u \in Stored : HostOf[u] \in origins \/ u \in fresh \ Configured
    BY DEF ServesWhatItSeeded
  <2>1. \A i \in DOMAIN AuthorisedList : i < next
    BY ConfiguredUrls DEF LifecycleInv, SeedInv, Seeded, Typed
  <2>. QED
    BY <2>1 DEF LifecycleInv, SeedInv, OriginsInv, Seeded, Configured
<1>. QED
  BY <1>1, LifecycleInvIsInvariant, PTL

\* A status of 0 never hides a listener that failed, in whatever order signal, failures
\* and results came.
THEOREM NoFailureIsHidden == Spec => []FailuresAreReported
<1>1. LifecycleInv => FailuresAreReported
  BY DEF LifecycleInv
<1>. QED
  BY <1>1, LifecycleInvIsInvariant, PTL

\* No start, however often it was tried before, gives back a right that was taken away.
THEOREM RevokedStaysRevoked == Spec => RestartKeepsRights
<1> DEFINE Kept == \A u \in Urls :
                     phase # "serving" /\ repos[u] # Absent /\ u \notin fresh
                        => repos'[u] = repos[u]
<1>1. LifecycleInv /\ [Next]_vars => [Kept]_vars
  <2> SUFFICES ASSUME LifecycleInv, Next, NEW u \in Urls, phase # "serving",
                      repos[u] # Absent, u \notin fresh
               PROVE  repos'[u] = repos[u]
    OBVIOUS
  <2>1. CASE UNCHANGED repos
    BY <2>1
  <2>2. CASE CreateRepo
    BY <2>2 DEF CreateRepo, Stored
  <2>3. CASE GrantPush \/ GrantAuthorise
    <3>1. AuthorisedList[next] \in fresh
      BY <2>3 DEF GrantPush, GrantAuthorise, LifecycleInv, SeedInv, Granting
    <3>. QED
      BY <2>3, <3>1 DEF GrantPush, GrantAuthorise, LifecycleInv, Typed
  <2>4. CASE Serving \/ Admin
    BY <2>4 DEF Serving, SelectSignal, SelectResult, ServeReturns, Drain, SshListens,
       SshListenFails, SshStops, Exit, Admin, AdminCreatesRepo, AdminDeletesRepo, AdminRevokes, Edit
  <2>5. Start \/ Signal \/ Crash \/ StartFails \/ (\E l \in Listeners : ListenerFails(l))
           => UNCHANGED repos
    BY DEF Start, Signal, Crash, StartFails, ListenerFails, storeVars
  <2>6. StartUp => CreateRepo \/ GrantPush \/ GrantAuthorise \/ UNCHANGED repos
    BY DEF StartUp, OpenStore, CreateDefaultUser, DefaultUsersExist, ListRepos, SkipRepo,
       SeedingDone, ProxiedHosts, Bind, StartFails, storeVars
  <2>. QED
    BY <2>1, <2>2, <2>3, <2>4, <2>5, <2>6 DEF Next
<1>. QED
  BY <1>1, LifecycleInvIsInvariant, PTL DEF Spec, RestartKeepsRights
=============================================================================
