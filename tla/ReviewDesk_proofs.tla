-------------------------- MODULE ReviewDesk_proofs --------------------------
(***************************************************************************)
(* Proofs about ReviewDesk, for every set of people, accounts, browsers,   *)
(* tokens, repositories and pushes, and any number of requests.            *)
(***************************************************************************)
EXTENDS ReviewDesk, FiniteSetTheorems, TLAPS

Decisions == Verdicts \union {"canceled"}
Record == [url : Urls, verdict : Verdicts \union {"canceled", None},
           reviewer : Username \union {Nobody}]

\* The part of TypeOK that safety needs; the calls are typed below.
Typed ==
    /\ accounts \in [Names -> Account \union {NoAccount}]
    /\ repos \in [Urls -> [id : Nat, canPush : SUBSET Username, canAuthorise : SUBSET Username]]
    /\ listed \in [Urls -> SUBSET Username]
    /\ pushes \in [Ids -> Record \union {NoPush}]
    /\ \A p \in Ids : pushes[p] # NoPush => pushes[p].url \in UrlsOf[p]
    /\ session \in [Browsers -> [username : Username \union {Nobody}, oidcState : BOOLEAN]]
    /\ pc \in [Browsers -> Steps \union {"idle"}]
    /\ call = [b \in Browsers |-> call[b]]
    /\ person \in [Browsers -> Subjects \union Names \union {None}]
    /\ created \in Nat

\* What a request in memory holds at a step.
CallTyped(step, c) ==
    /\ step \in {"findByOIDC", "createUser"} => c.sub \in Subjects
    /\ step \in {"push", "committer", "rights", "reviewer", "verdict"} =>
          c.verb \in Decisions /\ c.id \in Ids /\ c.username \in Username
    /\ step \in {"committer", "reviewer"} => c.verb \in Verdicts
    /\ step \in {"committer", "rights", "reviewer", "verdict"} =>
          c.url \in UrlsOf[c.id] /\ pushes[c.id] # NoPush
    /\ step \in {"target", "mutate"} => c.url \in Urls /\ c.right \in Rights /\ c.member \in Username
    /\ step = "insert" => c.url \in Urls /\ c.list \in PostedLists

\* A verdict on its way was checked against the committer, and then against the list.
CallChecked(step, c) ==
    c.verb \in Verdicts =>
        /\ step \in {"rights", "reviewer", "verdict"} => Others(c)
        /\ step \in {"reviewer", "verdict"} => c.username \in listed[c.url]

CallInv == \A b \in Browsers : CallTyped(pc[b], call[b]) /\ CallChecked(pc[b], call[b])

\* A list's members were put on it.
ListedInv == \A u \in Urls : repos[u].canAuthorise \subseteq listed[u]

\* Who logged in has a username.
KnownSessions == \A b \in Browsers : person[b] # None => session[b].username \in Username

DeskInv ==
    Typed /\ CallInv /\ ListedInv /\ FourEyes /\ KnownSessions /\ SessionNamesItsAccount

-----------------------------------------------------------------------------
(* Accounts and lists only grow *)

AccountsGrow == \A n \in Names : accounts[n] # NoAccount => accounts'[n] = accounts[n]
ListedGrows == \A u \in Urls : listed[u] \subseteq listed'[u]
PushesStay == \A p \in Ids : pushes[p] # NoPush => pushes'[p] # NoPush

LEMMA UsernamesAreNotNobody ==
  /\ Nobody \notin Username
  /\ \A n \in Names : Stored(n) \in Username
  /\ \A u \in Username : u.name \in Names /\ Lower(u) \in Username
  BY DeskAssumption DEF Nobody, Username, Stored, Lower

LEMMA NoAccountIsNobodys ==
  /\ NoAccount.email = None /\ NoAccount.sub = None /\ NoAccount.password = FALSE
  /\ None \notin Emails /\ None \notin Subjects /\ None \notin Names
  BY DeskAssumption DEF NoAccount

LEMMA CommittersGrow ==
  ASSUME Typed, AccountsGrow, NEW p \in Ids
  PROVE  /\ Committers(p) \subseteq Committers(p)'
         /\ \A n \in Committers(p) : accounts'[n] = accounts[n]
<1>1. CommitterOf[p] \in Emails
  BY DeskAssumption
<1>2. \A n \in Committers(p) : accounts[n] # NoAccount
  BY <1>1, NoAccountIsNobodys DEF Committers
<1>. QED
  BY <1>2 DEF Committers, AccountsGrow

\* A request that nobody touches stays right.
LEMMA CallStays ==
  ASSUME Typed, AccountsGrow, ListedGrows, PushesStay, NEW step, NEW c,
         CallTyped(step, c), CallChecked(step, c)
  PROVE  CallTyped(step, c)' /\ CallChecked(step, c)'
<1>1. CallTyped(step, c)'
  BY DEF CallTyped, PushesStay
<1>2. ASSUME c.verb \in Verdicts, step \in {"rights", "reviewer", "verdict"}  PROVE Others(c)'
  <2>1. c.id \in Ids /\ Others(c)
    BY <1>2 DEF CallTyped, CallChecked
  <2>. QED
    BY <2>1, CommittersGrow DEF Others
<1>3. ASSUME c.verb \in Verdicts, step \in {"reviewer", "verdict"}
      PROVE  c.username \in listed'[c.url]
  BY <1>3, DeskAssumption DEF CallTyped, CallChecked, ListedGrows
<1>. QED
  BY <1>1, <1>2, <1>3 DEF CallChecked

\* One request moves to a step; the others stay.
LEMMA CallMoves ==
  ASSUME DeskInv, AccountsGrow, ListedGrows, PushesStay, NEW b \in Browsers,
         NEW step \in Steps \union {"idle"}, NEW c,
         pc' = [pc EXCEPT ![b] = step], call' = [call EXCEPT ![b] = c],
         CallTyped(step, c)', CallChecked(step, c)'
  PROVE  /\ CallInv'
         /\ pc' \in [Browsers -> Steps \union {"idle"}]
         /\ call' = [x \in Browsers |-> call'[x]]
<1>1. ASSUME NEW x \in Browsers
      PROVE  (CallTyped(pc[x], call[x]) /\ CallChecked(pc[x], call[x]))'
  <2>1. CASE x = b
    <3>1. pc'[x] = step /\ call'[x] = c
      BY <2>1 DEF DeskInv, Typed
    <3>. QED
      BY <3>1 DEF CallTyped, CallChecked, Others, Committers
  <2>2. CASE x # b
    <3>1. PICK k, d : k = pc[x] /\ d = call[x]
      OBVIOUS
    <3>2. pc'[x] = k /\ call'[x] = d
      BY <2>2, <3>1 DEF DeskInv, Typed
    <3>3. CallTyped(k, d) /\ CallChecked(k, d)
      BY <3>1 DEF DeskInv, CallInv
    <3>4. CallTyped(k, d)' /\ CallChecked(k, d)'
      BY <3>3, CallStays DEF DeskInv
    <3>. QED
      BY <3>2, <3>4 DEF CallTyped, CallChecked, Others, Committers
  <2>. QED
    BY <2>1, <2>2
<1>. QED
  BY <1>1 DEF DeskInv, Typed, CallInv

\* The response ends a request.
LEMMA FinishMoves ==
  ASSUME DeskInv, AccountsGrow, ListedGrows, PushesStay, NEW b \in Browsers, Finish(b)
  PROVE  /\ CallInv'
         /\ pc' \in [Browsers -> Steps \union {"idle"}]
         /\ call' = [x \in Browsers |-> call'[x]]
<1>1. CallTyped("idle", NoCall)' /\ CallChecked("idle", NoCall)'
  BY DEF CallTyped, CallChecked
<1>. QED
  BY <1>1, CallMoves DEF Finish

\* Nothing but the request's own memory changes.
LEMMA QuietKeeps ==
  ASSUME DeskInv, UNCHANGED <<accounts, repos, created, listed, pushes, session, person>>,
         CallInv', pc' \in [Browsers -> Steps \union {"idle"}],
         call' = [x \in Browsers |-> call'[x]]
  PROVE  DeskInv'
  BY DEF DeskInv, Typed, ListedInv, FourEyes, KnownSessions, SessionNamesItsAccount, Committers

LEMMA QuietGrows ==
  ASSUME UNCHANGED <<accounts, listed, pushes>>
  PROVE  AccountsGrow /\ ListedGrows /\ PushesStay
  BY DEF AccountsGrow, ListedGrows, PushesStay

LEMMA QuietStep ==
  ASSUME DeskInv, NEW b \in Browsers, NEW step \in Steps, NEW c,
         pc' = [pc EXCEPT ![b] = step], call' = [call EXCEPT ![b] = c],
         UNCHANGED <<accounts, repos, created, listed, pushes, session, person>>,
         CallTyped(step, c), CallChecked(step, c)
  PROVE  DeskInv'
<1>1. CallTyped(step, c)' /\ CallChecked(step, c)'
  BY DEF CallTyped, CallChecked, Others, Committers
<1>. QED
  BY <1>1, QuietGrows, CallMoves, QuietKeeps

LEMMA QuietFinish ==
  ASSUME DeskInv, NEW b \in Browsers, Finish(b),
         UNCHANGED <<accounts, repos, created, listed, pushes, session, person>>
  PROVE  DeskInv'
  BY QuietGrows, FinishMoves, QuietKeeps

-----------------------------------------------------------------------------
(* Reading steps *)

LEMMA CallersKnown ==
  ASSUME Typed, NEW b \in Browsers, NEW caller \in Callers(b)
  PROVE  caller.username \in Username
<1>1. session[b].username \in Username \union {Nobody}
      /\ TokenOf[b] \in [username : Username, admin : BOOLEAN] \union {NoToken}
  BY DeskAssumption DEF Typed
<1>. QED
  BY <1>1, UsernamesAreNotNobody DEF Callers

LEMMA VerdictReadsKeepInv ==
  ASSUME DeskInv, NEW b \in Browsers,
         \/ \E verb \in Decisions, p \in Ids : Decide(b, verb, p)
         \/ ReadPush(b) \/ ReadCommitter(b) \/ ReadRights(b) \/ ReadReviewer(b)
  PROVE  DeskInv'
<1>0. /\ CallTyped(pc[b], call[b]) /\ CallChecked(pc[b], call[b])
      /\ call' = [call EXCEPT ![b] = call[b]] <=> call' = call
  BY DEF DeskInv, CallInv, Typed
<1>1. CASE \E verb \in Decisions, p \in Ids : Decide(b, verb, p)
  <2>1. PICK verb \in Decisions, p \in Ids, caller \in Callers(b) :
           /\ pc' = [pc EXCEPT ![b] = "push"]
           /\ call' = [call EXCEPT ![b] = [verb |-> verb, id |-> p, username |-> caller.username]]
           /\ UNCHANGED <<accounts, repos, created, listed, pushes, session, person>>
    BY <1>1 DEF Decide, Begin, repoVars, loginVars
  <2> DEFINE c == [verb |-> verb, id |-> p, username |-> caller.username]
  <2>2. CallTyped("push", c) /\ CallChecked("push", c)
    BY <2>1, CallersKnown DEF CallTyped, CallChecked, DeskInv
  <2>. QED
    BY <2>1, <2>2, QuietStep DEF Steps
<1>2. CASE ReadPush(b)
  <2>1. UNCHANGED <<accounts, repos, created, listed, pushes, session, person>> /\ pc[b] = "push"
    BY <1>2 DEF ReadPush, repoVars, loginVars
  <2>2. CASE Finish(b)
    BY <2>1, <2>2, QuietFinish
  <2>3. CASE pushes[call[b].id] # NoPush
    <3> DEFINE c == [verb |-> call[b].verb, id |-> call[b].id, username |-> call[b].username,
                     url |-> pushes[call[b].id].url]
               step == IF call[b].verb = "canceled" THEN "rights" ELSE "committer"
    <3>1. pc' = [pc EXCEPT ![b] = step] /\ call' = [call EXCEPT ![b] = c]
      BY <1>2, <2>3 DEF ReadPush
    <3>2. /\ call[b].verb \in Decisions /\ call[b].id \in Ids /\ call[b].username \in Username
          /\ pushes[call[b].id].url \in UrlsOf[call[b].id]
      BY <1>0, <2>1, <2>3 DEF CallTyped, DeskInv, Typed
    <3>3. CallTyped(step, c) /\ CallChecked(step, c)
      BY <2>3, <3>2 DEF CallTyped, CallChecked, Decisions, Verdicts
    <3>. QED
      BY <2>1, <3>1, <3>3, QuietStep DEF Steps
  <2>. QED
    BY <1>2, <2>2, <2>3 DEF ReadPush
<1>3. CASE ReadCommitter(b)
  <2>1. UNCHANGED <<accounts, repos, created, listed, pushes, session, person>> /\ pc[b] = "committer"
    BY <1>3 DEF ReadCommitter, repoVars, loginVars
  <2>2. CASE Goto(b, "rights") /\ Others(call[b])
    <3>1. CallTyped("rights", call[b]) /\ CallChecked("rights", call[b])
      BY <1>0, <2>1, <2>2 DEF CallTyped, CallChecked
    <3>. QED
      BY <1>0, <2>1, <2>2, <3>1, QuietStep DEF Goto, Steps
  <2>. QED
    BY <1>3, <2>1, <2>2, QuietFinish DEF ReadCommitter
<1>4. CASE ReadRights(b)
  <2>1. UNCHANGED <<accounts, repos, created, listed, pushes, session, person>> /\ pc[b] = "rights"
    BY <1>4 DEF ReadRights, repoVars, loginVars
  <2>2. CASE Goto(b, IF call[b].verb = "canceled" THEN "verdict" ELSE "reviewer") /\ Allowed(call[b])
    <3> DEFINE step == IF call[b].verb = "canceled" THEN "verdict" ELSE "reviewer"
    <3>1. call[b].verb \in Verdicts => call[b].username \in listed[call[b].url]
      BY <1>0, <2>1, <2>2, DeskAssumption DEF Allowed, CallTyped, DeskInv, ListedInv, Verdicts
    <3>2. CallTyped(step, call[b]) /\ CallChecked(step, call[b])
      BY <1>0, <2>1, <3>1 DEF CallTyped, CallChecked, Decisions, Verdicts
    <3>. QED
      BY <1>0, <2>1, <2>2, <3>2, QuietStep DEF Goto, Steps
  <2>. QED
    BY <1>4, <2>1, <2>2, QuietFinish DEF ReadRights
<1>5. CASE ReadReviewer(b)
  <2>1. UNCHANGED <<accounts, repos, created, listed, pushes, session, person>> /\ pc[b] = "reviewer"
    BY <1>5 DEF ReadReviewer, repoVars, loginVars
  <2>2. CASE Goto(b, "verdict")
    <3>1. CallTyped("verdict", call[b]) /\ CallChecked("verdict", call[b])
      BY <1>0, <2>1 DEF CallTyped, CallChecked
    <3>. QED
      BY <1>0, <2>1, <2>2, <3>1, QuietStep DEF Goto, Steps
  <2>. QED
    BY <1>5, <2>1, <2>2, QuietFinish DEF ReadReviewer
<1>. QED
  BY <1>1, <1>2, <1>3, <1>4, <1>5

LEMMA AdministrationReadsKeepInv ==
  ASSUME DeskInv, NEW b \in Browsers,
         \/ \E u \in Urls, right \in Rights, member \in Username, add \in BOOLEAN :
               ChangeList(b, u, right, member, add)
         \/ ReadTarget(b)
         \/ \E u \in Urls, list \in PostedLists : CreateRepo(b, u, list)
  PROVE  DeskInv'
<1>1. CASE \E u \in Urls, right \in Rights, member \in Username, add \in BOOLEAN :
             ChangeList(b, u, right, member, add)
  <2>1. PICK u \in Urls, right \in Rights, member \in Username, add \in BOOLEAN :
           ChangeList(b, u, right, member, add)
    BY <1>1
  <2> DEFINE c == [verb |-> "change", url |-> u, id |-> repos[u].id, right |-> right,
                   member |-> member, add |-> add]
  <2>2. /\ pc' = [pc EXCEPT ![b] = "target"] /\ call' = [call EXCEPT ![b] = c]
        /\ UNCHANGED <<accounts, repos, created, listed, pushes, session, person>>
    BY <2>1 DEF ChangeList, Begin, repoVars, loginVars
  <2>3. CallTyped("target", c) /\ CallChecked("target", c)
    BY DEF CallTyped, CallChecked
  <2>. QED
    BY <2>2, <2>3, QuietStep DEF Steps
<1>2. CASE ReadTarget(b)
  <2>1. UNCHANGED <<accounts, repos, created, listed, pushes, session, person>> /\ pc[b] = "target"
        /\ CallTyped(pc[b], call[b])
    BY <1>2 DEF ReadTarget, repoVars, loginVars, DeskInv, CallInv
  <2>2. CASE Goto(b, "mutate")
    <3>1. CallTyped("mutate", call[b]) /\ CallChecked("mutate", call[b])
      BY <2>1 DEF CallTyped, CallChecked
    <3>2. pc' = [pc EXCEPT ![b] = "mutate"] /\ call' = [call EXCEPT ![b] = call[b]]
      BY <2>2 DEF Goto, DeskInv, Typed
    <3>. QED
      BY <2>1, <3>1, <3>2, QuietStep DEF Steps
  <2>. QED
    BY <1>2, <2>1, <2>2, QuietFinish DEF ReadTarget
<1>3. CASE \E u \in Urls, list \in PostedLists : CreateRepo(b, u, list)
  <2>1. PICK u \in Urls, list \in PostedLists : CreateRepo(b, u, list)
    BY <1>3
  <2> DEFINE c == [verb |-> "create", url |-> u, list |-> list]
  <2>2. /\ pc' = [pc EXCEPT ![b] = "insert"] /\ call' = [call EXCEPT ![b] = c]
        /\ UNCHANGED <<accounts, repos, created, listed, pushes, session, person>>
    BY <2>1 DEF CreateRepo, Begin, repoVars, loginVars
  <2>3. CallTyped("insert", c) /\ CallChecked("insert", c)
    BY DEF CallTyped, CallChecked
  <2>. QED
    BY <2>2, <2>3, QuietStep DEF Steps
<1>. QED
  BY <1>1, <1>2, <1>3

-----------------------------------------------------------------------------
(* Logins *)

\* Who logged in at a browser has an account that stays his.
LEMMA NamesStay ==
  ASSUME Typed, SessionNamesItsAccount, AccountsGrow, NEW b \in Browsers, person[b] # None,
         session[b].username.name \in Names,
         session'[b].username = session[b].username, person'[b] = person[b]
  PROVE  \/ /\ person'[b] \in Subjects
            /\ accounts'[session'[b].username.name].sub = person'[b]
         \/ /\ person'[b] = session'[b].username.name
            /\ accounts'[session'[b].username.name].password
<1> DEFINE account == accounts[session[b].username.name]
<1>1. \/ person[b] \in Subjects /\ account.sub = person[b]
      \/ person[b] = session[b].username.name /\ account.password
  BY DEF SessionNamesItsAccount
<1>2. account # NoAccount
  BY <1>1, NoAccountIsNobodys, Zenon
<1>3. accounts'[session'[b].username.name] = account
  BY <1>2 DEF AccountsGrow
<1>4. session'[b].username.name = session[b].username.name
  OBVIOUS
<1>. QED
  BY <1>1, <1>3, <1>4, Zenon

\* The accounts, the records and the lists are right whatever sessions do.
LEMMA RecordsStay ==
  ASSUME DeskInv, AccountsGrow, UNCHANGED <<repos, created, listed, pushes>>
  PROVE  ListedInv' /\ FourEyes' /\ ListedGrows /\ PushesStay
<1>1. FourEyes'
  <2> SUFFICES ASSUME NEW p \in Ids, pushes[p].verdict \in Verdicts
               PROVE  (\E n \in Committers(p) : n # pushes[p].reviewer.name \/ accounts[n].admin)'
    BY DEF FourEyes
  <2>1. PICK n \in Committers(p) : n # pushes[p].reviewer.name \/ accounts[n].admin
    BY DEF DeskInv, FourEyes
  <2>2. n \in Committers(p)' /\ accounts'[n] = accounts[n]
    BY CommittersGrow DEF DeskInv
  <2>. QED
    BY <2>1, <2>2
<1>. QED
  BY <1>1 DEF DeskInv, ListedInv, ListedGrows, PushesStay

\* What a request does to the session of its browser.
Identified(b) ==
    LET account == accounts[session[b].username.name] IN
    /\ session[b].username \in Username
    /\ \/ person[b] \in Subjects /\ account.sub = person[b]
       \/ person[b] = session[b].username.name /\ account.password

LEMMA LoginKeeps ==
  ASSUME DeskInv, AccountsGrow, accounts' \in [Names -> Account \union {NoAccount}],
         UNCHANGED <<repos, created, listed, pushes>>, NEW b \in Browsers,
         NEW s \in [username : Username \union {Nobody}, oidcState : BOOLEAN],
         NEW who \in Subjects \union Names \union {None},
         session' = [session EXCEPT ![b] = s], person' = [person EXCEPT ![b] = who],
         \/ who = None \/ Identified(b)'
         \/ s.username = session[b].username /\ who = person[b],
         CallInv', pc' \in [Browsers -> Steps \union {"idle"}],
         call' = [x \in Browsers |-> call'[x]]
  PROVE  DeskInv'
<1>1. ListedInv' /\ FourEyes'
  BY RecordsStay
<1>2. session'[b] = s /\ person'[b] = who
      /\ \A x \in Browsers \ {b} : session'[x] = session[x] /\ person'[x] = person[x]
  BY DEF DeskInv, Typed
<1>3. Typed'
  BY DEF DeskInv, Typed
<1>4. KnownSessions'
  BY <1>2 DEF DeskInv, KnownSessions, Identified
<1>5. ASSUME NEW x \in Browsers, person'[x] # None
      PROVE  (LET account == accounts[session[x].username.name] IN
              \/ person[x] \in Subjects /\ account.sub = person[x]
              \/ person[x] = session[x].username.name /\ account.password)'
  <2>1. CASE session'[x].username = session[x].username /\ person'[x] = person[x]
    <3>1. person[x] # None /\ session[x].username.name \in Names
      BY <1>5, <2>1, UsernamesAreNotNobody DEF DeskInv, KnownSessions
    <3>. QED
      BY <2>1, <3>1, NamesStay DEF DeskInv
  <2>2. CASE x = b /\ Identified(b)'
    BY <2>2 DEF Identified
  <2>. QED
    BY <1>2, <1>5, <2>1, <2>2
<1>. QED
  BY <1>1, <1>3, <1>4, <1>5 DEF DeskInv, SessionNamesItsAccount

LEMMA CallsStay ==
  ASSUME DeskInv, AccountsGrow, ListedGrows, PushesStay, UNCHANGED <<pc, call>>
  PROVE  /\ CallInv'
         /\ pc' \in [Browsers -> Steps \union {"idle"}]
         /\ call' = [x \in Browsers |-> call'[x]]
<1>1. ASSUME NEW x \in Browsers
      PROVE  (CallTyped(pc[x], call[x]) /\ CallChecked(pc[x], call[x]))'
  <2>1. PICK k, d : k = pc[x] /\ d = call[x]
    OBVIOUS
  <2>2. CallTyped(k, d) /\ CallChecked(k, d)
    BY <2>1 DEF DeskInv, CallInv
  <2>3. CallTyped(k, d)' /\ CallChecked(k, d)'
    BY <2>2, CallStays DEF DeskInv
  <2>. QED
    BY <2>1, <2>3 DEF CallTyped, CallChecked, Others, Committers
<1>. QED
  BY <1>1 DEF CallInv, DeskInv, Typed

LEMMA AccountsKeepInv ==
  ASSUME DeskInv, NEW b \in Browsers,
         \/ \E n \in Names : LogIn(b, n)
         \/ LogOut(b) \/ OidcStart(b)
         \/ \E sub \in Subjects : OidcCallback(b, sub)
         \/ FindByOIDC(b) \/ CreateUser(b)
  PROVE  DeskInv'
<1> DEFINE SessionType == [username : Username \union {Nobody}, oidcState : BOOLEAN]
<1>0. /\ session \in [Browsers -> SessionType] /\ session[b] \in SessionType
      /\ person \in [Browsers -> Subjects \union Names \union {None}]
      /\ accounts \in [Names -> Account \union {NoAccount}]
      /\ CallTyped(pc[b], call[b])
  BY DEF DeskInv, Typed, CallInv
<1>1. ASSUME NEW n \in Names, LogIn(b, n)  PROVE DeskInv'
  <2> DEFINE s == [session[b] EXCEPT !.username = Stored(n)]
  <2>1. /\ UNCHANGED <<accounts, repos, created, listed, pushes, pc, call>> /\ accounts[n].password
        /\ session' = [session EXCEPT ![b] = s] /\ person' = [person EXCEPT ![b] = n]
    BY <1>0, <1>1 DEF LogIn, Establish, repoVars
  <2>2. s \in SessionType /\ s.username = Stored(n) /\ Stored(n) \in Username /\ Stored(n).name = n
    BY <1>0, UsernamesAreNotNobody DEF Stored
  <2>3. session'[b].username = Stored(n) /\ person'[b] = n
    BY <1>0, <2>1, <2>2
  <2>4. Identified(b)'
    BY <2>1, <2>2, <2>3 DEF Identified
  <2>. QED
    BY <1>0, <2>1, <2>2, <2>4, QuietGrows, CallsStay, LoginKeeps
<1>2. CASE LogOut(b)
  <2>1. /\ UNCHANGED <<accounts, repos, created, listed, pushes, pc, call>>
        /\ session' = [session EXCEPT ![b] = EmptySession] /\ person' = [person EXCEPT ![b] = None]
    BY <1>2 DEF LogOut, repoVars
  <2>2. EmptySession \in SessionType
    BY DEF EmptySession
  <2>. QED
    BY <1>0, <2>1, <2>2, QuietGrows, CallsStay, LoginKeeps
<1>3. CASE OidcStart(b)
  <2> DEFINE s == [session[b] EXCEPT !.oidcState = TRUE]
  <2>1. /\ UNCHANGED <<accounts, repos, created, listed, pushes, pc, call>>
        /\ session' = [session EXCEPT ![b] = s] /\ person' = [person EXCEPT ![b] = person[b]]
    BY <1>0, <1>3 DEF OidcStart, repoVars
  <2>2. s \in SessionType /\ s.username = session[b].username
        /\ person[b] \in Subjects \union Names \union {None}
    BY <1>0
  <2>. QED
    BY <1>0, <2>1, <2>2, QuietGrows, CallsStay, LoginKeeps
<1>4. ASSUME NEW sub \in Subjects, OidcCallback(b, sub)  PROVE DeskInv'
  <2> DEFINE s == [session[b] EXCEPT !.oidcState = FALSE]
             c == [verb |-> "login", sub |-> sub]
  <2>1. /\ UNCHANGED <<accounts, repos, created, listed, pushes>>
        /\ pc' = [pc EXCEPT ![b] = "findByOIDC"] /\ call' = [call EXCEPT ![b] = c]
        /\ session' = [session EXCEPT ![b] = s] /\ person' = [person EXCEPT ![b] = person[b]]
    BY <1>0, <1>4 DEF OidcCallback, Begin, repoVars
  <2>2. s \in SessionType /\ s.username = session[b].username
        /\ person[b] \in Subjects \union Names \union {None}
    BY <1>0
  <2>3. CallTyped("findByOIDC", c)' /\ CallChecked("findByOIDC", c)'
    BY DEF CallTyped, CallChecked
  <2>. QED
    BY <1>0, <2>1, <2>2, <2>3, QuietGrows, CallMoves, LoginKeeps DEF Steps
<1>5. CASE FindByOIDC(b)
  <2>0. pc[b] = "findByOIDC" /\ call[b].sub \in Subjects
        /\ UNCHANGED <<accounts, repos, created, listed, pushes>>
    BY <1>0, <1>5 DEF FindByOIDC, CallTyped, repoVars
  <2>1. CASE Goto(b, "createUser") /\ UNCHANGED loginVars
    <3>1. CallTyped("createUser", call[b]) /\ CallChecked("createUser", call[b])
      BY <2>0 DEF CallTyped, CallChecked
    <3>2. pc' = [pc EXCEPT ![b] = "createUser"] /\ call' = [call EXCEPT ![b] = call[b]]
      BY <2>1 DEF Goto, DeskInv, Typed
    <3>. QED
      BY <2>0, <2>1, <3>1, <3>2, QuietStep DEF Steps, loginVars
  <2>2. ASSUME NEW n \in Owner(call[b].sub), Establish(b, Stored(n), call[b].sub), Finish(b)
        PROVE  DeskInv'
    <3> DEFINE s == [session[b] EXCEPT !.username = Stored(n)]
               sub == call[b].sub
    <3>1. session' = [session EXCEPT ![b] = s] /\ person' = [person EXCEPT ![b] = sub]
      BY <1>0, <2>2 DEF Establish
    <3>2. /\ n \in Names /\ accounts[n].sub = sub /\ s \in SessionType /\ s.username = Stored(n)
          /\ Stored(n) \in Username /\ Stored(n).name = n
      BY <1>0, <2>2, UsernamesAreNotNobody DEF Owner, Stored
    <3>3. session'[b].username = Stored(n) /\ person'[b] = sub
      BY <1>0, <3>1, <3>2
    <3>4. Identified(b)'
      BY <2>0, <3>2, <3>3 DEF Identified
    <3>. HIDE DEF s, sub
    <3>5. sub \in Subjects
      BY <2>0 DEF sub
    <3>. QED
      BY <1>0, <2>0, <2>2, <3>1, <3>2, <3>4, <3>5, QuietGrows, FinishMoves, LoginKeeps
  <2>. QED
    BY <1>5, <2>1, <2>2 DEF FindByOIDC
<1>6. CASE CreateUser(b)
  <2> DEFINE sub == call[b].sub
             u == ProfileOf[sub]
             account == [email |-> EmailOf[sub], admin |-> FALSE, password |-> FALSE, sub |-> sub]
  <2>0. /\ pc[b] = "createUser" /\ sub \in Subjects /\ UNCHANGED <<repos, created, listed, pushes>>
        /\ Finish(b)
    BY <1>0, <1>6 DEF CreateUser, CallTyped, repoVars
  <2>1. CASE UNCHANGED <<accounts, loginVars>>
    BY <2>0, <2>1, QuietFinish DEF loginVars
  <2>2. CASE Free(sub) /\ accounts' = [accounts EXCEPT ![u.name] = account] /\ Establish(b, u, sub)
    <3> DEFINE s == [session[b] EXCEPT !.username = u]
    <3>1. /\ u \in Username /\ u.name \in Names /\ account \in Account /\ account.sub = sub
      BY <2>0, DeskAssumption, UsernamesAreNotNobody DEF Account
    <3>2. AccountsGrow /\ accounts' \in [Names -> Account \union {NoAccount}]
          /\ accounts'[u.name].sub = sub
      BY <1>0, <2>2, <3>1 DEF AccountsGrow, Free
    <3>3. session' = [session EXCEPT ![b] = s] /\ person' = [person EXCEPT ![b] = sub]
      BY <1>0, <2>2 DEF Establish
    <3>4. s \in SessionType /\ s.username = u
      BY <1>0, <3>1
    <3>. HIDE DEF s, sub, u
    <3>5. session'[b].username = u /\ person'[b] = sub
      BY <1>0, <3>3, <3>4
    <3>6. Identified(b)'
      BY <2>0, <3>1, <3>2, <3>5 DEF Identified
    <3>7. ListedGrows /\ PushesStay
      BY <2>0 DEF ListedGrows, PushesStay
    <3>. QED
      BY <2>0, <3>2, <3>3, <3>4, <3>6, <3>7, FinishMoves, LoginKeeps
  <2>. QED
    BY <1>6, <2>1, <2>2 DEF CreateUser
<1>. QED
  BY <1>1, <1>2, <1>3, <1>4, <1>5, <1>6

-----------------------------------------------------------------------------
(* Writes to the repositories *)

RepoType == [id : Nat, canPush : SUBSET Username, canAuthorise : SUBSET Username]

\* One repository gets other lists, which its history covers.
LEMMA RepoMoves ==
  ASSUME DeskInv, UNCHANGED <<accounts, pushes, session, person>>, created' \in Nat,
         NEW u \in Urls, NEW repo \in RepoType, NEW members \in SUBSET Username,
         repos' = [repos EXCEPT ![u] = repo], listed' = [listed EXCEPT ![u] = @ \union members],
         repo.canAuthorise \subseteq listed[u] \union members,
         ListedGrows =>
            /\ CallInv' /\ pc' \in [Browsers -> Steps \union {"idle"}]
            /\ call' = [x \in Browsers |-> call'[x]]
  PROVE  DeskInv'
<1>0. repos \in [Urls -> RepoType] /\ listed \in [Urls -> SUBSET Username]
  BY DEF DeskInv, Typed, RepoType
<1>1. ListedGrows /\ listed' \in [Urls -> SUBSET Username] /\ repos' \in [Urls -> RepoType]
  BY <1>0 DEF ListedGrows
<1>2. ListedInv'
  BY <1>0 DEF DeskInv, ListedInv
<1>3. Typed'
  BY <1>1 DEF DeskInv, Typed, RepoType
<1>. QED
  BY <1>1, <1>2, <1>3 DEF DeskInv, FourEyes, KnownSessions, SessionNamesItsAccount, Committers

LEMMA RepoWritesKeepInv ==
  ASSUME DeskInv, NEW b \in Browsers, Mutate(b) \/ Insert(b) \/ \E u \in Urls : DeleteRepo(b, u)
  PROVE  DeskInv'
<1>0. /\ repos \in [Urls -> RepoType] /\ listed \in [Urls -> SUBSET Username]
      /\ CallTyped(pc[b], call[b]) /\ created \in Nat
  BY DEF DeskInv, Typed, RepoType, CallInv
<1>1. UNCHANGED <<accounts, pushes>> => AccountsGrow /\ PushesStay
  BY DEF AccountsGrow, PushesStay
<1>2. CASE Mutate(b)
  <2> DEFINE c == call[b]
             list == repos[c.url][c.right]
             new == IF c.add THEN list \union {Lower(c.member)} ELSE list \ {Lower(c.member)}
             repo == [repos[c.url] EXCEPT ![c.right] = new]
             members == IF c.right = "canAuthorise" THEN new ELSE {}
  <2>1. c.url \in Urls /\ c.right \in Rights /\ Lower(c.member) \in Username
    BY <1>0, <1>2, UsernamesAreNotNobody DEF Mutate, CallTyped
  <2>2. UNCHANGED <<accounts, pushes, created, session, person>> /\ Finish(b)
    BY <1>2 DEF Mutate, loginVars
  <2>3. CASE UNCHANGED <<repos, listed>>
    BY <2>2, <2>3, QuietFinish
  <2>4. CASE /\ repos' = [repos EXCEPT ![c.url][c.right] = new]
             /\ listed' = [listed EXCEPT ![c.url] = IF c.right = "canAuthorise" THEN @ \union new ELSE @]
    <3>1. repos[c.url] \in RepoType /\ listed[c.url] \in SUBSET Username
          /\ repos[c.url].canAuthorise \subseteq listed[c.url]
      BY <1>0, <2>1 DEF DeskInv, ListedInv
    <3>2. list \in SUBSET Username
      BY <2>1, <3>1 DEF Rights, RepoType
    <3>3. new \in SUBSET Username
      BY <2>1, <3>2
    <3>. HIDE DEF new, list
    <3>4. repo \in RepoType /\ members \in SUBSET Username
          /\ repo.canAuthorise \subseteq listed[c.url] \union members
      BY <2>1, <3>1, <3>3 DEF Rights, RepoType
    <3>5. repos' = [repos EXCEPT ![c.url] = repo]
      BY <2>4
    <3>6. listed' = [listed EXCEPT ![c.url] = @ \union members]
      BY <2>4
    <3>. HIDE DEF repo, members
    <3>. QED
      BY <1>0, <1>1, <2>1, <2>2, <3>4, <3>5, <3>6, FinishMoves, RepoMoves
  <2>. QED
    BY <1>2, <2>3, <2>4 DEF Mutate
<1>3. CASE Insert(b)
  <2> DEFINE c == call[b]
             repo == [id |-> created + 1, canPush |-> {}, canAuthorise |-> c.list]
  <2>1. c.url \in Urls /\ c.list \in SUBSET Username
    BY <1>0, <1>3, DeskAssumption DEF Insert, CallTyped
  <2>2. UNCHANGED <<accounts, pushes, session, person>> /\ Finish(b)
    BY <1>3 DEF Insert, loginVars
  <2>3. CASE UNCHANGED repoVars
    BY <2>2, <2>3, QuietFinish DEF repoVars
  <2>4. CASE /\ created' = created + 1 /\ repos' = [repos EXCEPT ![c.url] = repo]
             /\ listed' = [listed EXCEPT ![c.url] = @ \union c.list]
    <3>1. repo \in RepoType /\ repo.canAuthorise \subseteq listed[c.url] \union c.list
      BY <1>0, <2>1 DEF RepoType
    <3>2. created' \in Nat
      BY <1>0, <2>4
    <3>3. ListedGrows => /\ CallInv' /\ pc' \in [Browsers -> Steps \union {"idle"}]
                         /\ call' = [x \in Browsers |-> call'[x]]
      BY <1>1, <2>2, FinishMoves
    <3>. HIDE DEF repo, c
    <3>. QED
      BY <2>1, <2>2, <2>4, <3>1, <3>2, <3>3, RepoMoves
  <2>. QED
    BY <1>3, <2>3, <2>4 DEF Insert
<1>4. ASSUME NEW u \in Urls, DeleteRepo(b, u)  PROVE DeskInv'
  <2>1. /\ UNCHANGED <<accounts, pushes, created, session, person, pc, call>>
        /\ repos' = [repos EXCEPT ![u] = NoRepo] /\ listed' = [listed EXCEPT ![u] = @ \union {}]
    BY <1>0, <1>4 DEF DeleteRepo, loginVars
  <2>2. NoRepo \in RepoType /\ NoRepo.canAuthorise \subseteq listed[u] \union {}
        /\ {} \in SUBSET Username
    BY DEF NoRepo, RepoType
  <2>. QED
    BY <1>0, <1>1, <2>1, <2>2, CallsStay, RepoMoves
<1>. QED
  BY <1>2, <1>3, <1>4

-----------------------------------------------------------------------------
(* Writes to the records *)

LEMMA RecordMoves ==
  ASSUME DeskInv, UNCHANGED <<accounts, repoVars, loginVars>>,
         NEW p \in Ids, NEW record \in Record, record.url \in UrlsOf[p],
         pushes' = [pushes EXCEPT ![p] = record],
         record.verdict \in Verdicts =>
            \E n \in Committers(p) : n # record.reviewer.name \/ accounts[n].admin,
         PushesStay =>
            /\ CallInv' /\ pc' \in [Browsers -> Steps \union {"idle"}]
            /\ call' = [x \in Browsers |-> call'[x]]
  PROVE  DeskInv'
<1>0. pushes \in [Ids -> Record \union {NoPush}] /\ record # NoPush
  BY DeskAssumption DEF DeskInv, Typed, Record, NoPush
<1>1. PushesStay
  BY <1>0 DEF PushesStay
<1>2. pushes' \in [Ids -> Record \union {NoPush}]
      /\ \A q \in Ids : pushes'[q] # NoPush => pushes'[q].url \in UrlsOf[q]
  BY <1>0 DEF DeskInv, Typed
<1>3. FourEyes'
  BY <1>0 DEF DeskInv, FourEyes, Committers
<1>4. Typed'
  BY <1>1, <1>2 DEF DeskInv, Typed, repoVars, loginVars
<1>. QED
  BY <1>1, <1>3, <1>4
     DEF DeskInv, ListedInv, KnownSessions, SessionNamesItsAccount, repoVars, loginVars

LEMMA RecordWritesKeepInv ==
  ASSUME DeskInv,
         \/ \E b \in Browsers : WriteVerdict(b)
         \/ \E p \in Ids, u \in Urls : Audit(p, u)
  PROVE  DeskInv'
<1>0. UNCHANGED <<accounts, repoVars>> => AccountsGrow /\ ListedGrows
  BY DEF AccountsGrow, ListedGrows, repoVars
<1>1. ASSUME NEW b \in Browsers, WriteVerdict(b)  PROVE DeskInv'
  <2> DEFINE c == call[b]
             reviewer == IF c.verb = "canceled" THEN pushes[c.id].reviewer ELSE c.username
             record == [pushes[c.id] EXCEPT !.verdict = c.verb, !.reviewer = reviewer]
  <2>1. /\ c.verb \in Decisions /\ c.id \in Ids /\ c.username \in Username
        /\ pushes[c.id] # NoPush /\ (c.verb \in Verdicts => Others(c))
    BY <1>1 DEF WriteVerdict, DeskInv, CallInv, CallTyped, CallChecked
  <2>2. pushes \in [Ids -> Record \union {NoPush}] /\ pushes[c.id] \in Record
        /\ pushes[c.id].url \in UrlsOf[c.id]
    BY <2>1 DEF DeskInv, Typed
  <2>3. record \in Record /\ record.url = pushes[c.id].url /\ record.verdict = c.verb
        /\ (c.verb \in Verdicts => record.reviewer = c.username)
    BY <2>1, <2>2 DEF Record, Decisions, Verdicts
  <2>4. pushes' = [pushes EXCEPT ![c.id] = record] /\ Finish(b)
        /\ UNCHANGED <<accounts, repoVars, loginVars>>
    BY <1>1, <2>2 DEF WriteVerdict
  <2>. HIDE DEF record
  <2>5. record.verdict \in Verdicts =>
           \E n \in Committers(c.id) : n # record.reviewer.name \/ accounts[n].admin
    BY <2>1, <2>3 DEF Others, EqualFold, Stored
  <2>6. PushesStay => /\ CallInv' /\ pc' \in [Browsers -> Steps \union {"idle"}]
                      /\ call' = [x \in Browsers |-> call'[x]]
    BY <1>0, <2>4, FinishMoves
  <2>. HIDE DEF c
  <2>. QED
    BY <2>1, <2>2, <2>3, <2>4, <2>5, <2>6, RecordMoves
<1>2. ASSUME NEW p \in Ids, NEW u \in Urls, Audit(p, u)  PROVE DeskInv'
  <2> DEFINE record == [url |-> u, verdict |-> None, reviewer |-> Nobody]
  <2>1. u \in UrlsOf[p] /\ pushes' = [pushes EXCEPT ![p] = record]
        /\ UNCHANGED <<accounts, repoVars, loginVars, pc, call>>
    BY <1>2 DEF Audit
  <2>2. record \in Record /\ record.url = u /\ record.verdict \notin Verdicts
    BY DEF Record, Verdicts, None
  <2>. HIDE DEF record
  <2>3. PushesStay => /\ CallInv' /\ pc' \in [Browsers -> Steps \union {"idle"}]
                      /\ call' = [x \in Browsers |-> call'[x]]
    BY <1>0, <2>1, CallsStay
  <2>. QED
    BY <2>1, <2>2, <2>3, RecordMoves
<1>. QED
  BY <1>1, <1>2

-----------------------------------------------------------------------------
(* The invariant *)

LEMMA InitDesk ==
  ASSUME Init
  PROVE  DeskInv
<1>1. Cardinality(Urls) \in Nat
  BY FS_CardinalityType, DeskAssumption
<1>2. /\ repos \in [Urls -> RepoType] /\ listed \in [Urls -> SUBSET Username]
      /\ \A u \in Urls : repos[u].canAuthorise \subseteq listed[u]
  <2>1. PICK ids \in [Urls -> 1..Cardinality(Urls)] :
           repos = [u \in Urls |-> [id |-> ids[u], canPush |-> AtFirst.canPush,
                                    canAuthorise |-> AtFirst.canAuthorise]]
    BY DEF Init
  <2>2. \A u \in Urls : ids[u] \in Nat
    BY <1>1
  <2>. QED
    BY <2>1, <2>2, DeskAssumption DEF Init, RepoType
<1>3. accounts \in [Names -> Account \union {NoAccount}] /\ created \in Nat
  BY <1>1, DeskAssumption DEF Init
<1>4. Typed
  BY <1>2, <1>3 DEF Init, Typed, RepoType, EmptySession
<1>5. CallInv
  BY DEF Init, CallInv, CallTyped, CallChecked
<1>6. FourEyes
  BY DEF Init, FourEyes, NoPush, Verdicts, None
<1>. QED
  BY <1>2, <1>4, <1>5, <1>6 DEF DeskInv, Init, ListedInv, KnownSessions, SessionNamesItsAccount

LEMMA DeskInvIsInductive ==
  ASSUME DeskInv, [Next]_vars
  PROVE  DeskInv'
<1>1. CASE UNCHANGED vars
  BY <1>1 DEF vars, DeskInv, Typed, CallInv, CallTyped, CallChecked, Others, ListedInv,
     FourEyes, KnownSessions, SessionNamesItsAccount, Committers
<1>2. ASSUME NEW b \in Browsers, Accounts(b) \/ Verdict(b) \/ Administration(b) \/ StoreFails(b)
      PROVE  DeskInv'
  <2>1. CASE Accounts(b)
    BY <2>1, AccountsKeepInv DEF Accounts
  <2>2. CASE Verdict(b)
    BY <2>2, VerdictReadsKeepInv, RecordWritesKeepInv DEF Verdict, Decisions
  <2>3. CASE Administration(b)
    BY <2>3, AdministrationReadsKeepInv, RepoWritesKeepInv DEF Administration
  <2>4. CASE StoreFails(b)
    BY <2>4, QuietFinish DEF StoreFails, repoVars, loginVars
  <2>. QED
    BY <1>2, <2>1, <2>2, <2>3, <2>4
<1>3. ASSUME NEW p \in Ids, NEW u \in Urls, Audit(p, u)  PROVE DeskInv'
  BY <1>3, RecordWritesKeepInv
<1>. QED
  BY <1>1, <1>2, <1>3 DEF Next

LEMMA DeskInvIsInvariant == Spec => []DeskInv
<1>1. Init => DeskInv
  BY InitDesk
<1>2. DeskInv /\ [Next]_vars => DeskInv'
  BY DeskInvIsInductive
<1>. QED
  BY <1>1, <1>2, PTL DEF Spec

-----------------------------------------------------------------------------
(* What follows from it *)

\* Nobody but an administrator decides a push of his own: for every spelling of every
\* name, every set of tokens, lists and accounts, and any number of requests that are
\* between their store calls while accounts, lists and records change.
THEOREM NobodyReviewsHimself == Spec => []FourEyes
<1>1. DeskInv => FourEyes
  BY DEF DeskInv
<1>. QED
  BY <1>1, DeskInvIsInvariant, PTL

\* A session keeps to the account of the person who logged in, however many people
\* share a username or log in for the first time at once.
THEOREM SessionsKeepTheirAccount == Spec => []SessionNamesItsAccount
<1>1. DeskInv => SessionNamesItsAccount
  BY DEF DeskInv
<1>. QED
  BY <1>1, DeskInvIsInvariant, PTL

\* A push is sent to one repository (its id names only its two commits).
OneRepository == \A p \in Ids : \A u, v \in UrlsOf[p] : u = v

LEMMA ListsOnlyGrow ==
  ASSUME DeskInv, NEW b \in Browsers, Mutate(b) \/ Insert(b)
  PROVE  ListedGrows /\ UNCHANGED pushes
  BY DEF DeskInv, Typed, Mutate, Insert, repoVars, ListedGrows

LEMMA ReviewersStayListed ==
  ASSUME OneRepository, DeskInv, ReviewersWereListed, [Next]_vars
  PROVE  ReviewersWereListed'
<1>1. CASE UNCHANGED pushes /\ ListedGrows
  BY <1>1, DeskAssumption DEF ReviewersWereListed, ListedGrows, DeskInv, Typed, NoPush, Record,
     Verdicts, None
<1>2. ASSUME NEW b \in Browsers, WriteVerdict(b)  PROVE ReviewersWereListed'
  <2> DEFINE c == call[b]
  <2>1. /\ c.verb \in Decisions /\ c.id \in Ids /\ c.url \in UrlsOf[c.id]
        /\ pushes[c.id] # NoPush /\ (c.verb \in Verdicts => c.username \in listed[c.url])
    BY <1>2 DEF WriteVerdict, DeskInv, CallInv, CallTyped, CallChecked
  <2>2. pushes[c.id].url = c.url /\ pushes \in [Ids -> Record \union {NoPush}]
    BY <2>1 DEF OneRepository, DeskInv, Typed
  <2>3. listed' = listed
        /\ pushes' = [pushes EXCEPT ![c.id] =
             [pushes[c.id] EXCEPT !.verdict = c.verb, !.reviewer =
                 IF c.verb = "canceled" THEN pushes[c.id].reviewer ELSE c.username]]
    BY <1>2, <2>1, <2>2 DEF WriteVerdict, repoVars, Record
  <2>4. pushes[c.id] \in Record
    BY <2>1, <2>2
  <2>5. /\ pushes'[c.id].url = c.url /\ pushes'[c.id].verdict = c.verb
        /\ (c.verb \in Verdicts => pushes'[c.id].reviewer = c.username)
        /\ \A q \in Ids : q # c.id => pushes'[q] = pushes[q]
    BY <2>1, <2>2, <2>3, <2>4 DEF Record, Verdicts
  <2>. QED
    BY <2>1, <2>3, <2>5 DEF ReviewersWereListed
<1>3. ASSUME NEW p \in Ids, NEW u \in Urls, Audit(p, u)  PROVE ReviewersWereListed'
  BY <1>3 DEF Audit, repoVars, ReviewersWereListed, DeskInv, Typed, Verdicts, None
<1>4. CASE UNCHANGED vars
  BY <1>1, <1>4 DEF vars, ListedGrows
<1>5. ASSUME NEW b \in Browsers, Accounts(b)  PROVE UNCHANGED pushes /\ ListedGrows
  BY <1>5 DEF Accounts, LogIn, LogOut, OidcStart, OidcCallback, FindByOIDC, CreateUser,
     repoVars, ListedGrows
<1>6. ASSUME NEW b \in Browsers, Verdict(b)
      PROVE  WriteVerdict(b) \/ (UNCHANGED pushes /\ ListedGrows)
  BY <1>6 DEF Verdict, Decide, ReadPush, ReadCommitter, ReadRights, ReadReviewer, repoVars,
     ListedGrows
<1>7. ASSUME NEW b \in Browsers, Administration(b)  PROVE UNCHANGED pushes /\ ListedGrows
  <2>1. CASE Mutate(b) \/ Insert(b)
    BY <2>1, ListsOnlyGrow
  <2>. QED
    BY <1>7, <2>1 DEF Administration, ChangeList, ReadTarget, DeleteRepo, CreateRepo, repoVars,
       ListedGrows
<1>8. ASSUME NEW b \in Browsers, StoreFails(b)  PROVE UNCHANGED pushes /\ ListedGrows
  BY <1>8 DEF StoreFails, repoVars, ListedGrows
<1>. QED
  BY <1>1, <1>2, <1>3, <1>4, <1>5, <1>6, <1>7, <1>8 DEF Next

\* Whoever decided a push was a reviewer of its repository, whatever an administrator
\* revoked, deleted or created in between; as long as an id stands for pushes to one
\* repository, since the record's url may otherwise change under the reviewer.
THEOREM ReviewersAreListed ==
  ASSUME OneRepository
  PROVE  Spec => []ReviewersWereListed
<1>1. Init => ReviewersWereListed
  BY DEF Init, ReviewersWereListed, NoPush, Verdicts, None
<1>2. DeskInv /\ ReviewersWereListed /\ [Next]_vars => ReviewersWereListed'
  BY ReviewersStayListed
<1>. QED
  BY <1>1, <1>2, DeskInvIsInvariant, PTL DEF Spec
=============================================================================
