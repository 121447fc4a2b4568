----------------------------- MODULE ReviewDesk -----------------------------
(***************************************************************************)
(* The management API (internal/proxy/http): browsers log in with a        *)
(* password or through an OIDC provider, give verdicts on pushes, and, as  *)
(* administrators, change the repositories and who may push to them and    *)
(* review them.  A handler is a sequence of store calls with nothing held  *)
(* in between, and other browsers and the push chain run meanwhile.        *)
(*                                                                         *)
(* A browser sends one request at a time.  PushGate splits the verdict's   *)
(* own store call further; here it is one step.                            *)
(***************************************************************************)
EXTENDS Integers, FiniteSets

CONSTANTS
    Names,        \* usernames as the store keeps them, in lower case
    Emails,
    Subjects,     \* people known to the OIDC provider
    ProfileOf,    \* the username each subject's email gives, as it is spelled there
    EmailOf,      \* and the email itself
    LocalAccounts,\* the accounts that exist at first, by name
    Urls,
    AtFirst,      \* the two lists of every repository at first
    Ids,          \* pushes
    UrlsOf,       \* the repositories each push may be sent to
    CommitterOf,  \* the email of each push's committer
    Browsers,
    TokenOf,      \* the JWT a browser presents, or NoToken
    PostedLists,  \* lists of reviewers a new repository may be posted with
    MaxRequests   \* bound on the requests of all browsers

\* A username as somebody spells it; the store keeps it in lower case.
Username == [name : Names, upper : BOOLEAN]
Stored(name) == [name |-> name, upper |-> FALSE]
Lower(u) == Stored(u.name)
EqualFold(u, v) == u.name = v.name

None == "none"
Nobody == Stored(None)
NoToken == [username |-> Nobody, admin |-> FALSE]
NoAccount == [email |-> None, admin |-> FALSE, password |-> FALSE, sub |-> None]

Account == [email : Emails, admin : BOOLEAN, password : BOOLEAN, sub : Subjects \union {None}]

ASSUME DeskAssumption ==
    /\ IsFiniteSet(Urls)
    /\ None \notin Names \union Emails \union Subjects \union Urls
    /\ ProfileOf \in [Subjects -> Username]
    /\ EmailOf \in [Subjects -> Emails]
    /\ LocalAccounts \in [Names -> Account \union {NoAccount}]
    /\ AtFirst \in [canPush : SUBSET Username, canAuthorise : SUBSET Username]
    /\ UrlsOf \in [Ids -> SUBSET Urls]
    /\ CommitterOf \in [Ids -> Emails]
    /\ TokenOf \in [Browsers -> [username : Username, admin : BOOLEAN] \union {NoToken}]
    /\ PostedLists \subseteq SUBSET Username
    /\ MaxRequests \in Nat

Verdicts == {"authorised", "rejected"}
Rights == {"canPush", "canAuthorise"}

NoRepo == [id |-> 0, canPush |-> {}, canAuthorise |-> {}]
NoPush == [url |-> None, verdict |-> None, reviewer |-> Nobody]
EmptySession == [username |-> Nobody, oidcState |-> FALSE]
NoCall == [verb |-> None]

VARIABLES
    accounts,  \* by stored name
    repos,     \* by url; id 0 where there is none
    pushes,    \* the records, by id
    session,   \* each browser's session: a username, an OIDC login begun
    pc,        \* the store call a browser's request has come to, or "idle"
    call,      \* what the request holds in memory
    created,   \* number of repositories created, which gives the next id
    requests,  \* number of requests so far
    person,    \* history: who logged in at each browser, a subject or a name
    listed     \* history: everybody who was ever a reviewer, by url

vars == <<accounts, repos, pushes, session, pc, call, created, requests, person, listed>>

repoVars == <<repos, created, listed>>
loginVars == <<session, person>>

Steps == {"findByOIDC", "createUser", "push", "committer", "rights", "reviewer",
          "verdict", "target", "mutate", "insert"}

TypeOK ==
    /\ accounts \in [Names -> Account \union {NoAccount}]
    /\ repos \in [Urls -> [id : 0..MaxRequests + Cardinality(Urls),
                           canPush : SUBSET Username, canAuthorise : SUBSET Username]]
    /\ \A u \in Urls : repos[u].id = 0 => repos[u] = NoRepo
    /\ pushes \in [Ids -> [url : Urls, verdict : Verdicts \union {"canceled", None},
                           reviewer : Username \union {Nobody}] \union {NoPush}]
    /\ session \in [Browsers -> [username : Username \union {Nobody}, oidcState : BOOLEAN]]
    /\ pc \in [Browsers -> Steps \union {"idle"}]
    /\ \A b \in Browsers : pc[b] = "idle" <=> call[b] = NoCall
    /\ created \in 0..MaxRequests + Cardinality(Urls)
    /\ requests \in 0..MaxRequests
    /\ person \in [Browsers -> Subjects \union Names \union {None}]
    /\ listed \in [Urls -> SUBSET Username]

Init ==
    /\ accounts = LocalAccounts
    /\ created = Cardinality(Urls)
    /\ \E ids \in [Urls -> 1..Cardinality(Urls)] :
          /\ \A u, v \in Urls : ids[u] = ids[v] => u = v
          /\ repos = [u \in Urls |-> [id |-> ids[u], canPush |-> AtFirst.canPush,
                                      canAuthorise |-> AtFirst.canAuthorise]]
    /\ pushes = [p \in Ids |-> NoPush]
    /\ session = [b \in Browsers |-> EmptySession]
    /\ pc = [b \in Browsers |-> "idle"]
    /\ call = [b \in Browsers |-> NoCall]
    /\ requests = 0
    /\ person = [b \in Browsers |-> None]
    /\ listed = [u \in Urls |-> AtFirst.canAuthorise]

-----------------------------------------------------------------------------
(* Requests *)

Request(b) ==
    /\ pc[b] = "idle" /\ requests < MaxRequests
    /\ requests' = requests + 1

Begin(b, step, held) ==
    /\ Request(b)
    /\ pc' = [pc EXCEPT ![b] = step]
    /\ call' = [call EXCEPT ![b] = held]

Goto(b, step) ==
    /\ pc' = [pc EXCEPT ![b] = step]
    /\ UNCHANGED <<call, requests>>

\* The response, whatever it says.
Finish(b) ==
    /\ pc' = [pc EXCEPT ![b] = "idle"]
    /\ call' = [call EXCEPT ![b] = NoCall]
    /\ UNCHANGED requests

\* FindUser
Exists(u) == accounts[u.name] # NoAccount

\* currentUser: the session's account as it is stored or, when the lookup fails,
\* the session's username as it is spelled and no rights; without a session, the
\* token as it is.
Callers(b) ==
    LET u == session[b].username IN
    IF u = Nobody
    THEN {TokenOf[b]} \ {NoToken}
    ELSE {[username |-> u, admin |-> FALSE]} \union
         {[username |-> Stored(n), admin |-> accounts[n].admin] : n \in {u.name}}

IsAdmin(b) == \E caller \in Callers(b) : caller.admin

\* A store call fails, and the request with it.
StoreFails(b) ==
    /\ pc[b] # "idle"
    /\ Finish(b)
    /\ UNCHANGED <<accounts, repoVars, pushes, loginVars>>

-----------------------------------------------------------------------------
(* Logging in and out *)

Establish(b, u, who) ==
    /\ session' = [session EXCEPT ![b].username = u]
    /\ person' = [person EXCEPT ![b] = who]

\* login, with the right password.
LogIn(b, n) ==
    /\ Request(b)
    /\ accounts[n].password
    /\ Establish(b, Stored(n), n)
    /\ UNCHANGED <<accounts, repoVars, pushes, pc, call>>

LogOut(b) ==
    /\ Request(b)
    /\ session' = [session EXCEPT ![b] = EmptySession]
    /\ person' = [person EXCEPT ![b] = None]
    /\ UNCHANGED <<accounts, repoVars, pushes, pc, call>>

OidcStart(b) ==
    /\ Request(b)
    /\ session' = [session EXCEPT ![b].oidcState = TRUE]
    /\ UNCHANGED <<accounts, repoVars, pushes, pc, call, person>>

\* The provider sends the browser back, with a code for one of its subjects.
OidcCallback(b, s) ==
    /\ session[b].oidcState
    /\ Begin(b, "findByOIDC", [verb |-> "login", sub |-> s])
    /\ session' = [session EXCEPT ![b].oidcState = FALSE]
    /\ UNCHANGED <<accounts, repoVars, pushes, person>>

Owner(s) == {n \in Names : accounts[n].sub = s}

\* provision finds the subject's account ...
FindByOIDC(b) ==
    /\ pc[b] = "findByOIDC"
    /\ IF Owner(call[b].sub) = {}
       THEN Goto(b, "createUser") /\ UNCHANGED loginVars
       ELSE /\ \E n \in Owner(call[b].sub) : Establish(b, Stored(n), call[b].sub)
            /\ Finish(b)
    /\ UNCHANGED <<accounts, repoVars, pushes>>

\* What the store accepts: name, email and subject are unique.
Free(s) ==
    \A n \in Names : accounts[n] # NoAccount =>
        n # ProfileOf[s].name /\ accounts[n].email # EmailOf[s] /\ accounts[n].sub # s

\* Mutant: the insertion is an upsert by name.
CreateUserUpserting(b) ==
    /\ pc[b] = "createUser"
    /\ LET s == call[b].sub IN
       /\ accounts' = [accounts EXCEPT ![ProfileOf[s].name] =
             [email |-> EmailOf[s], admin |-> FALSE, password |-> FALSE, sub |-> s]]
       /\ Establish(b, ProfileOf[s], s)
    /\ Finish(b)
    /\ UNCHANGED <<repoVars, pushes>>

\* ... or creates one, and answers with the account as it was to be stored: the
\* session has the username as the email spells it.
CreateUser(b) ==
    /\ pc[b] = "createUser"
    /\ LET s == call[b].sub IN
       IF Free(s)
       THEN /\ accounts' = [accounts EXCEPT ![ProfileOf[s].name] =
                  [email |-> EmailOf[s], admin |-> FALSE, password |-> FALSE, sub |-> s]]
            /\ Establish(b, ProfileOf[s], s)
       ELSE UNCHANGED <<accounts, loginVars>>
    /\ Finish(b)
    /\ UNCHANGED <<repoVars, pushes>>

-----------------------------------------------------------------------------
(* Verdicts *)

\* rejectPush with a reason, authorisePush with a complete attestation, and
\* cancelPush; every other request is answered at once and changes nothing.
Decide(b, verb, p) ==
    /\ \E caller \in Callers(b) :
          Begin(b, "push", [verb |-> verb, id |-> p, username |-> caller.username])
    /\ UNCHANGED <<accounts, repoVars, pushes, loginVars>>

\* GetPush; the record's url stays in memory.
ReadPush(b) ==
    /\ pc[b] = "push"
    /\ LET c == call[b] IN
       IF pushes[c.id] = NoPush THEN Finish(b)
       ELSE /\ pc' = [pc EXCEPT ![b] = IF c.verb = "canceled" THEN "rights" ELSE "committer"]
            /\ call' = [call EXCEPT ![b] =
                  [verb |-> c.verb, id |-> c.id, username |-> c.username,
                   url |-> pushes[c.id].url]]
            /\ UNCHANGED requests
    /\ UNCHANGED <<accounts, repoVars, pushes, loginVars>>

Committers(p) == {n \in Names : accounts[n].email = CommitterOf[p]}

\* Mutant: the usernames are compared as they are spelled.
OthersSpelled(c) ==
    \E n \in Committers(c.id) : Stored(n) # c.username \/ accounts[n].admin

\* The committer has an account, which is not the reviewer's or an
\* administrator's.
Others(c) ==
    \E n \in Committers(c.id) : ~EqualFold(Stored(n), c.username) \/ accounts[n].admin

ReadCommitter(b) ==
    /\ pc[b] = "committer"
    /\ IF Others(call[b]) THEN Goto(b, "rights") ELSE Finish(b)
    /\ UNCHANGED <<accounts, repoVars, pushes, loginVars>>

\* Mutant: whoever may push may review.
AllowedPushers(c) ==
    LET repo == repos[c.url] IN
    /\ repo.id # 0
    /\ \/ c.username \in repo.canAuthorise \union repo.canPush
       \/ c.verb = "canceled" /\ Lower(c.username) \in repo.canPush \union repo.canAuthorise

\* canApproveReject takes the username as it is, canCancel in lower case.
Allowed(c) ==
    LET repo == repos[c.url] IN
    /\ repo.id # 0
    /\ \/ c.verb # "canceled" /\ c.username \in repo.canAuthorise
       \/ c.verb = "canceled" /\ Lower(c.username) \in repo.canPush \union repo.canAuthorise

ReadRights(b) ==
    /\ pc[b] = "rights"
    /\ IF Allowed(call[b])
       THEN Goto(b, IF call[b].verb = "canceled" THEN "verdict" ELSE "reviewer")
       ELSE Finish(b)
    /\ UNCHANGED <<accounts, repoVars, pushes, loginVars>>

ReadReviewer(b) ==
    /\ pc[b] = "reviewer"
    /\ IF Exists(call[b].username) THEN Goto(b, "verdict") ELSE Finish(b)
    /\ UNCHANGED <<accounts, repoVars, pushes, loginVars>>

\* Authorise, Reject or Cancel of the store; a cancellation keeps the reviewer.
WriteVerdict(b) ==
    /\ pc[b] = "verdict"
    /\ LET c == call[b] IN
       pushes' = [pushes EXCEPT ![c.id].verdict = c.verb,
                                ![c.id].reviewer = IF c.verb = "canceled" THEN @ ELSE c.username]
    /\ Finish(b)
    /\ UNCHANGED <<accounts, repoVars, loginVars>>

\* The chain audits a push: the record is new, whatever it was before.
Audit(p, u) ==
    /\ u \in UrlsOf[p]
    /\ pushes' = [pushes EXCEPT ![p] = [url |-> u, verdict |-> None, reviewer |-> Nobody]]
    /\ UNCHANGED <<accounts, repoVars, loginVars, pc, call, requests>>

-----------------------------------------------------------------------------
(* Administration *)

\* repoUserMutation behind requireAdmin: add to, or remove from, a list of the
\* repository with the given id.
ChangeList(b, u, right, member, add) ==
    /\ IsAdmin(b)
    /\ repos[u].id # 0
    /\ Begin(b, "target", [verb |-> "change", url |-> u, id |-> repos[u].id,
                           right |-> right, member |-> member, add |-> add])
    /\ UNCHANGED <<accounts, repoVars, pushes, loginVars>>

ReadTarget(b) ==
    /\ pc[b] = "target"
    /\ IF Exists(call[b].member) THEN Goto(b, "mutate") ELSE Finish(b)
    /\ UNCHANGED <<accounts, repoVars, pushes, loginVars>>

\* The store does nothing when there is no repository with the id any more.
Mutate(b) ==
    /\ pc[b] = "mutate"
    /\ LET c == call[b]
           list == repos[c.url][c.right]
           new == IF c.add THEN list \union {Lower(c.member)} ELSE list \ {Lower(c.member)} IN
       IF repos[c.url].id = c.id
       THEN /\ repos' = [repos EXCEPT ![c.url][c.right] = new]
            /\ listed' = [listed EXCEPT ![c.url] =
                             IF c.right = "canAuthorise" THEN @ \union new ELSE @]
       ELSE UNCHANGED <<repos, listed>>
    /\ Finish(b)
    /\ UNCHANGED <<accounts, created, pushes, loginVars>>

DeleteRepo(b, u) ==
    /\ Request(b)
    /\ IsAdmin(b)
    /\ repos[u].id # 0
    /\ repos' = [repos EXCEPT ![u] = NoRepo]
    /\ UNCHANGED <<accounts, created, listed, pushes, loginVars, pc, call>>

\* createRepo finds the url free, and inserts the repository as it was posted;
\* a list in the request is stored as it is spelled.
CreateRepo(b, u, list) ==
    /\ IsAdmin(b)
    /\ repos[u].id = 0
    /\ Begin(b, "insert", [verb |-> "create", url |-> u, list |-> list])
    /\ UNCHANGED <<accounts, repoVars, pushes, loginVars>>

\* The url is unique.
Insert(b) ==
    /\ pc[b] = "insert"
    /\ LET c == call[b] IN
       IF repos[c.url].id = 0
       THEN /\ created' = created + 1
            /\ repos' = [repos EXCEPT ![c.url] =
                            [id |-> created', canPush |-> {}, canAuthorise |-> c.list]]
            /\ listed' = [listed EXCEPT ![c.url] = @ \union c.list]
       ELSE UNCHANGED repoVars
    /\ Finish(b)
    /\ UNCHANGED <<accounts, pushes, loginVars>>

-----------------------------------------------------------------------------
(* The specification *)

Accounts(b) ==
    \/ \E n \in Names : LogIn(b, n)
    \/ LogOut(b) \/ OidcStart(b)
    \/ \E s \in Subjects : OidcCallback(b, s)
    \/ FindByOIDC(b) \/ CreateUser(b)

Verdict(b) ==
    \/ \E verb \in Verdicts \union {"canceled"}, p \in Ids : Decide(b, verb, p)
    \/ ReadPush(b) \/ ReadCommitter(b) \/ ReadRights(b) \/ ReadReviewer(b) \/ WriteVerdict(b)

Administration(b) ==
    \/ \E u \in Urls, right \in Rights, member \in Username, add \in BOOLEAN :
          ChangeList(b, u, right, member, add)
    \/ ReadTarget(b) \/ Mutate(b)
    \/ \E u \in Urls : DeleteRepo(b, u) \/ \E list \in PostedLists : CreateRepo(b, u, list)
    \/ Insert(b)

Next ==
    \/ \E b \in Browsers : Accounts(b) \/ Verdict(b) \/ Administration(b) \/ StoreFails(b)
    \/ \E p \in Ids, u \in Urls : Audit(p, u)

Spec == Init /\ [][Next]_vars

-----------------------------------------------------------------------------
(* Properties *)

\* Nobody but an administrator has authorised or rejected a push of his own,
\* however his username is spelled in his session, his token or the repository's
\* list ("Cannot approve your own changes").
FourEyes ==
    \A p \in Ids :
        pushes[p].verdict \in Verdicts =>
            \E n \in Committers(p) : n # pushes[p].reviewer.name \/ accounts[n].admin

\* Whoever authorised or rejected a push was put on the list of reviewers of the
\* repository its record names, whatever was revoked, deleted or created again
\* while he was deciding.  Each push id goes to one repository here: with several,
\* the record's url may change under the reviewer.
ReviewersWereListed ==
    \A p \in Ids :
        pushes[p].verdict \in Verdicts => pushes[p].reviewer \in listed[pushes[p].url]

\* A session acts for the person who logged in: the account behind an OIDC login
\* is the subject's own and that of a password login was never taken over, though
\* different emails may give one username and first logins may race.
SessionNamesItsAccount ==
    \A b \in Browsers :
        person[b] # None =>
            LET account == accounts[session[b].username.name] IN
            \/ person[b] \in Subjects /\ account.sub = person[b]
            \/ person[b] = session[b].username.name /\ account.password
=============================================================================
