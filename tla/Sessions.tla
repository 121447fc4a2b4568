------------------------------ MODULE Sessions ------------------------------
(***************************************************************************)
(* Browser sessions (internal/proxy/http/auth_routes.go, csrf.go,          *)
(* internal/session, and the scs library they use).  A request loads the   *)
(* row its cookie names into a copy of its own, and commits the copy under *)
(* its token when it changed something; login renews the token, logout     *)
(* destroys the row, an OIDC login keeps its state in it between two       *)
(* requests.  Requests of one browser overlap: its tabs share the cookie.  *)
(*                                                                         *)
(* What a session's user may do is ReviewDesk's.                           *)
(***************************************************************************)
EXTENDS Naturals, Sequences, Functions

CONSTANTS
    Browsers,
    Requests,      \* places for requests under way
    Users,         \* who log in
    MaxRequests, MaxFaults,   \* bounds: requests sent, what fails or expires
    CSRFProtection            \* the csrfProtection flag

None == 0                \* no token, no state
NoUser == "nobody"

Kinds == {"login", "logout", "profile", "oidcStart", "oidcCallback"}
SafeMethods == {"profile", "oidcStart", "oidcCallback"}
Modifying == Kinds \ {"profile"}

Holding == {"handler", "exchange", "renew", "commit"}   \* steps with a copy of the session
Steps == {"idle", "sent", "reply"} \union Holding

Fresh == [token |-> None, user |-> NoUser, state |-> None]

ASSUME SessionsAssumption == Browsers # {} /\ NoUser \notin Users

NoRequest ==
    [kind |-> "profile", browser |-> CHOOSE b \in Browsers : TRUE, user |-> NoUser,
     state |-> None, cookie |-> None, csrf |-> FALSE, step |-> "idle", session |-> Fresh,
     sets |-> FALSE, refused |-> FALSE, alone |-> FALSE, due |-> FALSE]

VARIABLES
    rows,      \* the sessions table: [tokens in it -> [user, state]]
    cookie,    \* each browser's session cookie
    csrf,      \* has the browser the csrf cookie
    req,       \* the requests under way
    links,     \* the states that came back to a browser, for the provider
    spent,     \* the states whose authorisation code was exchanged
    sent, faults,   \* counters of the bounds
    tokens,    \* given out so far: for each the browser, and which login it came with
    states,    \* given out so far: for each the browser that asked for it
    closed,    \* the tokens that a logout ended
    shared,    \* the tokens ended while another request had their row
    latest     \* the state a browser may come back with, see LatestStartIsAccepted

counters == <<sent, faults>>
given == <<tokens, states>>
history == <<closed, shared, latest>>
vars == <<rows, cookie, csrf, req, links, spent, counters, given, history>>

\* Tokens and states are random; here they are the places in these sequences.
KnownToken == DOMAIN tokens \union {None}
KnownState == DOMAIN states \union {None}

SomeUser == Users \union {NoUser}
GivenToken == [browser : Browsers, user : SomeUser, own : BOOLEAN]
Row == [user : SomeUser, state : KnownState]
Session == [token : KnownToken, user : SomeUser, state : KnownState]
Request ==
    [kind : Kinds, browser : Browsers, user : SomeUser, state : KnownState,
     cookie : KnownToken, csrf : BOOLEAN, step : Steps, session : Session,
     sets : BOOLEAN, refused : BOOLEAN, alone : BOOLEAN, due : BOOLEAN]

TypeOK ==
    /\ tokens \in Seq(GivenToken) /\ states \in Seq(Browsers)
    /\ DOMAIN rows \subseteq DOMAIN tokens /\ \A t \in DOMAIN rows : rows[t] \in Row
    /\ cookie \in [Browsers -> KnownToken] /\ csrf \in [Browsers -> BOOLEAN]
    /\ req \in [Requests -> Request]
    /\ spent \subseteq links /\ links \subseteq DOMAIN states
    /\ sent <= MaxRequests /\ faults <= MaxFaults
    /\ closed \subseteq KnownToken /\ shared \subseteq closed
    /\ latest \in [Browsers -> KnownState]

Init ==
    /\ rows = <<>>
    /\ cookie = [b \in Browsers |-> None]
    /\ csrf = [b \in Browsers |-> FALSE]
    /\ req = [r \in Requests |-> NoRequest]
    /\ links = {} /\ spent = {}
    /\ sent = 0 /\ faults = 0
    /\ tokens = <<>> /\ states = <<>>
    /\ closed = {} /\ shared = {}
    /\ latest = [b \in Browsers |-> None]

\* Request r comes to a step, with its session as it is then.
Goto(r, step, session) ==
    req' = [req EXCEPT ![r].step = step, ![r].session = session]

Reply(r) == req' = [req EXCEPT ![r].step = "reply"]

-----------------------------------------------------------------------------
(* The browser *)

\* Others of the browser that may change its session and are under way.
Rivals(b) == {r \in Requests : req[r].step # "idle" /\ req[r].browser = b /\ req[r].kind \in Modifying}

NewRequest(b, kind, user, state) ==
    LET alone == kind \in Modifying /\ Rivals(b) = {}
    IN [kind |-> kind, browser |-> b, user |-> user, state |-> state, cookie |-> cookie[b],
        csrf |-> csrf[b], step |-> "sent", session |-> Fresh, sets |-> FALSE, refused |-> FALSE,
        alone |-> alone, due |-> alone /\ kind = "oidcCallback" /\ latest[b] = state]

Send(r, b, kind, user, state) ==
    /\ req[r].step = "idle" /\ sent < MaxRequests
    /\ kind = "oidcCallback" <=> state \in links
    /\ kind \in {"login", "oidcCallback"} <=> user # NoUser
    /\ req' = [q \in Requests |->
                 IF q = r THEN NewRequest(b, kind, user, state)
                 ELSE IF kind \in Modifying /\ q \in Rivals(b)
                 THEN [req[q] EXCEPT !.alone = FALSE, !.due = FALSE]
                 ELSE req[q]]
    /\ sent' = sent + 1
    /\ UNCHANGED <<rows, cookie, csrf, links, spent, faults, given, history>>

\* What a request leaves of a start that the browser may come back from.
LatestAfter(r, received) ==
    LET kept == req[r].alone /\ received
    IN IF req[r].kind = "profile" \/ (req[r].kind = "login" /\ kept) THEN latest[req[r].browser]
       ELSE IF req[r].kind = "oidcStart" /\ kept THEN req[r].state
       ELSE None

\* The response: cookies, and the redirect to the provider.
Receive(r) ==
    /\ req[r].step = "reply"
    /\ LET b == req[r].browser
       IN /\ cookie' = [cookie EXCEPT ![b] = IF req[r].sets THEN req[r].session.token ELSE @]
          /\ csrf' = [csrf EXCEPT ![b] = @ \/ req[r].kind \in SafeMethods]
          /\ latest' = [latest EXCEPT ![b] = LatestAfter(r, TRUE)]
    /\ links' = IF req[r].kind = "oidcStart" /\ req[r].sets THEN links \union {req[r].state} ELSE links
    /\ req' = [req EXCEPT ![r] = NoRequest]
    /\ UNCHANGED <<rows, spent, counters, given, closed, shared>>

\* The tab was closed or the connection lost.
ResponseLost(r) ==
    /\ req[r].step = "reply" /\ faults < MaxFaults
    /\ faults' = faults + 1
    /\ latest' = [latest EXCEPT ![req[r].browser] = LatestAfter(r, FALSE)]
    /\ req' = [req EXCEPT ![r] = NoRequest]
    /\ UNCHANGED <<rows, cookie, csrf, links, spent, sent, given, closed, shared>>

-----------------------------------------------------------------------------
(* The session manager *)

\* A token that has no row gets a new session, not its own.
Load(r) ==
    /\ req[r].step = "sent"
    /\ LET t == req[r].cookie
       IN Goto(r, "handler",
               IF t \in DOMAIN rows
               THEN [token |-> t, user |-> rows[t].user, state |-> rows[t].state]
               ELSE Fresh)
    /\ UNCHANGED <<rows, cookie, csrf, links, spent, counters, given, history>>

\* A token that nobody could know before.
Give(r, user, own) ==
    tokens' = Append(tokens, [browser |-> req[r].browser, user |-> user, own |-> own])

\* The copy is written back under its token, whether that still has a row or not,
\* and the response sets the cookie.
Commit(r) ==
    /\ req[r].step = "commit"
    /\ LET s == req[r].session
           t == IF s.token = None THEN Len(tokens) + 1 ELSE s.token
       IN /\ rows' = [x \in DOMAIN rows \union {t} |->
                        IF x = t THEN [user |-> s.user, state |-> s.state] ELSE rows[x]]
          /\ IF s.token = None THEN Give(r, NoUser, FALSE) ELSE UNCHANGED tokens
          /\ req' = [req EXCEPT ![r].session.token = t, ![r].step = "reply", ![r].sets = TRUE]
    /\ UNCHANGED <<cookie, csrf, links, spent, counters, states, history>>

\* The response is an error, and sets no cookie.
CommitFails(r) ==
    /\ req[r].step = "commit" /\ faults < MaxFaults
    /\ faults' = faults + 1
    /\ req' = [req EXCEPT ![r].step = "reply", ![r].alone = FALSE]
    /\ UNCHANGED <<rows, cookie, csrf, links, spent, sent, given, history>>

Without(t) == Restrict(rows, DOMAIN rows \ {t})

\* Others that have the row of token t in their copy.
Holders(r, t) == {q \in Requests \ {r} : req[q].step \in Holding /\ req[q].session.token = t}

\* Mutant: the new session forgets what the old one held.
RenewAfresh(r) ==
    /\ req[r].step = "renew"
    /\ rows' = Without(req[r].session.token)
    /\ Goto(r, "commit", [Fresh EXCEPT !.token = Len(tokens) + 1, !.user = req[r].user])
    /\ Give(r, req[r].user, TRUE)
    /\ UNCHANGED <<cookie, csrf, links, spent, counters, states, history>>

\* RenewToken deletes the old row at once; the username goes into the copy.
Renew(r) ==
    /\ req[r].step = "renew"
    /\ rows' = Without(req[r].session.token)
    /\ Goto(r, "commit",
            [req[r].session EXCEPT !.token = Len(tokens) + 1, !.user = req[r].user])
    /\ Give(r, req[r].user, req[r].kind = "login" \/ states[req[r].state] = req[r].browser)
    /\ UNCHANGED <<cookie, csrf, links, spent, counters, states, history>>

\* The old row could not be deleted.  The state that a callback took out of the
\* session is committed all the same.
RenewFails(r) ==
    /\ req[r].step = "renew" /\ faults < MaxFaults
    /\ faults' = faults + 1
    /\ Goto(r, IF req[r].kind = "oidcCallback" THEN "commit" ELSE "reply", req[r].session)
    /\ UNCHANGED <<rows, cookie, csrf, links, spent, sent, given, history>>

\* A row's lifetime ends; it is not found again, and a copy of it that is written
\* back keeps its deadline.
Expire(t) ==
    /\ t \in DOMAIN rows /\ faults < MaxFaults
    /\ \A r \in Requests : req[r].session.token # t
    /\ rows' = Without(t)
    /\ faults' = faults + 1
    /\ latest' = [b \in Browsers |-> IF cookie[b] = t THEN None ELSE latest[b]]
    /\ req' = [r \in Requests |-> [req[r] EXCEPT !.due = @ /\ req[r].cookie # t]]
    /\ UNCHANGED <<cookie, csrf, links, spent, sent, given, closed, shared>>

-----------------------------------------------------------------------------
(* The handlers *)

\* Unsafe methods must come with the csrf cookie, which the page echoes.
CSRFAllows(r) == CSRFProtection => req[r].kind \in SafeMethods \/ req[r].csrf

InHandler(r, kind) == req[r].step = "handler" /\ req[r].kind = kind /\ CSRFAllows(r)

CSRFRefuses(r) ==
    /\ req[r].step = "handler" /\ ~CSRFAllows(r)
    /\ Reply(r)
    /\ UNCHANGED <<rows, cookie, csrf, links, spent, counters, given, history>>

Profile(r) ==
    /\ InHandler(r, "profile")
    /\ Reply(r)
    /\ UNCHANGED <<rows, cookie, csrf, links, spent, counters, given, history>>

\* The strategy accepts the password or not.
Login(r) ==
    /\ InHandler(r, "login")
    /\ \/ Goto(r, "renew", req[r].session)
       \/ Reply(r)
    /\ UNCHANGED <<rows, cookie, csrf, links, spent, counters, given, history>>

\* Mutant: only the cookie goes.
LogoutCookie(r) ==
    /\ InHandler(r, "logout")
    /\ req' = [req EXCEPT ![r].session = Fresh, ![r].step = "reply", ![r].sets = TRUE]
    /\ closed' = closed \union {req[r].session.token}
    /\ UNCHANGED <<rows, cookie, csrf, links, spent, counters, given, shared, latest>>

\* Destroy deletes the row and clears the cookie.
Logout(r) ==
    /\ InHandler(r, "logout")
    /\ rows' = Without(req[r].session.token)
    /\ req' = [req EXCEPT ![r].session = Fresh, ![r].step = "reply", ![r].sets = TRUE]
    /\ closed' = closed \union {req[r].session.token}
    /\ shared' = IF Holders(r, req[r].session.token) = {} THEN shared
                 ELSE shared \union {req[r].session.token}
    /\ UNCHANGED <<cookie, csrf, links, spent, counters, given, latest>>

\* A state for the way to the provider and back, in place of an earlier one.
OidcStart(r) ==
    /\ InHandler(r, "oidcStart")
    /\ states' = Append(states, req[r].browser)
    /\ req' = [req EXCEPT ![r].step = "commit", ![r].state = Len(states'),
                          ![r].session.state = Len(states')]
    /\ UNCHANGED <<rows, cookie, csrf, links, spent, counters, tokens, history>>

\* Mutant: any state will do while a login is under way.
StateExpected(r) == req[r].session.state # None

StateMatches(r) == req[r].session.state # None /\ req[r].session.state = req[r].state

CallbackRefused(r) ==
    /\ InHandler(r, "oidcCallback") /\ ~StateMatches(r)
    /\ req' = [req EXCEPT ![r].step = "reply", ![r].refused = TRUE]
    /\ UNCHANGED <<rows, cookie, csrf, links, spent, counters, given, history>>

CallbackAccepted(r) ==
    /\ InHandler(r, "oidcCallback") /\ StateMatches(r)
    /\ Goto(r, "exchange", [req[r].session EXCEPT !.state = None])
    /\ UNCHANGED <<rows, cookie, csrf, links, spent, counters, given, history>>

\* The provider takes a code once, and may fail; the handler then answers with an
\* error, and what it removed from the session is committed.
Exchange(r) ==
    /\ req[r].step = "exchange"
    /\ \/ /\ req[r].state \notin spent
          /\ spent' = spent \union {req[r].state}
          /\ Goto(r, "renew", req[r].session)
       \/ Goto(r, "commit", req[r].session) /\ UNCHANGED spent
    /\ UNCHANGED <<rows, cookie, csrf, links, counters, given, history>>

Next ==
    \/ \E r \in Requests :
          \/ \E b \in Browsers, kind \in Kinds, user \in Users \union {NoUser},
                state \in links \union {None} : Send(r, b, kind, user, state)
          \/ Receive(r) \/ ResponseLost(r) \/ Load(r) \/ Commit(r) \/ CommitFails(r) \/ Renew(r) \/ RenewFails(r)
          \/ CSRFRefuses(r) \/ Profile(r) \/ Login(r) \/ Logout(r) \/ OidcStart(r)
          \/ CallbackRefused(r) \/ CallbackAccepted(r) \/ Exchange(r)
    \/ \E t \in DOMAIN tokens : Expire(t)

Spec == Init /\ [][Next]_vars

-----------------------------------------------------------------------------
(* Properties *)

\* A row that has a user is under a token that was given out by a login of this
\* user, never one that was known before it ("renew the token to prevent
\* fixation", auth_routes.go:129); and if that login came over OIDC, in the
\* browser that had set out for it.  Overlapping requests, which write back
\* copies of rows that are gone, do not break this.
SessionsAreOwnLogins ==
    \A t \in DOMAIN rows :
        rows[t].user # NoUser => tokens[t].user = rows[t].user /\ tokens[t].own

\* A session that was logged out stays so, whoever has its token still; unless
\* another request had loaded its row when it was destroyed, and commits it again.
LogoutLasts ==
    \A t \in closed \ shared : t \in DOMAIN rows => rows[t].user = NoUser

\* Who comes back from the provider with the state of his browser's latest start is
\* not refused for it, whatever else the browser did in between, one request at a
\* time: reading, or logging in with a password.  (A logout, another start, a lost
\* response or an expired session does end it.)
LatestStartIsAccepted ==
    \A r \in Requests : ~(req[r].due /\ req[r].refused)
=============================================================================
