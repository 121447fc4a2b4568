--------------------------- MODULE Sessions_proofs ---------------------------
(***************************************************************************)
(* Proofs about Sessions, for any number of browsers, users, requests at a *)
(* time and in all, and failures.                                          *)
(***************************************************************************)
EXTENDS Sessions, TLAPS

\* A session that belongs to browser b: its token was given to b, its state was asked
\* for by b, and its user logged in when the token was given.
Fits(s, b) ==
    /\ s.token # None => tokens[s.token].browser = b
    /\ s.state # None => states[s.state] = b
    /\ s.user # NoUser =>
          s.token # None /\ tokens[s.token].user = s.user /\ tokens[s.token].own

Stored(t) == [token |-> t, user |-> rows[t].user, state |-> rows[t].state]

\* The part of a request's state that its session comes from.
RequestFits(q) ==
    q.step # "idle" =>
        /\ q.cookie # None => tokens[q.cookie].browser = q.browser
        /\ Fits(q.session, q.browser)
        /\ q.step = "exchange" => q.kind = "oidcCallback"
        /\ q.step = "renew" => q.kind \in {"login", "oidcCallback"}
        /\ q.step \in {"exchange", "renew"} /\ q.kind = "oidcCallback" =>
              q.state # None /\ states[q.state] = q.browser

\* The part of TypeOK that the safety of sessions needs.
Typed ==
    /\ tokens \in Seq(GivenToken) /\ states \in Seq(Browsers)
    /\ DOMAIN rows \subseteq DOMAIN tokens /\ \A t \in DOMAIN rows : rows[t] \in Row
    /\ cookie \in [Browsers -> KnownToken] /\ csrf \in [Browsers -> BOOLEAN]
    /\ req \in [Requests -> Request]
    /\ links \subseteq KnownState

SessionInv ==
    /\ Typed
    /\ \A t \in DOMAIN rows : Fits(Stored(t), tokens[t].browser)
    /\ \A b \in Browsers : cookie[b] # None => tokens[cookie[b]].browser = b
    /\ \A r \in Requests : RequestFits(req[r])

\* Tokens and states that were given out stay as they were.
Grown ==
    /\ tokens' \in Seq(GivenToken) /\ states' \in Seq(Browsers)
    /\ DOMAIN tokens \subseteq DOMAIN tokens' /\ \A t \in DOMAIN tokens : tokens'[t] = tokens[t]
    /\ DOMAIN states \subseteq DOMAIN states' /\ \A s \in DOMAIN states : states'[s] = states[s]

-----------------------------------------------------------------------------

LEMMA NoneIsNotGiven ==
  ASSUME Typed
  PROVE  None \notin DOMAIN tokens /\ None \notin DOMAIN states
  BY DEF Typed, None

LEMMA GrownTypes ==
  ASSUME Typed, Grown
  PROVE  /\ KnownToken \subseteq KnownToken' /\ KnownState \subseteq KnownState'
         /\ \A x : x \in Session => (x \in Session)'
         /\ \A x : x \in Row => (x \in Row)'
         /\ \A x : x \in Request => (x \in Request)'
<1>1. KnownToken \subseteq KnownToken' /\ KnownState \subseteq KnownState'
  BY DEF Grown, KnownToken, KnownState
<1>2. \A x : x \in Session => (x \in Session)'
  BY <1>1 DEF Session
<1>3. \A x : x \in Row => (x \in Row)'
  BY <1>1 DEF Row
<1>4. ASSUME NEW x \in Request  PROVE (x \in Request)'
  BY <1>1, <1>2 DEF Request
<1>. QED
  BY <1>1, <1>2, <1>3, <1>4

LEMMA GrownFits ==
  ASSUME Typed, Grown, NEW s \in Session, NEW b, Fits(s, b)
  PROVE  Fits(s, b)'
<1>1. (s.token # None => s.token \in DOMAIN tokens) /\ (s.state # None => s.state \in DOMAIN states)
  BY DEF Session, KnownToken, KnownState
<1>. QED
  BY <1>1 DEF Fits, Grown

LEMMA GrownRequestFits ==
  ASSUME Typed, Grown, NEW q \in Request, RequestFits(q)
  PROVE  RequestFits(q)'
<1>1. (q.cookie # None => q.cookie \in DOMAIN tokens) /\ (q.state # None => q.state \in DOMAIN states)
  BY DEF Request, KnownToken, KnownState
<1>2. q.session \in Session
  BY DEF Request
<1>. QED
  BY <1>1, <1>2, GrownFits DEF RequestFits, Grown

\* What the invariant sees of a request.
Alike(p, q) ==
    /\ p.step = q.step /\ p.kind = q.kind /\ p.browser = q.browser
    /\ p.state = q.state /\ p.cookie = q.cookie /\ p.session = q.session

\* A step of request r: it comes out right, the others stay alike, and so do the rows
\* that are not written, and the cookies.
LEMMA RequestMoves ==
  ASSUME SessionInv, Grown, NEW r \in Requests,
         req' \in [Requests -> Request'],
         \A x \in Requests \ {r} : Alike(req'[x], req[x]),
         RequestFits(req[r])',
         DOMAIN rows' \subseteq DOMAIN tokens',
         \A t \in DOMAIN rows' :
            \/ t \in DOMAIN rows /\ rows'[t] = rows[t]
            \/ (rows[t] \in Row /\ Fits(Stored(t), tokens[t].browser))',
         UNCHANGED <<cookie, csrf, links>>
  PROVE  SessionInv'
<1>1. ASSUME NEW x \in Requests  PROVE RequestFits(req[x])'
  <2>1. CASE x = r
    BY <2>1
  <2>2. CASE x # r
    <3>1. req[x] \in Request /\ RequestFits(req[x])
      BY DEF SessionInv, Typed
    <3>2. \A q : q = req[x] => RequestFits(q)'
      BY <3>1, GrownRequestFits DEF SessionInv
    <3>3. Alike(req'[x], req[x])
      BY <2>2
    <3>. QED
      BY <3>2, <3>3 DEF RequestFits, Alike
  <2>. QED
    BY <2>1, <2>2
<1>2. ASSUME NEW t \in DOMAIN rows'
      PROVE  (rows[t] \in Row /\ Fits(Stored(t), tokens[t].browser))'
  <2>1. CASE t \in DOMAIN rows /\ rows'[t] = rows[t]
    <3>1. rows[t] \in Row /\ t \in DOMAIN tokens /\ Fits(Stored(t), tokens[t].browser)
      BY <2>1 DEF SessionInv, Typed
    <3>2. Stored(t) \in Session
      BY <3>1 DEF Stored, Session, Row, KnownToken
    <3>3. \A x, b : x = Stored(t) /\ b = tokens[t].browser => Fits(x, b)'
      BY <3>1, <3>2, GrownFits DEF SessionInv
    <3>4. Stored(t)' = Stored(t) /\ tokens'[t] = tokens[t]
      BY <2>1, <3>1 DEF Stored, Grown
    <3>5. Fits(Stored(t), tokens[t].browser)'
      BY <3>3, <3>4
    <3>6. (rows[t] \in Row)'
      BY <2>1, <3>1, GrownTypes DEF SessionInv
    <3>. QED
      BY <3>5, <3>6
  <2>. QED
    BY <2>1
<1>3. \A b \in Browsers : cookie'[b] # None => tokens'[cookie'[b]].browser = b
  BY DEF SessionInv, Typed, Grown, KnownToken
<1>4. Typed'
  BY <1>2, GrownTypes DEF SessionInv, Typed, Grown
<1>. QED
  BY <1>1, <1>2, <1>3, <1>4 DEF SessionInv

\* The steps that leave what was given out alone.
LEMMA NothingGiven ==
  ASSUME SessionInv, UNCHANGED given
  PROVE  Grown
  BY DEF SessionInv, Typed, Grown, given

\* A callback's state belongs to its browser, once it was compared with the session's.
Compared(q) == q.state # None /\ states[q.state] = q.browser

\* A step that gives nothing out and writes no row.
LEMMA QuietMoves ==
  ASSUME SessionInv, NEW r \in Requests, req[r].step # "idle",
         NEW q \in Request, req' = [req EXCEPT ![r] = q],
         q.kind = req[r].kind, q.browser = req[r].browser,
         q.state = req[r].state, q.cookie = req[r].cookie,
         Fits(q.session, q.browser),
         q.step = "exchange" => q.kind = "oidcCallback" /\ Compared(req[r]),
         q.step = "renew" => \/ q.kind = "login"
                             \/ q.kind = "oidcCallback" /\ Compared(req[r]),
         UNCHANGED <<rows, cookie, csrf, links, given>>
  PROVE  SessionInv'
<1>1. Grown
  BY NothingGiven
<1>2. req[r] \in Request /\ RequestFits(req[r]) /\ req \in [Requests -> Request]
      /\ DOMAIN rows \subseteq DOMAIN tokens
  BY DEF SessionInv, Typed
<1>3. req' \in [Requests -> Request]
  BY <1>2
<1>4. Request' = Request
  BY DEF Request, Session, KnownToken, KnownState, given
<1>5. RequestFits(q)
  BY <1>2 DEF RequestFits, Compared
<1>6. RequestFits(req[r])'
  BY <1>2, <1>5 DEF RequestFits, Fits, given
<1>7. \A x \in Requests \ {r} : Alike(req'[x], req[x])
  BY <1>2 DEF Alike
<1>. QED
  BY <1>1, <1>2, <1>3, <1>4, <1>6, <1>7, RequestMoves DEF given

LEMMA GotoMoves ==
  ASSUME SessionInv, NEW r \in Requests, req[r].step # "idle",
         NEW step \in Steps, NEW s \in Session, Goto(r, step, s), Fits(s, req[r].browser),
         step = "exchange" => req[r].kind = "oidcCallback" /\ Compared(req[r]),
         step = "renew" => \/ req[r].kind = "login"
                           \/ req[r].kind = "oidcCallback" /\ Compared(req[r]),
         UNCHANGED <<rows, cookie, csrf, links, given>>
  PROVE  SessionInv'
<1> DEFINE q == [req[r] EXCEPT !.step = step, !.session = s]
<1>1. req[r] \in Request
  BY DEF SessionInv, Typed
<1>2. /\ q \in Request /\ q.step = step /\ q.session = s
      /\ q.kind = req[r].kind /\ q.browser = req[r].browser
      /\ q.state = req[r].state /\ q.cookie = req[r].cookie
  BY <1>1 DEF Request
<1>3. req' = [req EXCEPT ![r] = q]
  BY DEF Goto, SessionInv, Typed
<1>. HIDE DEF q
<1>. QED
  BY <1>2, <1>3, QuietMoves

LEMMA ReplyMoves ==
  ASSUME SessionInv, NEW r \in Requests, req[r].step # "idle", NEW q \in Request,
         q.step = "reply",
         req' = [req EXCEPT ![r] = q], Alike([q EXCEPT !.step = req[r].step], req[r]),
         UNCHANGED <<rows, cookie, csrf, links, given>>
  PROVE  SessionInv'
<1>1. req[r] \in Request /\ RequestFits(req[r])
  BY DEF SessionInv, Typed
<1>2. /\ q.session = req[r].session /\ q.kind = req[r].kind /\ q.browser = req[r].browser
      /\ q.state = req[r].state /\ q.cookie = req[r].cookie
  BY DEF Alike, Request
<1>. QED
  BY <1>1, <1>2, QuietMoves DEF RequestFits

-----------------------------------------------------------------------------
(* The steps of a request, one by one *)

LEMMA LoadKeepsInv ==
  ASSUME SessionInv, NEW r \in Requests, Load(r)
  PROVE  SessionInv'
<1>0. req[r] \in Request /\ RequestFits(req[r]) /\ None \notin DOMAIN tokens
  BY NoneIsNotGiven DEF SessionInv, Typed
<1> DEFINE t == req[r].cookie
           s == IF t \in DOMAIN rows THEN Stored(t) ELSE Fresh
<1>1. Goto(r, "handler", s) /\ req[r].step = "sent" /\ UNCHANGED <<rows, cookie, csrf, links, given>>
  BY DEF Load, Stored
<1>2. CASE t \in DOMAIN rows
  <2>1. t \in DOMAIN tokens /\ rows[t] \in Row /\ Fits(Stored(t), tokens[t].browser)
    BY <1>2 DEF SessionInv, Typed
  <2>2. Stored(t) \in Session
    BY <2>1 DEF Stored, Session, Row, KnownToken
  <2>3. tokens[t].browser = req[r].browser
    BY <1>0, <1>1, <2>1 DEF RequestFits
  <2>4. s \in Session /\ Fits(s, req[r].browser)
    BY <1>2, <2>1, <2>2, <2>3
  <2>. QED
    BY <1>1, <2>4, GotoMoves DEF Steps, Holding
<1>3. CASE t \notin DOMAIN rows
  <2>1. s = Fresh
    BY <1>3
  <2>2. Fresh \in Session /\ Fits(Fresh, req[r].browser)
    BY DEF Fresh, Session, KnownToken, KnownState, SomeUser, Fits
  <2>. QED
    BY <1>1, <2>1, <2>2, GotoMoves DEF Steps, Holding
<1>. QED
  BY <1>2, <1>3

LEMMA HandlerKeepsInv ==
  ASSUME SessionInv, NEW r \in Requests,
         \/ CSRFRefuses(r) \/ Profile(r) \/ Login(r) \/ CallbackRefused(r)
         \/ CallbackAccepted(r) \/ Exchange(r) \/ RenewFails(r) \/ CommitFails(r)
  PROVE  SessionInv'
<1>0. /\ req[r] \in Request /\ req[r].session \in Session /\ RequestFits(req[r])
      /\ req \in [Requests -> Request]
  BY DEF SessionInv, Typed, Request
<1>1. CASE CSRFRefuses(r) \/ Profile(r) \/ (Login(r) /\ Reply(r))
  <2> DEFINE q == [req[r] EXCEPT !.step = "reply"]
  <2>1. req[r].step = "handler" /\ req' = [req EXCEPT ![r] = q]
        /\ UNCHANGED <<rows, cookie, csrf, links, given>>
    BY <1>0, <1>1 DEF CSRFRefuses, Profile, Login, InHandler, Reply
  <2>2. q \in Request /\ q.step = "reply" /\ Alike([q EXCEPT !.step = req[r].step], req[r])
    BY <1>0 DEF Request, Alike, Steps
  <2>. HIDE DEF q
  <2>. QED
    BY <2>1, <2>2, ReplyMoves
<1>2. CASE Login(r) /\ Goto(r, "renew", req[r].session)
  <2>1. Fits(req[r].session, req[r].browser) /\ req[r].kind = "login" /\ req[r].step = "handler"
    BY <1>0, <1>2 DEF Login, InHandler, RequestFits
  <2>. QED
    BY <1>0, <1>2, <2>1, GotoMoves DEF Login, Steps, Holding
<1>3. CASE CallbackRefused(r)
  <2> DEFINE q == [req[r] EXCEPT !.step = "reply", !.refused = TRUE]
  <2>1. req[r].step = "handler" /\ req' = [req EXCEPT ![r] = q]
        /\ UNCHANGED <<rows, cookie, csrf, links, given>>
    BY <1>0, <1>3 DEF CallbackRefused, InHandler
  <2>2. q \in Request /\ q.step = "reply" /\ Alike([q EXCEPT !.step = req[r].step], req[r])
    BY <1>0 DEF Request, Alike, Steps
  <2>. HIDE DEF q
  <2>. QED
    BY <2>1, <2>2, ReplyMoves
<1>4. CASE CallbackAccepted(r)
  <2> DEFINE s == [req[r].session EXCEPT !.state = None]
  <2>1. /\ Fits(req[r].session, req[r].browser) /\ req[r].kind = "oidcCallback"
        /\ req[r].step = "handler" /\ StateMatches(r)
    BY <1>0, <1>4 DEF CallbackAccepted, InHandler, RequestFits
  <2>2. s \in Session /\ Fits(s, req[r].browser)
    BY <1>0, <2>1 DEF Session, KnownState, Fits
  <2>3. Compared(req[r])
    BY <2>1 DEF StateMatches, Fits, Compared
  <2>. QED
    BY <1>4, <2>1, <2>2, <2>3, GotoMoves DEF CallbackAccepted, Steps, Holding
<1>5. CASE Exchange(r)
  <2>1. /\ Fits(req[r].session, req[r].browser) /\ req[r].kind = "oidcCallback"
        /\ req[r].step = "exchange" /\ Compared(req[r])
    BY <1>0, <1>5 DEF Exchange, RequestFits, Compared
  <2>2. UNCHANGED <<rows, cookie, csrf, links, given>>
        /\ (Goto(r, "renew", req[r].session) \/ Goto(r, "commit", req[r].session))
    BY <1>5 DEF Exchange
  <2>. QED
    BY <1>0, <2>1, <2>2, GotoMoves DEF Steps, Holding
<1>6. CASE RenewFails(r)
  <2>1. Fits(req[r].session, req[r].browser) /\ req[r].step = "renew"
    BY <1>0, <1>6 DEF RenewFails, RequestFits
  <2>2. UNCHANGED <<rows, cookie, csrf, links, given>>
        /\ (Goto(r, "commit", req[r].session) \/ Goto(r, "reply", req[r].session))
    BY <1>6 DEF RenewFails
  <2>. QED
    BY <1>0, <2>1, <2>2, GotoMoves DEF Steps, Holding
<1>7. CASE CommitFails(r)
  <2> DEFINE q == [req[r] EXCEPT !.step = "reply", !.alone = FALSE]
  <2>1. req[r].step = "commit" /\ req' = [req EXCEPT ![r] = q]
        /\ UNCHANGED <<rows, cookie, csrf, links, given>>
    BY <1>0, <1>7 DEF CommitFails
  <2>2. q \in Request /\ q.step = "reply" /\ Alike([q EXCEPT !.step = req[r].step], req[r])
    BY <1>0 DEF Request, Alike, Steps
  <2>. HIDE DEF q
  <2>. QED
    BY <2>1, <2>2, ReplyMoves
<1>. QED
  BY <1>1, <1>2, <1>3, <1>4, <1>5, <1>6, <1>7 DEF Login

\* A new token is nobody's before, and r's browser's after.
LEMMA GiveGrows ==
  ASSUME SessionInv, NEW r \in Requests, NEW user \in SomeUser, NEW own \in BOOLEAN,
         Give(r, user, own), UNCHANGED states
  PROVE  /\ Grown
         /\ Len(tokens) + 1 \in DOMAIN tokens' /\ Len(tokens) + 1 # None
         /\ tokens'[Len(tokens) + 1] = [browser |-> req[r].browser, user |-> user, own |-> own]
<1>1. tokens \in Seq(GivenToken) /\ states \in Seq(Browsers) /\ req[r].browser \in Browsers
  BY DEF SessionInv, Typed, Request
<1>2. [browser |-> req[r].browser, user |-> user, own |-> own] \in GivenToken
  BY <1>1 DEF GivenToken
<1>. QED
  BY <1>1, <1>2 DEF Give, Grown, None

LEMMA RenewKeepsInv ==
  ASSUME SessionInv, NEW r \in Requests, Renew(r)
  PROVE  SessionInv'
<1> DEFINE t == Len(tokens) + 1
           own == req[r].kind = "login" \/ states[req[r].state] = req[r].browser
           s == [req[r].session EXCEPT !.token = t, !.user = req[r].user]
<1>0. /\ req[r] \in Request /\ req[r].session \in Session /\ RequestFits(req[r])
      /\ req \in [Requests -> Request] /\ req[r].user \in SomeUser
  BY DEF SessionInv, Typed, Request
<1>1. Fits(req[r].session, req[r].browser) /\ own = TRUE
  BY <1>0 DEF Renew, RequestFits
<1>2. Give(r, req[r].user, own) /\ Goto(r, "commit", s)
      /\ rows' = Without(req[r].session.token) /\ UNCHANGED <<cookie, csrf, links, states>>
  BY DEF Renew
<1>3. Give(r, req[r].user, TRUE)
  BY <1>1, <1>2 DEF Give
<1>4. /\ Grown /\ t \in DOMAIN tokens' /\ t # None
      /\ tokens'[t] = [browser |-> req[r].browser, user |-> req[r].user, own |-> TRUE]
  BY <1>0, <1>2, <1>3, GiveGrows
<1>. HIDE DEF t
<1>5. s \in Session' /\ s.token = t /\ s.user = req[r].user /\ s.state = req[r].session.state
  BY <1>0, <1>4, GrownTypes DEF Session, KnownToken, KnownState, SessionInv
<1>6. \A x, b : x = req[r].session /\ b = req[r].browser => Fits(x, b)'
  BY <1>0, <1>1, <1>4, GrownFits DEF SessionInv
<1>. HIDE DEF s
<1>7. req'[r] = [req[r] EXCEPT !.step = "commit", !.session = s]
  BY <1>0, <1>2 DEF Goto
<1>8. req[r] \in Request'
  BY <1>0, <1>4, GrownTypes DEF SessionInv
<1>9. /\ req'[r] \in Request' /\ req'[r].step = "commit" /\ req'[r].session = s
      /\ req'[r].browser = req[r].browser /\ req'[r].cookie = req[r].cookie
  BY <1>5, <1>7, <1>8 DEF Request, Steps, Holding
<1>10. req' \in [Requests -> Request'] /\ \A x \in Requests \ {r} : Alike(req'[x], req[x])
  BY <1>0, <1>2, <1>4, <1>9, GrownTypes DEF Goto, Alike, SessionInv
<1>11. RequestFits(req[r])'
  <2>1. req[r].cookie # None => tokens'[req[r].cookie].browser = req[r].browser
    BY <1>0, <1>4 DEF Renew, RequestFits, Grown, Request, KnownToken
  <2>2. Fits(req[r].session, req[r].browser)'
    BY <1>4, <1>5, <1>6, <1>9 DEF Fits
  <2>. QED
    BY <1>9, <2>1, <2>2 DEF RequestFits
<1>12. DOMAIN rows' \subseteq DOMAIN tokens' /\ \A x \in DOMAIN rows' : x \in DOMAIN rows /\ rows'[x] = rows[x]
  BY <1>2, <1>4 DEF Without, Restrict, SessionInv, Typed, Grown
<1>. QED
  BY <1>2, <1>4, <1>10, <1>11, <1>12, RequestMoves

LEMMA CommitKeepsInv ==
  ASSUME SessionInv, NEW r \in Requests, Commit(r)
  PROVE  SessionInv'
<1> DEFINE s == req[r].session
           t == IF s.token = None THEN Len(tokens) + 1 ELSE s.token
<1>0. /\ req[r] \in Request /\ s \in Session /\ RequestFits(req[r])
      /\ req \in [Requests -> Request] /\ DOMAIN rows \subseteq DOMAIN tokens
  BY DEF SessionInv, Typed, Request
<1>1. req[r].step = "commit" /\ Fits(s, req[r].browser)
  BY <1>0 DEF Commit, RequestFits
<1>2. /\ rows' = [x \in DOMAIN rows \union {t} |->
                    IF x = t THEN [user |-> s.user, state |-> s.state] ELSE rows[x]]
      /\ req' = [req EXCEPT ![r].session.token = t, ![r].step = "reply", ![r].sets = TRUE]
      /\ UNCHANGED <<cookie, csrf, links, states>>
      /\ IF s.token = None THEN Give(r, NoUser, FALSE) ELSE UNCHANGED tokens
  BY DEF Commit
<1>3. Grown /\ t \in DOMAIN tokens' /\ t # None /\ tokens'[t].browser = req[r].browser
      /\ (s.user # NoUser => tokens'[t].user = s.user /\ tokens'[t].own)
  <2>1. CASE s.token = None
    <3>1. Give(r, NoUser, FALSE) /\ t = Len(tokens) + 1 /\ NoUser \in SomeUser
      BY <1>2, <2>1 DEF SomeUser
    <3>2. s.user = NoUser
      BY <1>1, <2>1 DEF Fits
    <3>3. /\ Grown /\ Len(tokens) + 1 \in DOMAIN tokens' /\ Len(tokens) + 1 # None
          /\ tokens'[Len(tokens) + 1] = [browser |-> req[r].browser, user |-> NoUser, own |-> FALSE]
      BY <1>2, <3>1, GiveGrows
    <3>. QED
      BY <3>1, <3>2, <3>3
  <2>2. CASE s.token # None
    <3>1. t = s.token /\ t \in DOMAIN tokens /\ UNCHANGED given
      BY <1>0, <1>2, <2>2 DEF Session, KnownToken, given
    <3>. QED
      BY <1>1, <2>2, <3>1, NothingGiven DEF Fits, given
  <2>. QED
    BY <2>1, <2>2
<1>4. \A x, b : x = s /\ b = req[r].browser => Fits(x, b)'
  BY <1>0, <1>1, <1>3, GrownFits DEF SessionInv
<1>5. req[r] \in Request' /\ s \in Session'
  BY <1>0, <1>3, GrownTypes DEF SessionInv
<1>. HIDE DEF t
<1> DEFINE n == [s EXCEPT !.token = t]
<1>6. n \in Session' /\ n.token = t /\ n.user = s.user /\ n.state = s.state
  BY <1>3, <1>5 DEF Session, KnownToken
<1>7. req'[r] = [req[r] EXCEPT !.session = n, !.step = "reply", !.sets = TRUE]
  BY <1>0, <1>2
<1>. HIDE DEF n
<1>8. /\ req'[r] \in Request' /\ req'[r].step = "reply" /\ req'[r].browser = req[r].browser
      /\ req'[r].cookie = req[r].cookie
      /\ req'[r].session.token = t /\ req'[r].session.user = s.user
      /\ req'[r].session.state = s.state
  BY <1>5, <1>6, <1>7 DEF Request, Session, Steps
<1>9. req' \in [Requests -> Request'] /\ \A x \in Requests \ {r} : Alike(req'[x], req[x])
  BY <1>0, <1>2, <1>3, <1>8, GrownTypes DEF Alike, SessionInv
<1>10. RequestFits(req[r])'
  <2>1. req[r].cookie # None => tokens'[req[r].cookie].browser = req[r].browser
    BY <1>0, <1>1, <1>3 DEF RequestFits, Grown, Request, KnownToken
  <2>2. Fits(req[r].session, req[r].browser)'
    BY <1>3, <1>4, <1>8 DEF Fits
  <2>. QED
    BY <1>8, <2>1, <2>2 DEF RequestFits
<1>11. DOMAIN rows' \subseteq DOMAIN tokens'
  BY <1>0, <1>2, <1>3 DEF Grown
<1>12. ASSUME NEW x \in DOMAIN rows', ~(x \in DOMAIN rows /\ rows'[x] = rows[x])
       PROVE  (rows[x] \in Row /\ Fits(Stored(x), tokens[x].browser))'
  <2>1. x = t /\ rows'[x] = [user |-> s.user, state |-> s.state]
    BY <1>2, <1>12
  <2>2. (rows[x] \in Row)'
    BY <1>5, <2>1 DEF Row, Session
  <2>3. Fits(Stored(x), tokens[x].browser)'
    BY <1>3, <1>4, <2>1 DEF Fits, Stored
  <2>. QED
    BY <2>2, <2>3
<1>. QED
  BY <1>2, <1>3, <1>9, <1>10, <1>11, <1>12, RequestMoves

LEMMA LogoutKeepsInv ==
  ASSUME SessionInv, NEW r \in Requests, Logout(r)
  PROVE  SessionInv'
<1>0. /\ req[r] \in Request /\ RequestFits(req[r]) /\ req \in [Requests -> Request]
      /\ DOMAIN rows \subseteq DOMAIN tokens /\ req[r].step = "handler"
  BY DEF SessionInv, Typed, Logout, InHandler
<1>1. Grown /\ Request' = Request
  BY NothingGiven DEF Logout, Request, Session, KnownToken, KnownState, given
<1>2. Fresh \in Session /\ Fits(Fresh, req[r].browser)'
  BY DEF Fresh, Session, KnownToken, KnownState, SomeUser, Fits
<1>3. req'[r] = [req[r] EXCEPT !.session = Fresh, !.step = "reply", !.sets = TRUE]
  BY <1>0 DEF Logout
<1>4. /\ req'[r] \in Request /\ req'[r].step = "reply" /\ req'[r].browser = req[r].browser
      /\ req'[r].cookie = req[r].cookie /\ req'[r].session = Fresh
  BY <1>0, <1>2, <1>3 DEF Request, Steps
<1>5. req' \in [Requests -> Request] /\ \A x \in Requests \ {r} : Alike(req'[x], req[x])
  BY <1>0, <1>4 DEF Logout, Alike
<1>6. RequestFits(req[r])'
  BY <1>0, <1>2, <1>4 DEF RequestFits, Logout, given
<1>7. DOMAIN rows' \subseteq DOMAIN rows /\ \A x \in DOMAIN rows' : rows'[x] = rows[x]
  BY DEF Logout, Without, Restrict
<1>. QED
  BY <1>0, <1>1, <1>5, <1>6, <1>7, RequestMoves DEF Logout, given

LEMMA OidcStartKeepsInv ==
  ASSUME SessionInv, NEW r \in Requests, OidcStart(r)
  PROVE  SessionInv'
<1> DEFINE new == Len(states) + 1
           s == req[r].session
           n == [s EXCEPT !.state = new]
<1>0. /\ req[r] \in Request /\ s \in Session /\ RequestFits(req[r])
      /\ req \in [Requests -> Request] /\ DOMAIN rows \subseteq DOMAIN tokens
      /\ states \in Seq(Browsers) /\ tokens \in Seq(GivenToken) /\ req[r].browser \in Browsers
  BY DEF SessionInv, Typed, Request
<1>1. req[r].step = "handler" /\ req[r].kind = "oidcStart" /\ Fits(s, req[r].browser)
  BY <1>0 DEF OidcStart, InHandler, RequestFits
<1>2. /\ states' = Append(states, req[r].browser) /\ UNCHANGED <<tokens, rows, cookie, csrf, links>>
      /\ req' = [req EXCEPT ![r].step = "commit", ![r].state = Len(states'),
                            ![r].session.state = Len(states')]
  BY DEF OidcStart
<1>3. /\ Grown /\ Len(states') = new /\ new \in DOMAIN states' /\ new # None
      /\ states'[new] = req[r].browser
  BY <1>0, <1>2 DEF Grown, None
<1>4. \A x, b : x = s /\ b = req[r].browser => Fits(x, b)'
  BY <1>0, <1>1, <1>3, GrownFits DEF SessionInv
<1>5. req[r] \in Request' /\ s \in Session'
  BY <1>0, <1>3, GrownTypes DEF SessionInv
<1>. HIDE DEF new
<1>6. n \in Session' /\ n.token = s.token /\ n.user = s.user /\ n.state = new
  BY <1>3, <1>5 DEF Session, KnownState
<1>7. req'[r] = [req[r] EXCEPT !.step = "commit", !.state = new, !.session = n]
  BY <1>0, <1>2, <1>3
<1>. HIDE DEF n
<1>8. /\ req'[r] \in Request' /\ req'[r].step = "commit" /\ req'[r].browser = req[r].browser
      /\ req'[r].cookie = req[r].cookie /\ req'[r].session = n
  BY <1>3, <1>5, <1>6, <1>7 DEF Request, Steps, Holding, KnownState
<1>9. req' \in [Requests -> Request'] /\ \A x \in Requests \ {r} : Alike(req'[x], req[x])
  BY <1>0, <1>2, <1>3, <1>8, GrownTypes DEF Alike, SessionInv
<1>10. RequestFits(req[r])'
  <2>1. req[r].cookie # None => tokens'[req[r].cookie].browser = req[r].browser
    BY <1>0, <1>1, <1>2 DEF RequestFits
  <2>2. Fits(req[r].session, req[r].browser)'
    BY <1>3, <1>4, <1>6, <1>8 DEF Fits
  <2>. QED
    BY <1>8, <2>1, <2>2 DEF RequestFits
<1>. QED
  BY <1>0, <1>2, <1>3, <1>9, <1>10, RequestMoves

\* The requests that end, and those that a later one finds under way.
LEMMA BrowserKeepsInv ==
  ASSUME SessionInv, NEW r \in Requests, Receive(r) \/ ResponseLost(r)
  PROVE  SessionInv'
<1>0. /\ req[r] \in Request /\ RequestFits(req[r]) /\ req \in [Requests -> Request]
      /\ DOMAIN rows \subseteq DOMAIN tokens /\ req[r].step = "reply"
      /\ cookie \in [Browsers -> KnownToken] /\ req[r].browser \in Browsers
      /\ req[r].session.token \in KnownToken /\ req[r].state \in KnownState
  BY DEF SessionInv, Typed, Receive, ResponseLost, Request, Session
<1>1. NoRequest \in Request /\ NoRequest.step = "idle"
  BY SessionsAssumption DEF NoRequest, Request, Fresh, Session, KnownToken, KnownState, SomeUser,
     Kinds, Steps
<1>2. /\ req' = [req EXCEPT ![r] = NoRequest] /\ UNCHANGED <<rows, given>>
      /\ cookie' \in [Browsers -> KnownToken]
      /\ \A b \in Browsers : \/ cookie'[b] = cookie[b]
                             \/ b = req[r].browser /\ cookie'[b] = req[r].session.token
  <2>1. CASE ResponseLost(r)
    BY <1>0, <2>1 DEF ResponseLost
  <2>2. CASE Receive(r)
    <3>1. /\ req' = [req EXCEPT ![r] = NoRequest] /\ UNCHANGED <<rows, given>>
          /\ cookie' = [cookie EXCEPT ![req[r].browser] =
                           IF req[r].sets THEN req[r].session.token ELSE @]
      BY <2>2 DEF Receive
    <3>. QED
      BY <1>0, <3>1
  <2>. QED
    BY <2>1, <2>2
<1>3. \A x \in Requests : RequestFits(req[x])'
  BY <1>0, <1>1, <1>2 DEF SessionInv, RequestFits, Fits, given
<1>4. \A b \in Browsers : cookie'[b] # None => tokens'[cookie'[b]].browser = b
  BY <1>0, <1>2 DEF SessionInv, RequestFits, Fits, given
<1>5. \A t \in DOMAIN rows' : Fits(Stored(t), tokens[t].browser)'
  BY <1>2 DEF SessionInv, Fits, Stored, given
<1>6. links' \subseteq KnownState
  <2>1. links' = links \/ links' = links \union {req[r].state}
    BY Zenon DEF Receive, ResponseLost
  <2>. QED
    BY <1>0, <2>1 DEF SessionInv, Typed
<1>7. csrf' \in [Browsers -> BOOLEAN]
  <2> DEFINE sees == csrf[req[r].browser] \/ req[r].kind \in SafeMethods
  <2>1. csrf \in [Browsers -> BOOLEAN] /\ sees \in BOOLEAN
    BY <1>0 DEF SessionInv, Typed
  <2>2. csrf' = csrf \/ csrf' = [csrf EXCEPT ![req[r].browser] = sees]
    BY Zenon DEF Receive, ResponseLost
  <2>. HIDE DEF sees
  <2>. QED
    BY <1>0, <2>1, <2>2
<1>8. Typed'
  BY <1>0, <1>1, <1>2, <1>6, <1>7
     DEF SessionInv, Typed, given, KnownToken, KnownState, Request, Session, Row
<1>. QED
  BY <1>3, <1>4, <1>5, <1>8 DEF SessionInv

LEMMA SendKeepsInv ==
  ASSUME SessionInv, NEW r \in Requests, NEW b \in Browsers, NEW kind \in Kinds,
         NEW user \in SomeUser, NEW state \in links \union {None},
         Send(r, b, kind, user, state)
  PROVE  SessionInv'
<1> DEFINE new == NewRequest(b, kind, user, state)
<1>0. /\ req \in [Requests -> Request] /\ DOMAIN rows \subseteq DOMAIN tokens
      /\ state \in KnownState /\ cookie[b] \in KnownToken /\ csrf[b] \in BOOLEAN
      /\ (cookie[b] # None => tokens[cookie[b]].browser = b)
  BY DEF SessionInv, Typed, KnownState
<1>1. Fresh \in Session /\ Fits(Fresh, b)
  BY DEF Fresh, Session, KnownToken, KnownState, SomeUser, Fits
<1>2. Grown /\ Request' = Request /\ UNCHANGED <<rows, cookie, csrf, links, tokens, states>>
  BY NothingGiven DEF Send, Request, Session, KnownToken, KnownState, given
<1>3. /\ new \in Request /\ new.step = "sent" /\ new.browser = b
      /\ new.cookie = cookie[b] /\ new.session = Fresh
  BY <1>0, <1>1 DEF NewRequest, Request, Steps
<1>4. req'[r] = new
  BY DEF Send
<1>. HIDE DEF new
<1>5. ASSUME NEW q \in Requests \ {r}
      PROVE  req'[q] \in Request /\ Alike(req'[q], req[q])
  <2>1. req[q] \in Request
    BY <1>0
  <2>2. req'[q] \in {req[q], [req[q] EXCEPT !.alone = FALSE, !.due = FALSE]}
    BY DEF Send
  <2>. QED
    BY <2>1, <2>2 DEF Request, Alike
<1>6. req' \in [Requests -> Request]
  <2>1. req' = [q \in Requests |-> req'[q]]
    BY DEF Send
  <2>. QED
    BY <1>3, <1>4, <1>5, <2>1
<1>7. RequestFits(req[r])'
  BY <1>0, <1>1, <1>2, <1>3, <1>4 DEF RequestFits, Fits
<1>. QED
  BY <1>0, <1>2, <1>5, <1>6, <1>7, RequestMoves

\* No copy of an expired row is under way.
LEMMA ExpireKeepsInv ==
  ASSUME SessionInv, NEW t \in DOMAIN tokens, Expire(t)
  PROVE  SessionInv'
<1>1. req \in [Requests -> Request] /\ UNCHANGED <<cookie, csrf, links, tokens, states>>
  BY DEF SessionInv, Typed, Expire, given
<1>2. Request' = Request /\ KnownToken' = KnownToken /\ KnownState' = KnownState /\ Row' = Row
  BY <1>1 DEF Request, Session, KnownToken, KnownState, Row
<1>3. ASSUME NEW q \in Requests
      PROVE  req'[q] \in Request /\ RequestFits(req[q])'
  <2>1. req[q] \in Request /\ RequestFits(req[q])
    BY DEF SessionInv, Typed
  <2>2. \E d \in BOOLEAN : req'[q] = [req[q] EXCEPT !.due = d]
    <3>1. req[q].due \in BOOLEAN
      BY <2>1 DEF Request
    <3>2. req'[q] = [req[q] EXCEPT !.due = req[q].due /\ req[q].cookie # t]
      BY DEF Expire
    <3>3. (req[q].due /\ req[q].cookie # t) \in BOOLEAN
      BY <3>1
    <3>. QED
      BY <3>2, <3>3
  <2>3. req'[q] \in Request /\ Alike(req'[q], req[q])
    BY <2>1, <2>2 DEF Request, Alike
  <2>. QED
    BY <1>1, <2>1, <2>3 DEF RequestFits, Alike, Fits
<1>4. req' \in [Requests -> Request]
  <2>1. req' = [q \in Requests |-> req'[q]]
    BY DEF Expire
  <2>. QED
    BY <1>3, <2>1
<1>5. DOMAIN rows' \subseteq DOMAIN rows /\ \A x \in DOMAIN rows' : rows'[x] = rows[x]
  BY DEF Expire, Without, Restrict
<1>6. \A x \in DOMAIN rows' : Fits(Stored(x), tokens[x].browser)'
  BY <1>1, <1>5 DEF SessionInv, Fits, Stored
<1>7. Typed'
  BY <1>1, <1>2, <1>4, <1>5 DEF SessionInv, Typed
<1>. QED
  BY <1>1, <1>3, <1>6, <1>7 DEF SessionInv

LEMMA InitSession ==
  ASSUME Init
  PROVE  SessionInv
<1>1. Fresh \in Session
  BY DEF Fresh, Session, KnownToken, KnownState, SomeUser
<1>2. NoRequest \in Request /\ NoRequest.step = "idle"
  BY <1>1, SessionsAssumption DEF NoRequest, Request, KnownToken, KnownState, SomeUser, Kinds, Steps
<1>3. Typed
  BY <1>2 DEF Init, Typed, KnownToken, KnownState
<1>. QED
  BY <1>2, <1>3 DEF Init, SessionInv, RequestFits

LEMMA SessionInvIsInductive ==
  ASSUME SessionInv, [Next]_vars
  PROVE  SessionInv'
<1>1. CASE UNCHANGED vars
  BY <1>1 DEF vars, given, SessionInv, Typed, RequestFits, Fits, Stored, KnownToken, KnownState,
     Request, Session, Row
<1>2. CASE Next
  BY <1>2, SendKeepsInv, BrowserKeepsInv, LoadKeepsInv, HandlerKeepsInv, CommitKeepsInv,
     RenewKeepsInv, LogoutKeepsInv, OidcStartKeepsInv, ExpireKeepsInv DEF Next, SomeUser
<1>. QED
  BY <1>1, <1>2

-----------------------------------------------------------------------------
(* What follows from it *)

\* For any number of browsers, overlapping requests and failures: a row with a user is
\* under a token that was new when this user logged in with it.
THEOREM SessionsComeFromLogins == Spec => []SessionsAreOwnLogins
<1>1. SessionInv => SessionsAreOwnLogins
  BY DEF SessionInv, Fits, Stored, SessionsAreOwnLogins
<1>2. Init => SessionInv
  BY InitSession
<1>3. SessionInv /\ [Next]_vars => SessionInv'
  BY SessionInvIsInductive
<1>. QED
  BY <1>1, <1>2, <1>3, PTL DEF Spec

-----------------------------------------------------------------------------
(* Logging out *)

LEMMA RenewGrows ==
  ASSUME SessionInv, NEW r \in Requests, Renew(r)
  PROVE  Grown
<1>1. req[r] \in Request /\ RequestFits(req[r]) /\ req[r].user \in SomeUser
  BY DEF SessionInv, Typed, Request
<1>2. Give(r, req[r].user, TRUE) /\ UNCHANGED states
  BY <1>1 DEF Renew, RequestFits, Give
<1>. QED
  BY <1>1, <1>2, GiveGrows

LEMMA CommitGrows ==
  ASSUME SessionInv, NEW r \in Requests, Commit(r)
  PROVE  Grown
<1>1. CASE Give(r, NoUser, FALSE) /\ UNCHANGED states
  BY <1>1, GiveGrows DEF SomeUser
<1>2. CASE UNCHANGED given
  BY <1>2, NothingGiven
<1>. QED
  BY <1>1, <1>2 DEF Commit, given

LEMMA OidcStartGrows ==
  ASSUME SessionInv, NEW r \in Requests, OidcStart(r)
  PROVE  Grown
<1>1. states \in Seq(Browsers) /\ tokens \in Seq(GivenToken) /\ req[r].browser \in Browsers
  BY DEF SessionInv, Typed, Request
<1>. QED
  BY <1>1 DEF OidcStart, Grown

Ended == (closed \ shared) \ {None}

Holds(q, t) == q.step \in Holding /\ q.session.token = t

\* A token that was logged out alone has no row, and no request has a copy of one.
LogoutInv ==
    /\ closed \subseteq KnownToken
    /\ \A t \in Ended : t \notin DOMAIN rows /\ \A r \in Requests : ~Holds(req[r], t)

\* Rows and copies come from rows, from copies, or from new tokens.
LEMMA LogoutStays ==
  ASSUME SessionInv, SessionInv', LogoutInv, Grown, UNCHANGED <<closed, shared>>,
         \A t \in DOMAIN rows' : \/ t \in DOMAIN rows \/ t \notin KnownToken
                                \/ \E r \in Requests : Holds(req[r], t),
         \A r \in Requests : \A t \in DOMAIN tokens :
            Holds(req'[r], t) => t \in DOMAIN rows \/ Holds(req[r], t)
  PROVE  LogoutInv'
<1>1. closed' \subseteq KnownToken'
  BY GrownTypes DEF LogoutInv, SessionInv
<1>2. Ended' = Ended /\ Ended \subseteq DOMAIN tokens
  BY DEF Ended, LogoutInv, KnownToken
<1>. QED
  BY <1>1, <1>2 DEF LogoutInv, KnownToken

LEMMA LogoutInvIsInductive ==
  ASSUME SessionInv, SessionInv', LogoutInv, [Next]_vars
  PROVE  LogoutInv'
<1>0. /\ req \in [Requests -> Request] /\ DOMAIN rows \subseteq DOMAIN tokens
      /\ tokens \in Seq(GivenToken) /\ None \notin DOMAIN tokens
      /\ \A r \in Requests : req[r] \in Request /\ req[r].session \in Session
  BY NoneIsNotGiven DEF SessionInv, Typed, Request
<1>1. CASE UNCHANGED vars
  BY <1>1 DEF vars, history, given, LogoutInv, Ended, KnownToken, Holds
<1>2. ASSUME NEW r \in Requests, NEW b \in Browsers, NEW kind \in Kinds, NEW user \in SomeUser,
             NEW state \in links \union {None}, Send(r, b, kind, user, state)
      PROVE  LogoutInv'
  <2>1. Grown /\ UNCHANGED <<rows, closed, shared>>
    BY <1>2, NothingGiven DEF Send, history
  <2>2. req'[r].step = "sent"
    BY <1>2 DEF Send, NewRequest
  <2>3. ASSUME NEW q \in Requests \ {r}
        PROVE  req'[q].step = req[q].step /\ req'[q].session = req[q].session
    BY <1>0, <1>2 DEF Send, Request
  <2>. QED
    BY <2>1, <2>2, <2>3, LogoutStays DEF Holds, Holding
<1>3. ASSUME NEW r \in Requests, Receive(r) \/ ResponseLost(r)  PROVE LogoutInv'
  <2>1. Grown /\ UNCHANGED <<rows, closed, shared>> /\ req' = [req EXCEPT ![r] = NoRequest]
    BY <1>3, NothingGiven DEF Receive, ResponseLost
  <2>. QED
    BY <1>0, <2>1, LogoutStays DEF Holds, Holding, NoRequest
<1>4. ASSUME NEW r \in Requests, Load(r)  PROVE LogoutInv'
  <2>1. Grown /\ UNCHANGED <<rows, closed, shared>>
        /\ req'[r].session.token \in DOMAIN rows \union {None}
        /\ \A q \in Requests \ {r} : req'[q] = req[q]
    BY <1>0, <1>4, NothingGiven DEF Load, Goto, history, Fresh, Request
  <2>. QED
    BY <1>0, <2>1, LogoutStays DEF Holds
<1>5. ASSUME NEW r \in Requests,
             \/ CSRFRefuses(r) \/ Profile(r) \/ Login(r) \/ CallbackRefused(r)
             \/ CallbackAccepted(r) \/ Exchange(r) \/ RenewFails(r) \/ CommitFails(r)
      PROVE  LogoutInv'
  <2>1. Grown /\ UNCHANGED <<rows, closed, shared>>
    BY <1>5, NothingGiven DEF CSRFRefuses, Profile, Login, CallbackRefused, CallbackAccepted,
       Exchange, RenewFails, CommitFails, history
  <2>2. req[r].step \in Holding /\ req'[r].session.token = req[r].session.token
    BY <1>0, <1>5 DEF CSRFRefuses, Profile, Login, CallbackRefused, CallbackAccepted,
       Exchange, RenewFails, CommitFails, InHandler, Reply, Goto, Holding, Request, Session
  <2>3. \A q \in Requests \ {r} : req'[q] = req[q]
    BY <1>0, <1>5 DEF CSRFRefuses, Profile, Login, CallbackRefused, CallbackAccepted,
       Exchange, RenewFails, CommitFails, Reply, Goto
  <2>. QED
    BY <2>1, <2>2, <2>3, LogoutStays DEF Holds
<1>6. ASSUME NEW r \in Requests, Renew(r)  PROVE LogoutInv'
  <2> DEFINE new == Len(tokens) + 1
  <2>1. UNCHANGED <<closed, shared, states>> /\ DOMAIN rows' \subseteq DOMAIN rows
    BY <1>6 DEF Renew, history, Without, Restrict
  <2>2. Grown
    BY <1>6, RenewGrows
  <2>3. req'[r].session.token = new /\ new \notin DOMAIN tokens
        /\ \A q \in Requests \ {r} : req'[q] = req[q]
    BY <1>0, <1>6 DEF Renew, Goto, Request, Session
  <2>. QED
    BY <1>0, <2>1, <2>2, <2>3, LogoutStays DEF Holds
<1>7. ASSUME NEW r \in Requests, Commit(r)  PROVE LogoutInv'
  <2>1. UNCHANGED <<closed, shared>> /\ Grown
    BY <1>7, CommitGrows DEF Commit, history
  <2>2. /\ \A q \in Requests \ {r} : req'[q] = req[q]
        /\ req[r].step = "commit" /\ req'[r].step = "reply"
    BY <1>0, <1>7 DEF Commit
  <2>3. \A t \in DOMAIN rows' : \/ t \in DOMAIN rows \/ t \notin KnownToken
                               \/ Holds(req[r], t)
    BY <1>0, <1>7, <2>2 DEF Commit, Holds, Holding, KnownToken, None
  <2>. QED
    BY <2>1, <2>2, <2>3, LogoutStays DEF Holds, Holding
<1>8. ASSUME NEW r \in Requests, Logout(r)  PROVE LogoutInv'
  <2> DEFINE u == req[r].session.token
  <2>1. /\ closed' = closed \union {u} /\ shared \subseteq shared'
        /\ (u \notin shared' => Holders(r, u) = {})
        /\ DOMAIN rows' = DOMAIN rows \ {u} /\ KnownToken' = KnownToken
    BY <1>8 DEF Logout, Without, Restrict, KnownToken, given
  <2>2. \A q \in Requests \ {r} : req'[q] = req[q]
    BY <1>0, <1>8 DEF Logout
  <2>3. req'[r].step = "reply"
    BY <1>0, <1>8 DEF Logout
  <2>4. u \in KnownToken
    BY <1>0 DEF Session
  <2>5. \A t \in Ended' : t \in Ended \/ (t = u /\ Holders(r, u) = {})
    BY <2>1 DEF Ended
  <2>. QED
    BY <2>1, <2>2, <2>3, <2>4, <2>5 DEF LogoutInv, Holders, Holds, Holding
<1>9. ASSUME NEW r \in Requests, OidcStart(r)  PROVE LogoutInv'
  <2>1. UNCHANGED <<rows, closed, shared>> /\ Grown
    BY <1>9, OidcStartGrows DEF OidcStart, history
  <2>2. /\ \A q \in Requests \ {r} : req'[q] = req[q]
        /\ req[r].step \in Holding /\ req'[r].session.token = req[r].session.token
    BY <1>0, <1>9 DEF OidcStart, InHandler, Holding, Request, Session
  <2>. QED
    BY <2>1, <2>2, LogoutStays DEF Holds
<1>10. ASSUME NEW t \in DOMAIN tokens, Expire(t)  PROVE LogoutInv'
  <2>1. Grown /\ UNCHANGED <<closed, shared>> /\ DOMAIN rows' \subseteq DOMAIN rows
    BY <1>10, NothingGiven DEF Expire, Without, Restrict
  <2>2. \A q \in Requests : req'[q].step = req[q].step /\ req'[q].session = req[q].session
    BY <1>0, <1>10 DEF Expire, Request
  <2>. QED
    BY <2>1, <2>2, LogoutStays DEF Holds
<1>. QED
  BY <1>1, <1>2, <1>3, <1>4, <1>5, <1>6, <1>7, <1>8, <1>9, <1>10 DEF Next, SomeUser

\* For any number of overlapping requests, a session that nobody else held when it was
\* logged out is never a user's again, whatever its cookie is used for.
THEOREM LoggedOutForGood == Spec => []LogoutLasts
<1>1. LogoutInv /\ SessionInv => LogoutLasts
  BY NoneIsNotGiven DEF LogoutInv, Ended, LogoutLasts, SessionInv, Typed
<1>2. Init => SessionInv /\ LogoutInv
  BY InitSession DEF Init, LogoutInv, Ended
<1>3. SessionInv /\ LogoutInv /\ [Next]_vars => SessionInv' /\ LogoutInv'
  BY SessionInvIsInductive, LogoutInvIsInductive
<1>. QED
  BY <1>1, <1>2, <1>3, PTL DEF Spec

-----------------------------------------------------------------------------
(* Coming back from the provider *)

\* The row of token t holds state s.
Keeps(t, s) == t \in DOMAIN rows /\ rows[t].state = s

\* A login that no other change of its browser's session overlaps takes the latest
\* state along: from the row of the cookie into the copy, and into the new row.
LoginKeeps(q) ==
    LET b == q.browser
    IN /\ q.step = "sent" => q.cookie = cookie[b]
       /\ q.step \in {"handler", "renew"} =>
             q.session.token = cookie[b] /\ q.session.state = latest[b]
       /\ q.step = "commit" => q.session.state = latest[b]
       /\ q.step \in {"sent", "handler", "renew"} \/ (q.step = "reply" /\ ~q.sets) =>
             Keeps(cookie[b], latest[b])
       /\ q.step = "reply" /\ q.sets => Keeps(q.session.token, latest[b])

\* A start that nothing overlaps ends with its state in the row of its cookie.
StartKeeps(q) ==
    /\ q.step \in {"sent", "handler", "commit", "reply"}
    /\ q.step = "commit" => q.session.state = q.state
    /\ q.step = "reply" => q.sets /\ Keeps(q.session.token, q.state)

\* A callback with the latest state finds it in its row, and then in its copy.
DueFits(q) ==
    /\ q.kind = "oidcCallback" /\ ~q.refused /\ q.state # None
    /\ q.step \in {"sent", "handler"} => q.alone
    /\ q.step = "sent" => Keeps(q.cookie, q.state)
    /\ q.step = "handler" => q.session.state = q.state

\* What a request's kind says about its step.
KindFits(q) ==
    /\ q.kind = "profile" => q.step \in {"idle", "sent", "handler", "reply"} /\ ~q.sets
    /\ q.step # "reply" => ~q.sets
    /\ q.kind = "oidcStart" /\ (q.step = "commit" \/ q.sets) => q.state # None
    /\ q.step = "idle" => ~q.alone /\ ~q.due

\* Request p may change the session that request q belongs to, while it is under way.
Overlap(p, q) ==
    /\ p.step # "idle" /\ p.browser = q.browser
    /\ p.kind \in Modifying

LatestFits(q) ==
    /\ KindFits(q)
    /\ q.alone => q.kind \in Modifying
    /\ q.alone /\ q.kind = "login" /\ latest[q.browser] # None => LoginKeeps(q)
    /\ q.alone /\ q.kind = "oidcStart" => StartKeeps(q)
    /\ q.due => DueFits(q)

LatestInv ==
    /\ latest \in [Browsers -> KnownState] /\ None \notin links
    /\ \A r \in Requests : LatestFits(req[r])
    /\ \A r \in Requests : req[r].alone => \A q \in Requests \ {r} : ~Overlap(req[q], req[r])
    /\ \A b \in Browsers : latest[b] # None /\ Rivals(b) = {} => Keeps(cookie[b], latest[b])

\* Nobody but the requests of its browser touches a row.
OthersRowsStay(b) ==
    \A t \in DOMAIN tokens :
        tokens[t].browser # b =>
            /\ t \in DOMAIN rows <=> t \in DOMAIN rows'
            /\ t \in DOMAIN rows => rows'[t].state = rows[t].state

\* A request that nothing overlaps finds its rows as they were.
LEMMA AloneRowsStay ==
  ASSUME SessionInv, LatestInv, NEW r \in Requests, req[r].step # "idle",
         OthersRowsStay(req[r].browser), req[r].kind \in Modifying \/ rows' = rows,
         NEW x \in Requests \ {r}, req[x].alone,
         NEW t \in DOMAIN tokens, tokens[t].browser = req[x].browser, NEW s, Keeps(t, s)
  PROVE  Keeps(t, s)'
<1>1. CASE req[x].browser # req[r].browser
  BY <1>1 DEF OthersRowsStay, Keeps
<1>2. CASE req[x].browser = req[r].browser
  BY <1>2 DEF LatestInv, Overlap, Keeps
<1>. QED
  BY <1>1, <1>2

\* The other requests, when r takes a step.
LEMMA OthersKeepLatest ==
  ASSUME SessionInv, LatestInv, NEW r \in Requests, req[r].step # "idle",
         OthersRowsStay(req[r].browser), req[r].kind \in Modifying \/ rows' = rows,
         NEW x \in Requests \ {r}, req'[x] = req[x], UNCHANGED <<cookie, latest>>
  PROVE  LatestFits(req[x])'
<1> DEFINE q == req[x]
           b == q.browser
<1>1. /\ LatestFits(q) /\ RequestFits(q) /\ b \in Browsers
      /\ (cookie[b] # None => tokens[cookie[b]].browser = b)
      /\ q.session.token \in KnownToken /\ q.cookie \in KnownToken /\ cookie[b] \in KnownToken
      /\ DOMAIN rows \subseteq DOMAIN tokens /\ None \notin DOMAIN tokens
  BY NoneIsNotGiven DEF LatestInv, SessionInv, Typed, Request, Session
<1>2. \A t, s : q.alone /\ Keeps(t, s) /\ tokens[t].browser = b => Keeps(t, s)'
  BY <1>1, AloneRowsStay DEF Keeps
<1>3. q.alone \/ q.due => q.step # "idle"
  BY <1>1 DEF LatestFits, KindFits
<1>4. \A s : /\ q.alone /\ Keeps(cookie[b], s) => Keeps(cookie[b], s)'
             /\ q.alone /\ Keeps(q.session.token, s) => Keeps(q.session.token, s)'
             /\ q.alone /\ Keeps(q.cookie, s) => Keeps(q.cookie, s)'
  BY <1>1, <1>2, <1>3 DEF Keeps, RequestFits, Fits
<1>5. (q.alone /\ q.kind = "login" /\ latest[b] # None) => LoginKeeps(req[x])'
  BY <1>1, <1>4 DEF LatestFits, LoginKeeps
<1>6. (q.alone /\ q.kind = "oidcStart") => StartKeeps(req[x])'
  BY <1>1, <1>4 DEF LatestFits, StartKeeps
<1>7. q.due => DueFits(req[x])'
  BY <1>1, <1>4 DEF LatestFits, DueFits
<1>8. KindFits(req[x])' /\ (q.alone => q.kind \in Modifying)
  BY <1>1 DEF LatestFits, KindFits
<1>. QED
  BY <1>5, <1>6, <1>7, <1>8 DEF LatestFits

\* A step of r while it is under way keeps what the others rely on.
LEMMA StepKeepsLatest ==
  ASSUME SessionInv, LatestInv, Grown, NEW r \in Requests, NEW q, req' = [req EXCEPT ![r] = q],
         req[r].step # "idle", q.step # "idle",
         q.browser = req[r].browser, q.kind = req[r].kind, q.alone => req[r].alone,
         OthersRowsStay(req[r].browser), req[r].kind \in Modifying \/ rows' = rows,
         UNCHANGED <<cookie, links, latest>>,
         LatestFits(req[r])'
  PROVE  LatestInv'
<1>0. req \in [Requests -> Request] /\ req'[r] = q
      /\ \A x \in Requests \ {r} : req'[x] = req[x]
  BY DEF SessionInv, Typed
<1>1. latest' \in [Browsers -> KnownState'] /\ None \notin links'
  BY GrownTypes DEF LatestInv, SessionInv
<1>2. \A x \in Requests : LatestFits(req[x])'
  BY <1>0, OthersKeepLatest
<1>3. ASSUME NEW x \in Requests, req'[x].alone, NEW y \in Requests \ {x}
      PROVE  ~Overlap(req[y], req[x])'
  BY <1>0, <1>3 DEF LatestInv, Overlap
<1>4. ASSUME NEW b \in Browsers, latest'[b] # None, Rivals(b)' = {}
      PROVE  Keeps(cookie[b], latest[b])'
  <2>1. Rivals(b) = {}
    BY <1>0, <1>4 DEF Rivals
  <2>2. Keeps(cookie[b], latest[b]) /\ cookie[b] \in DOMAIN tokens /\ tokens[cookie[b]].browser = b
    BY <1>4, <2>1, NoneIsNotGiven DEF LatestInv, SessionInv, Typed, Keeps
  <2>3. req[r].browser = b => rows' = rows
    BY <2>1 DEF Rivals
  <2>. QED
    BY <2>2, <2>3 DEF OthersRowsStay, Keeps
<1>. QED
  BY <1>1, <1>2, <1>3, <1>4 DEF LatestInv

LEMMA RowsUnchanged ==
  ASSUME rows' = rows, NEW b
  PROVE  OthersRowsStay(b)
  BY DEF OthersRowsStay

LEMMA LoadKeepsLatest ==
  ASSUME SessionInv, LatestInv, NEW r \in Requests, Load(r)
  PROVE  LatestInv'
<1> DEFINE s == IF req[r].cookie \in DOMAIN rows THEN Stored(req[r].cookie) ELSE Fresh
           q == [req[r] EXCEPT !.step = "handler", !.session = s]
<1>0. req[r] \in Request /\ req \in [Requests -> Request] /\ LatestFits(req[r])
      /\ req[r].browser \in Browsers
  BY DEF SessionInv, Typed, LatestInv, Request
<1>1. /\ req' = [req EXCEPT ![r] = q] /\ req[r].step = "sent" /\ Grown
      /\ UNCHANGED <<rows, cookie, links, latest, given>>
  BY <1>0, NothingGiven DEF Load, Goto, Stored, history
<1>2. /\ q.kind = req[r].kind /\ q.browser = req[r].browser /\ q.state = req[r].state
      /\ q.alone = req[r].alone /\ q.due = req[r].due /\ q.sets = req[r].sets
      /\ q.refused = req[r].refused /\ q.step = "handler" /\ q.session = s
  BY <1>0 DEF Request
<1>3. \A x : Keeps(req[r].cookie, x) => s.token = req[r].cookie /\ s.state = x
  BY DEF Keeps, Stored
<1>. HIDE DEF q, s
<1>4. LatestFits(req[r])'
  BY <1>0, <1>1, <1>2, <1>3
     DEF LatestFits, KindFits, LoginKeeps, StartKeeps, DueFits, Keeps
<1>. QED
  BY <1>1, <1>2, <1>4, StepKeepsLatest, RowsUnchanged

\* What goes on between loading and committing.
LEMMA HandlerKeepsLatest ==
  ASSUME SessionInv, LatestInv, NEW r \in Requests,
         \/ CSRFRefuses(r) \/ Profile(r) \/ Login(r) \/ CallbackRefused(r)
         \/ CallbackAccepted(r) \/ Exchange(r) \/ RenewFails(r) \/ CommitFails(r)
  PROVE  LatestInv'
<1> DEFINE q == req'[r]
<1>0. req[r] \in Request /\ req \in [Requests -> Request] /\ LatestFits(req[r])
      /\ RequestFits(req[r]) /\ req[r].browser \in Browsers /\ req[r].session \in Session
  BY DEF SessionInv, Typed, LatestInv, Request
<1>1. Grown /\ UNCHANGED <<rows, cookie, links, latest, given>>
  BY NothingGiven DEF CSRFRefuses, Profile, Login, CallbackRefused, CallbackAccepted,
     Exchange, RenewFails, CommitFails, history, given
<1>2. /\ q.kind = req[r].kind /\ q.browser = req[r].browser /\ q.state = req[r].state
      /\ q.due = req[r].due /\ q.sets = req[r].sets /\ q.session.token = req[r].session.token
      /\ q.alone = (req[r].alone /\ ~CommitFails(r))
      /\ req[r].step \in Holding /\ q.step # "idle"
      /\ req' = [req EXCEPT ![r] = q]
  BY <1>0 DEF CSRFRefuses, Profile, Login, CallbackRefused, CallbackAccepted,
     Exchange, RenewFails, CommitFails, InHandler, Reply, Goto, Holding, Request, Session
<1>3. ASSUME CSRFRefuses(r) \/ Profile(r) \/ Login(r)  PROVE LatestFits(req[r])'
  <2>1. /\ q.session = req[r].session /\ q.refused = req[r].refused /\ req[r].step = "handler"
        /\ q.step = "reply" \/ (q.step = "renew" /\ q.kind = "login")
        /\ q.kind # "oidcStart"
    BY <1>0, <1>3 DEF CSRFRefuses, Profile, Login, InHandler, CSRFAllows, SafeMethods, Reply, Goto,
       Request
  <2>. QED
    BY <1>0, <1>1, <1>2, <2>1
       DEF LatestFits, KindFits, LoginKeeps, DueFits, Keeps, CommitFails
<1>4. ASSUME CallbackRefused(r) \/ CallbackAccepted(r) \/ Exchange(r)  PROVE LatestFits(req[r])'
  <2>1. /\ req[r].kind = "oidcCallback" /\ q.step # "handler" /\ q.step # "sent"
        /\ q.refused = req[r].refused \/ (~StateMatches(r) /\ req[r].step = "handler")
    BY <1>0, <1>4 DEF CallbackRefused, CallbackAccepted, Exchange, InHandler, RequestFits, Goto,
       Request
  <2>2. req[r].due => q.refused = req[r].refused
    BY <1>0, <2>1 DEF LatestFits, DueFits, StateMatches
  <2>. QED
    BY <1>0, <1>1, <1>2, <1>4, <2>1, <2>2
       DEF LatestFits, KindFits, DueFits, Modifying, Kinds, Holding
<1>5. ASSUME RenewFails(r)  PROVE LatestFits(req[r])'
  <2>1. /\ q.session = req[r].session /\ q.refused = req[r].refused /\ req[r].step = "renew"
        /\ IF q.kind = "oidcCallback" THEN q.step = "commit" ELSE q.step = "reply"
        /\ q.kind \in {"login", "oidcCallback"}
    BY <1>0, <1>2, <1>5 DEF RenewFails, RequestFits, Goto, Request
  <2>. QED
    BY <1>0, <1>1, <1>2, <2>1
       DEF LatestFits, KindFits, LoginKeeps, DueFits, Keeps
<1>6. ASSUME CommitFails(r)  PROVE LatestFits(req[r])'
  <2>1. /\ q.refused = req[r].refused /\ req[r].step = "commit" /\ q.step = "reply"
        /\ q.alone = FALSE
    BY <1>0, <1>6 DEF CommitFails, Request
  <2>. QED
    BY <1>0, <1>1, <1>2, <2>1 DEF LatestFits, KindFits, DueFits
<1>7. LatestFits(req[r])'
  BY <1>3, <1>4, <1>5, <1>6
<1>. QED
  BY <1>1, <1>2, <1>7, StepKeepsLatest, RowsUnchanged DEF Holding

\* Commit and Renew.
LEMMA CommitKeepsLatest ==
  ASSUME SessionInv, LatestInv, NEW r \in Requests, Commit(r)
  PROVE  LatestInv'
<1> DEFINE q == req'[r]
           s == req[r].session
           t == IF s.token = None THEN Len(tokens) + 1 ELSE s.token
<1>0. /\ req[r] \in Request /\ req \in [Requests -> Request] /\ LatestFits(req[r])
      /\ RequestFits(req[r]) /\ req[r].browser \in Browsers /\ s \in Session
      /\ tokens \in Seq(GivenToken) /\ DOMAIN rows \subseteq DOMAIN tokens
  BY DEF SessionInv, Typed, LatestInv, Request
<1>1. Grown /\ UNCHANGED <<cookie, links, latest>> /\ req[r].step = "commit"
  BY CommitGrows DEF Commit, history
<1>2. /\ q.kind = req[r].kind /\ q.browser = req[r].browser /\ q.state = req[r].state
      /\ q.due = req[r].due /\ q.sets = TRUE /\ q.step = "reply" /\ q.alone = req[r].alone
      /\ q.refused = req[r].refused /\ q.session.token = t
      /\ req' = [req EXCEPT ![r] = q]
  BY <1>0 DEF Commit, Request, Session
<1>3. t \in DOMAIN rows' /\ rows'[t].state = s.state
  BY DEF Commit
<1>4. OthersRowsStay(req[r].browser)
  <2>1. \A x \in DOMAIN tokens : x = t => tokens[x].browser = req[r].browser
    BY <1>0, <1>1 DEF RequestFits, Fits
  <2>2. DOMAIN rows' = DOMAIN rows \union {t} /\ \A x \in DOMAIN rows : x # t => rows'[x] = rows[x]
    BY DEF Commit
  <2>. HIDE DEF t
  <2>. QED
    BY <2>1, <2>2 DEF OthersRowsStay
<1>. HIDE DEF t, s
<1>5. req[r].kind \in Modifying
  BY <1>0, <1>1 DEF LatestFits, KindFits, Modifying, Request
<1>6. LatestFits(req[r])'
  BY <1>0, <1>1, <1>2, <1>3 DEF LatestFits, KindFits, LoginKeeps, StartKeeps, DueFits, Keeps, s
<1>. QED
  BY <1>1, <1>2, <1>4, <1>5, <1>6, StepKeepsLatest

LEMMA RenewKeepsLatest ==
  ASSUME SessionInv, LatestInv, NEW r \in Requests, Renew(r)
  PROVE  LatestInv'
<1> DEFINE q == req'[r]
           s == req[r].session
<1>0. /\ req[r] \in Request /\ req \in [Requests -> Request] /\ LatestFits(req[r])
      /\ RequestFits(req[r]) /\ req[r].browser \in Browsers /\ s \in Session
  BY DEF SessionInv, Typed, LatestInv, Request
<1>1. Grown /\ UNCHANGED <<cookie, links, latest>> /\ req[r].step = "renew"
  BY RenewGrows DEF Renew, history
<1>2. /\ q.kind = req[r].kind /\ q.browser = req[r].browser /\ q.state = req[r].state
      /\ q.due = req[r].due /\ q.sets = req[r].sets /\ q.step = "commit"
      /\ q.alone = req[r].alone /\ q.refused = req[r].refused /\ q.session.state = s.state
      /\ req' = [req EXCEPT ![r] = q]
  BY <1>0 DEF Renew, Goto, Request, Session
<1>3. req[r].kind \in {"login", "oidcCallback"}
  BY <1>0, <1>1 DEF RequestFits
<1>4. OthersRowsStay(req[r].browser)
  <2>1. \A x \in DOMAIN tokens : x = s.token => tokens[x].browser = req[r].browser
    BY <1>0, <1>1, NoneIsNotGiven DEF RequestFits, Fits, SessionInv
  <2>2. DOMAIN rows' = DOMAIN rows \ {s.token} /\ \A x \in DOMAIN rows' : rows'[x] = rows[x]
    BY DEF Renew, Without, Restrict
  <2>. QED
    BY <2>1, <2>2 DEF OthersRowsStay
<1>5. LatestFits(req[r])'
  BY <1>0, <1>1, <1>2, <1>3 DEF LatestFits, KindFits, LoginKeeps, DueFits
<1>. QED
  BY <1>1, <1>2, <1>3, <1>4, <1>5, StepKeepsLatest DEF Modifying, Kinds

LEMMA LogoutKeepsLatest ==
  ASSUME SessionInv, LatestInv, NEW r \in Requests, Logout(r)
  PROVE  LatestInv'
<1> DEFINE q == req'[r]
           s == req[r].session
<1>0. /\ req[r] \in Request /\ req \in [Requests -> Request] /\ LatestFits(req[r])
      /\ RequestFits(req[r]) /\ req[r].browser \in Browsers
  BY DEF SessionInv, Typed, LatestInv, Request
<1>1. Grown /\ UNCHANGED <<cookie, links, latest>>
      /\ req[r].step = "handler" /\ req[r].kind = "logout"
  BY NothingGiven DEF Logout, InHandler
<1>2. /\ q.kind = req[r].kind /\ q.browser = req[r].browser
      /\ q.due = req[r].due /\ q.step = "reply" /\ q.alone = req[r].alone
      /\ req' = [req EXCEPT ![r] = q]
  BY <1>0 DEF Logout, Request
<1>3. OthersRowsStay(req[r].browser)
  <2>1. \A x \in DOMAIN tokens : x = s.token => tokens[x].browser = req[r].browser
    BY <1>0, <1>1, NoneIsNotGiven DEF RequestFits, Fits, SessionInv
  <2>2. DOMAIN rows' = DOMAIN rows \ {s.token} /\ \A x \in DOMAIN rows' : rows'[x] = rows[x]
    BY DEF Logout, Without, Restrict
  <2>. QED
    BY <2>1, <2>2 DEF OthersRowsStay
<1>4. LatestFits(req[r])'
  BY <1>0, <1>1, <1>2 DEF LatestFits, KindFits, DueFits
<1>. QED
  BY <1>1, <1>2, <1>3, <1>4, StepKeepsLatest DEF Modifying, Kinds

LEMMA OidcStartKeepsLatest ==
  ASSUME SessionInv, LatestInv, NEW r \in Requests, OidcStart(r)
  PROVE  LatestInv'
<1> DEFINE q == req'[r]
<1>0. /\ req[r] \in Request /\ req \in [Requests -> Request] /\ LatestFits(req[r])
      /\ req[r].session \in Session /\ req[r].browser \in Browsers /\ states \in Seq(Browsers)
  BY DEF SessionInv, Typed, LatestInv, Request
<1>1. Grown /\ UNCHANGED <<rows, cookie, links, latest>>
      /\ req[r].step = "handler" /\ req[r].kind = "oidcStart"
  BY OidcStartGrows DEF OidcStart, InHandler, history
<1>2. Len(states') # None
  BY <1>0 DEF OidcStart, None
<1>3. /\ q.kind = req[r].kind /\ q.browser = req[r].browser
      /\ q.due = req[r].due /\ q.sets = req[r].sets /\ q.step = "commit"
      /\ q.alone = req[r].alone /\ q.state = Len(states') /\ q.session.state = Len(states')
      /\ req' = [req EXCEPT ![r] = q]
  BY <1>0 DEF OidcStart, Request, Session
<1>4. LatestFits(req[r])'
  BY <1>0, <1>1, <1>2, <1>3 DEF LatestFits, KindFits, StartKeeps, DueFits
<1>. QED
  BY <1>1, <1>3, <1>4, StepKeepsLatest, RowsUnchanged

LEMMA SendKeepsLatest ==
  ASSUME SessionInv, LatestInv, NEW r \in Requests, NEW b \in Browsers, NEW kind \in Kinds,
         NEW user \in SomeUser, NEW state \in links \union {None},
         Send(r, b, kind, user, state)
  PROVE  LatestInv'
<1> DEFINE new == NewRequest(b, kind, user, state)
<1>0. req \in [Requests -> Request] /\ \A x \in Requests : req[x] \in Request /\ LatestFits(req[x])
  BY DEF SessionInv, Typed, LatestInv
<1>1. /\ UNCHANGED <<rows, cookie, links, latest, given>> /\ req[r].step = "idle"
      /\ kind = "oidcCallback" => state # None
  BY DEF Send, history, LatestInv
<1>2. /\ req'[r] = new
      /\ \A x \in Requests \ {r} :
            req'[x] = IF kind \in Modifying /\ x \in Rivals(b)
                      THEN [req[x] EXCEPT !.alone = FALSE, !.due = FALSE] ELSE req[x]
  BY DEF Send
<1>3. /\ new.kind = kind /\ new.browser = b /\ new.state = state /\ new.cookie = cookie[b]
      /\ new.step = "sent" /\ new.sets = FALSE /\ new.refused = FALSE
      /\ new.alone => kind \in Modifying /\ Rivals(b) = {}
      /\ new.due => new.alone /\ kind = "oidcCallback" /\ latest[b] = state
  BY DEF NewRequest
<1>. HIDE DEF new
<1>4. latest[b] # None /\ new.alone => Keeps(cookie[b], latest[b])
  BY <1>3 DEF LatestInv
<1>5. LatestFits(req[r])'
  BY <1>1, <1>2, <1>3, <1>4 DEF LatestFits, KindFits, LoginKeeps, StartKeeps, DueFits, Keeps
<1>6. ASSUME NEW x \in Requests \ {r}
      PROVE  /\ req'[x].step = req[x].step /\ req'[x].kind = req[x].kind
             /\ req'[x].browser = req[x].browser
             /\ req'[x].alone => req[x].alone /\ ~(kind \in Modifying /\ x \in Rivals(b))
             /\ LatestFits(req[x])'
  <2>1. CASE kind \in Modifying /\ x \in Rivals(b)
    <3>1. req'[x] = [req[x] EXCEPT !.alone = FALSE, !.due = FALSE]
      BY <1>2, <2>1
    <3>2. /\ req'[x].step = req[x].step /\ req'[x].kind = req[x].kind
          /\ req'[x].browser = req[x].browser /\ req'[x].state = req[x].state
          /\ req'[x].sets = req[x].sets /\ ~req'[x].alone /\ ~req'[x].due
      BY <1>0, <3>1 DEF Request
    <3>. QED
      BY <1>0, <3>2 DEF LatestFits, KindFits
  <2>2. CASE ~(kind \in Modifying /\ x \in Rivals(b))
    <3>1. req'[x] = req[x]
      BY <1>2, <2>2
    <3>. QED
      BY <1>0, <1>1, <2>2, <3>1 DEF LatestFits, KindFits, LoginKeeps, StartKeeps, DueFits, Keeps
  <2>. QED
    BY <2>1, <2>2
<1>7. \A x \in Requests : LatestFits(req[x])'
  BY <1>5, <1>6
<1>8. ASSUME NEW x \in Requests, req'[x].alone, NEW y \in Requests \ {x}
      PROVE  ~Overlap(req[y], req[x])'
  <2>1. CASE x = r
    BY <1>2, <1>3, <1>6, <1>8, <2>1 DEF Overlap, Rivals
  <2>2. CASE x # r /\ y = r
    <3>1. req[x].kind \in Modifying /\ req[x].step # "idle"
          /\ ~(kind \in Modifying /\ x \in Rivals(b))
      BY <1>0, <1>6, <1>8, <2>2 DEF LatestFits, KindFits
    <3>. QED
      BY <1>2, <1>3, <1>6, <2>2, <3>1 DEF Overlap, Rivals
  <2>3. CASE x # r /\ y # r
    BY <1>6, <1>8, <2>3 DEF LatestInv, Overlap
  <2>. QED
    BY <2>1, <2>2, <2>3
<1>9. \A c \in Browsers : Rivals(c)' = {} => Rivals(c) = {}
  BY <1>1, <1>6 DEF Rivals
<1>10. \A c \in Browsers : latest'[c] # None /\ Rivals(c)' = {} => Keeps(cookie[c], latest[c])'
  BY <1>1, <1>9 DEF LatestInv, Keeps
<1>11. latest' \in [Browsers -> KnownState'] /\ None \notin links'
  BY <1>1 DEF LatestInv, KnownState, given
<1>. QED
  BY <1>7, <1>8, <1>10, <1>11 DEF LatestInv

\* A response that arrives after nothing overlapped it leaves the row of the browser's
\* cookie with the state that the browser may come back with.
LEMMA BrowserKeepsLatest ==
  ASSUME SessionInv, LatestInv, NEW r \in Requests, Receive(r) \/ ResponseLost(r)
  PROVE  LatestInv'
<1> DEFINE b == req[r].browser
           q == req[r]
<1>0. /\ q \in Request /\ req \in [Requests -> Request] /\ q.step = "reply" /\ LatestFits(q)
      /\ b \in Browsers /\ q.state \in KnownState /\ latest \in [Browsers -> KnownState]
      /\ cookie \in [Browsers -> KnownToken]
  BY DEF SessionInv, Typed, LatestInv, Request, Receive, ResponseLost
<1>1. /\ UNCHANGED <<rows, given>> /\ req' = [req EXCEPT ![r] = NoRequest]
      /\ \/ cookie' = cookie
         \/ q.sets /\ cookie' = [cookie EXCEPT ![b] = q.session.token]
      /\ \/ latest' = [latest EXCEPT ![b] = LatestAfter(r, TRUE)]
            /\ cookie'[b] = IF q.sets THEN q.session.token ELSE cookie[b]
         \/ latest' = [latest EXCEPT ![b] = LatestAfter(r, FALSE)]
  BY <1>0 DEF Receive, ResponseLost
<1>2. q.kind = "profile" => UNCHANGED <<cookie, latest>>
  BY <1>0, <1>1 DEF LatestAfter, LatestFits, KindFits
<1>3. \A c \in Browsers \ {b} : cookie'[c] = cookie[c] /\ latest'[c] = latest[c]
  BY <1>0, <1>1
<1>4. latest' \in [Browsers -> KnownState']
  BY <1>0, <1>1 DEF LatestAfter, KnownState, given
<1>5. None \notin links'
  <2>1. \/ links' = links
        \/ q.kind = "oidcStart" /\ q.sets /\ links' = links \union {q.state}
    BY Zenon DEF Receive, ResponseLost
  <2>. QED
    BY <1>0, <2>1 DEF LatestInv, LatestFits, KindFits
<1>6. /\ NoRequest.step = "idle" /\ NoRequest.alone = FALSE /\ NoRequest.due = FALSE
      /\ NoRequest.kind = "profile" /\ NoRequest.sets = FALSE
      /\ req'[r] = NoRequest /\ \A x \in Requests \ {r} : req'[x] = req[x]
  BY <1>0, <1>1 DEF NoRequest
<1>7. ASSUME NEW x \in Requests  PROVE LatestFits(req[x])'
  <2>1. CASE x = r
    BY <1>6, <2>1 DEF LatestFits, KindFits
  <2>2. CASE x # r /\ (q.kind = "profile" \/ req[x].browser # b)
    <3>1. /\ LatestFits(req[x]) /\ req'[x] = req[x]
          /\ cookie'[req[x].browser] = cookie[req[x].browser]
          /\ latest'[req[x].browser] = latest[req[x].browser]
      BY <1>2, <1>3, <1>6, <2>2 DEF LatestInv, SessionInv, Typed, Request
    <3>. QED
      BY <1>1, <3>1 DEF LatestFits, KindFits, LoginKeeps, StartKeeps, DueFits, Keeps
  <2>3. CASE x # r /\ q.kind # "profile" /\ req[x].browser = b
    <3>1. LatestFits(req[x]) /\ req'[x] = req[x] /\ ~req[x].alone
      BY <1>0, <1>6, <2>3 DEF LatestInv, Overlap, Modifying, Request
    <3>. QED
      BY <1>1, <3>1 DEF LatestFits, KindFits, DueFits
  <2>. QED
    BY <2>1, <2>2, <2>3
<1>8. \A x \in Requests : req'[x].alone => \A y \in Requests \ {x} : ~Overlap(req[y], req[x])'
  BY <1>6 DEF LatestInv, Overlap
<1>9. ASSUME NEW c \in Browsers, latest'[c] # None, Rivals(c)' = {}
      PROVE  Keeps(cookie[c], latest[c])'
  <2>1. CASE c # b \/ q.kind = "profile"
    <3>1. Rivals(c) = {}
      BY <1>6, <1>9, <2>1 DEF Rivals, Modifying
    <3>2. cookie'[c] = cookie[c] /\ latest'[c] = latest[c]
      BY <1>2, <1>3, <2>1
    <3>. QED
      BY <1>1, <1>9, <3>1, <3>2 DEF LatestInv, Keeps
  <2>2. CASE c = b /\ q.kind # "profile"
    <3>1. /\ latest'[b] = LatestAfter(r, TRUE) /\ q.alone /\ q.kind \in {"oidcStart", "login"}
          /\ cookie'[b] = IF q.sets THEN q.session.token ELSE cookie[b]
      BY <1>0, <1>1, <1>9, <2>2 DEF LatestAfter, None
    <3>2. CASE q.kind = "oidcStart"
      BY <1>0, <1>1, <2>2, <3>1, <3>2 DEF LatestAfter, LatestFits, StartKeeps, Keeps
    <3>3. CASE q.kind = "login"
      <4>1. latest'[b] = latest[b]
        BY <3>1, <3>3 DEF LatestAfter
      <4>. QED
        BY <1>0, <1>1, <1>9, <2>2, <3>1, <3>3, <4>1 DEF LatestFits, LoginKeeps, Keeps
    <3>. QED
      BY <3>1, <3>2, <3>3
  <2>. QED
    BY <2>1, <2>2
<1>. QED
  BY <1>4, <1>5, <1>7, <1>8, <1>9 DEF LatestInv

LEMMA ExpireKeepsLatest ==
  ASSUME SessionInv, LatestInv, NEW t \in DOMAIN tokens, Expire(t)
  PROVE  LatestInv'
<1>0. /\ req \in [Requests -> Request] /\ latest \in [Browsers -> KnownState]
      /\ \A x \in Requests : req[x] \in Request /\ LatestFits(req[x]) /\ req[x].session.token # t
  BY DEF SessionInv, Typed, LatestInv, Expire
<1>1. /\ UNCHANGED <<cookie, links, given>>
      /\ latest' = [b \in Browsers |-> IF cookie[b] = t THEN None ELSE latest[b]]
  BY DEF Expire
<1>2. \A u, s : u # t /\ Keeps(u, s) => Keeps(u, s)'
  BY DEF Expire, Without, Restrict, Keeps
<1>3. ASSUME NEW x \in Requests
      PROVE  /\ req'[x].step = req[x].step /\ req'[x].kind = req[x].kind
             /\ req'[x].browser = req[x].browser /\ req'[x].alone = req[x].alone
             /\ LatestFits(req[x])'
  <2>1. req'[x] = [req[x] EXCEPT !.due = req[x].due /\ req[x].cookie # t]
    BY DEF Expire
  <2>2. /\ req'[x].step = req[x].step /\ req'[x].kind = req[x].kind
        /\ req'[x].browser = req[x].browser /\ req'[x].alone = req[x].alone
        /\ req'[x].state = req[x].state /\ req'[x].cookie = req[x].cookie
        /\ req'[x].session = req[x].session /\ req'[x].sets = req[x].sets
        /\ req'[x].refused = req[x].refused
        /\ req'[x].due = (req[x].due /\ req[x].cookie # t)
    BY <1>0, <2>1 DEF Request
  <2>3. req[x].browser \in Browsers
    BY <1>0 DEF Request
  <2>. QED
    BY <1>0, <1>1, <1>2, <2>2, <2>3 DEF LatestFits, KindFits, LoginKeeps, StartKeeps, DueFits
<1>4. \A x \in Requests : req'[x].alone => \A y \in Requests \ {x} : ~Overlap(req[y], req[x])'
  BY <1>3 DEF LatestInv, Overlap
<1>5. \A c \in Browsers : Rivals(c)' = Rivals(c)
  BY <1>3 DEF Rivals
<1>6. \A c \in Browsers : latest'[c] # None /\ Rivals(c)' = {} => Keeps(cookie[c], latest[c])'
  BY <1>1, <1>2, <1>5 DEF LatestInv
<1>7. latest' \in [Browsers -> KnownState'] /\ None \notin links'
  BY <1>0, <1>1 DEF LatestInv, KnownState, given
<1>. QED
  BY <1>3, <1>4, <1>6, <1>7 DEF LatestInv

LEMMA InitLatest ==
  ASSUME Init
  PROVE  LatestInv
<1>1. /\ NoRequest.step = "idle" /\ NoRequest.alone = FALSE /\ NoRequest.due = FALSE
      /\ NoRequest.kind = "profile" /\ NoRequest.sets = FALSE
  BY DEF NoRequest
<1>. QED
  BY <1>1 DEF Init, LatestInv, LatestFits, KindFits, KnownState

LEMMA LatestInvIsInductive ==
  ASSUME SessionInv, LatestInv, [Next]_vars
  PROVE  LatestInv'
<1>1. CASE UNCHANGED vars
  BY <1>1 DEF vars, history, given, LatestInv, LatestFits, KindFits, LoginKeeps, StartKeeps, DueFits,
     Keeps, Overlap, Rivals, KnownState
<1>2. CASE Next
  BY <1>2, SendKeepsLatest, BrowserKeepsLatest, LoadKeepsLatest, HandlerKeepsLatest,
     CommitKeepsLatest, RenewKeepsLatest, LogoutKeepsLatest, OidcStartKeepsLatest,
     ExpireKeepsLatest DEF Next, SomeUser
<1>. QED
  BY <1>1, <1>2

\* A refusal of a callback that was due would need a copy without the latest state, and
\* a due request has one with it from the moment it is loaded.
THEOREM LatestStartComesBack == Spec => []LatestStartIsAccepted
<1>1. LatestInv => LatestStartIsAccepted
  BY DEF LatestInv, LatestFits, DueFits, LatestStartIsAccepted
<1>2. Init => SessionInv /\ LatestInv
  BY InitSession, InitLatest
<1>3. SessionInv /\ LatestInv /\ [Next]_vars => SessionInv' /\ LatestInv'
  BY SessionInvIsInductive, LatestInvIsInductive
<1>. QED
  BY <1>1, <1>2, <1>3, PTL DEF Spec
=============================================================================
