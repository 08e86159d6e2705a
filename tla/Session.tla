-------------------------------- MODULE Session --------------------------------
(***************************************************************************)
(* Signing in with Google and the session's lifetime: one browser with its  *)
(* cookies, its tabs, the API that sets and verifies them, the middleware   *)
(* that only looks whether there is one, and the query client of each tab.  *)
(*                                                                         *)
(* A cookie the server sets or clears changes when its answer arrives.     *)
(* Google is external: it sends the browser back with a code, and exchanges *)
(* it, or not.                                                              *)
(***************************************************************************)
EXTENDS Naturals, FiniteSets

CONSTANTS
  Tabs,       \* tabs of the browser
  Accounts,   \* Google accounts of its user
  SessionTtl, \* SESSION_TTL_SECONDS
  StateTtl,   \* STATE_TTL_SECONDS
  MaxTime,    \* bound: the clock
  MaxFlows,   \* bound: login flows started
  Retries,    \* how often useMe tries again
  Budget,     \* how many steps of each kind a behaviour may contain
  None        \* no token

(* An exchange with Google that fails, a logout that does not reach the API, a *)
(* GET /me that fails in the API or on its way, a change of JWT_SECRET, a      *)
(* database set up anew, a move of the user, a poll of the rows.               *)
BoundedKinds == {"google", "logout", "me", "rotate", "wipe", "user", "poll"}

UserIds == [account : Accounts, generation : Nat]
Tokens == [sub : UserIds, secret : Nat, exp : Nat, flow : 1 .. MaxFlows]
Errors == {"none", "denied", "state", "oauth"}
Requests == {"me", "rows"}
Refusals == {"no", "rejected", "expired", "failed"}  \* why /me has no answer

\* What a tab's query client holds of its queries' data, and of one of its requests.
Views == [me : Tokens \cup {None}, rows : Tokens \cup {None},
          refused : Refusals, ended : SUBSET (1 .. MaxFlows)]
Askings == [busy : BOOLEAN, token : Tokens \cup {None}, failed : 0 .. Retries]

ASSUME SessionAssumption ==
  /\ IsFiniteSet(Tabs) /\ IsFiniteSet(Accounts)
  /\ None \notin Accounts /\ None \notin Tokens /\ None \notin Nat
  /\ SessionTtl \in Nat \ {0} /\ StateTtl \in Nat \ {0}
  /\ MaxTime \in Nat /\ MaxFlows \in Nat /\ Retries \in Nat
  /\ Budget \in [BoundedKinds -> Nat]

VARIABLES
  now,        \* the clock
  session,    \* the cookie outbox_session: a token and when the browser drops it
  state,      \* the cookie oauth_state: a nonce and when the browser drops it
  generation, \* of the database: with the account it makes the id of a row of users
  secret,     \* JWT_SECRET
  flows,      \* login flows started: the last one's nonce
  at,         \* where each tab is
  error,      \* the error its login page shows
  flow,       \* the flow a tab is in: its nonce, the account chosen
  view,       \* a tab's query client: by which token /me and the rows were read
  asked,      \* a tab's requests: under way, with which token, and tries that failed
  disturbed,  \* bookkeeping: tabs whose state cookie another flow or the clock has taken
  left        \* steps still allowed

serverVars == <<generation, secret>>
cookieVars == <<session, state>>
tabVars == <<at, error, flow>>
clientVars == <<view, asked>>
vars == <<now, cookieVars, serverVars, flows, tabVars, clientVars, disturbed, left>>

NoCookie == [value |-> None, until |-> 0]
NoFlow   == [nonce |-> 0, account |-> None]
NoView   == [me |-> None, rows |-> None, refused |-> "no", ended |-> {}]
Unasked  == [r \in Requests |-> [busy |-> FALSE, token |-> None, failed |-> 0]]

TypeOK ==
  /\ now \in 0 .. MaxTime /\ flows \in 0 .. MaxFlows
  /\ session \in [value : Tokens \cup {None}, until : Nat]
  /\ state \in [value : (1 .. MaxFlows) \cup {None}, until : Nat]
  /\ generation \in Nat /\ secret \in Nat
  /\ at \in [Tabs -> {"login", "google", "callback", "dashboard",
                      "loggingOut", "leaving"}]
  /\ error \in [Tabs -> Errors]
  /\ flow \in [Tabs -> [nonce : 0 .. MaxFlows, account : Accounts \cup {None}]]
  /\ view \in [Tabs -> Views] /\ asked \in [Tabs -> [Requests -> Askings]]
  /\ disturbed \subseteq Tabs
  /\ left \in [BoundedKinds -> Nat]

Init ==
  /\ now = 0 /\ session = NoCookie /\ state = NoCookie
  /\ generation = 0 /\ secret = 0 /\ flows = 0
  /\ at = [t \in Tabs |-> "login"] /\ error = [t \in Tabs |-> "none"]
  /\ flow = [t \in Tabs |-> NoFlow]
  /\ view = [t \in Tabs |-> NoView] /\ asked = [t \in Tabs |-> Unasked]
  /\ disturbed = {}
  /\ left = Budget

Once(k) == left[k] > 0 /\ left' = [left EXCEPT ![k] = @ - 1]

\* The browser sends a cookie until it has expired.
Held(cookie) == IF now < cookie.until THEN cookie.value ELSE None

\* verifyJwt: the signature fits, and the token has not expired.
Verify(token) ==
  /\ token # None /\ token.secret = secret
  /\ ~(token.exp < now)

-----------------------------------------------------------------------------
(* The middleware and the tabs *)

\* Variant: with SameSite=Strict the session cookie is not sent on the redirects that
\* come back from Google.
LandStrict(t, e) ==
  LET in == now < session'.until /\ at[t] \notin {"google", "callback"} IN
  /\ at' = [at EXCEPT ![t] = IF in THEN "dashboard" ELSE "login"]
  /\ error' = [error EXCEPT ![t] = IF in THEN "none" ELSE e]

\* The middleware, asked for /dashboard or /login: whatever the page, a browser with
\* a session cookie gets the dashboard and one without it the login page.  Its own
\* redirect carries no error.
Land(t, e) ==
  LET in == now < session'.until IN
  /\ at' = [at EXCEPT ![t] = IF in THEN "dashboard" ELSE "login"]
  /\ error' = [error EXCEPT ![t] = IF in THEN "none" ELSE e]

\* A page load makes a new QueryClient (providers.tsx).
Fresh(t) == /\ view' = [view EXCEPT ![t] = NoView]
            /\ asked' = [asked EXCEPT ![t] = Unasked]

\* The user opens or reloads a page.
Load(t) ==
  /\ at[t] \in {"login", "dashboard"}
  /\ Once("user")
  /\ UNCHANGED cookieVars
  /\ Land(t, "none") /\ Fresh(t)
  /\ UNCHANGED <<now, serverVars, flows, flow, disturbed>>

-----------------------------------------------------------------------------
(* auth.ts *)

\* Variant: a state cookie that is there is kept.
StartLoginKeeping(t) ==
  /\ at[t] = "login" /\ flows < MaxFlows
  /\ flows' = flows + 1
  /\ state' = IF Held(state) # None THEN state
              ELSE [value |-> flows', until |-> now + StateTtl]
  /\ at' = [at EXCEPT ![t] = "google"] /\ error' = [error EXCEPT ![t] = "none"]
  /\ flow' = [flow EXCEPT ![t].nonce = flows']
  /\ disturbed' = (disturbed \cup {u \in Tabs : at[u] = "google"}) \ {t}
  /\ Fresh(t)
  /\ UNCHANGED <<now, session, serverVars, left>>

\* GET /google: a new nonce in the state cookie, over that of any other flow.
StartLogin(t) ==
  /\ at[t] = "login" /\ flows < MaxFlows
  /\ flows' = flows + 1
  /\ state' = [value |-> flows', until |-> now + StateTtl]
  /\ at' = [at EXCEPT ![t] = "google"] /\ error' = [error EXCEPT ![t] = "none"]
  /\ flow' = [flow EXCEPT ![t].nonce = flows']
  /\ disturbed' = (disturbed \cup {u \in Tabs : at[u] = "google"}) \ {t}
  /\ Fresh(t)
  /\ UNCHANGED <<now, session, serverVars, left>>

\* The callback after the user cancelled: nothing is set or cleared.
Deny(t) ==
  /\ at[t] = "google"
  /\ UNCHANGED cookieVars
  /\ Land(t, "denied")
  /\ flow' = [flow EXCEPT ![t] = NoFlow]
  /\ UNCHANGED <<now, serverVars, flows, clientVars, disturbed, left>>

\* The callback with a code: its state must be that of the cookie.
Callback(t, g) ==
  /\ at[t] = "google"
  /\ UNCHANGED cookieVars
  /\ IF flow[t].nonce = Held(state)
     THEN /\ at' = [at EXCEPT ![t] = "callback"]
          /\ flow' = [flow EXCEPT ![t].account = g]
          /\ UNCHANGED error
     ELSE /\ Land(t, "state")
          /\ flow' = [flow EXCEPT ![t] = NoFlow]
  /\ UNCHANGED <<now, serverVars, flows, clientVars, disturbed, left>>

\* ensureUser finds or makes the row of google_sub.
EnsureUser(g) == [account |-> g, generation |-> generation]

\* getUser: whether there is a row of that id.
GetUser(id) == id.generation = generation

\* Variant: claims without an expiry.
SignJwtUndated(id, nonce) == [sub |-> id, secret |-> secret, flow |-> nonce]

\* The nonce is not in the claims: it tells the properties which login it was.
SignJwt(id, nonce) ==
  [sub |-> id, secret |-> secret, exp |-> now + SessionTtl, flow |-> nonce]

\* exchangeCode, fetchProfile, ensureUser, and the answer with both cookies: the state
\* cookie is cleared, whichever flow's nonce that is by now.
SignIn(t) ==
  /\ at[t] = "callback"
  /\ state' = NoCookie
  /\ session' = [value |-> SignJwt(EnsureUser(flow[t].account), flow[t].nonce),
                 until |-> now + SessionTtl]
  /\ disturbed' = disturbed \cup {u \in Tabs \ {t} : at[u] = "google"}
  /\ Land(t, "none")
  /\ flow' = [flow EXCEPT ![t] = NoFlow]
  /\ UNCHANGED <<now, serverVars, flows, clientVars, left>>

\* One of them throws: the state cookie is cleared and the session is what it was.
SignInFails(t) ==
  /\ at[t] = "callback"
  /\ Once("google")
  /\ state' = NoCookie /\ UNCHANGED session
  /\ disturbed' = disturbed \cup {u \in Tabs \ {t} : at[u] = "google"}
  /\ Land(t, "oauth")
  /\ flow' = [flow EXCEPT ![t] = NoFlow]
  /\ UNCHANGED <<now, serverVars, flows, clientVars>>

-----------------------------------------------------------------------------
(* The dashboard's requests *)

OnDashboard(t) == at[t] \in {"dashboard", "loggingOut", "leaving"}

Send(t, r) ==
  /\ OnDashboard(t) /\ ~asked[t][r].busy
  /\ asked' = [asked EXCEPT ![t][r] = [busy |-> TRUE, token |-> Held(session),
                                      failed |-> asked[t][r].failed]]
  /\ UNCHANGED <<now, cookieVars, serverVars, flows, tabVars, view, disturbed>>

\* useMe asks, and asks again after a try that failed, with the cookie of then; it does
\* not after an answer.
AskMe(t) == view[t].me = None /\ view[t].refused = "no" /\ Send(t, "me") /\ UNCHANGED left

\* useEmails polls.
PollRows(t) == Once("poll") /\ Send(t, "rows")

\* A try of /me came to nothing: it is tried again, or given up.
MeFails(t) ==
  LET me == asked[t]["me"] IN
  IF me.failed < Retries
  THEN /\ asked' = [asked EXCEPT ![t]["me"] = [busy |-> FALSE, token |-> None,
                                               failed |-> me.failed + 1]]
       /\ UNCHANGED view
  ELSE /\ asked' = [asked EXCEPT ![t]["me"] = Unasked["me"]]
       /\ view' = [view EXCEPT ![t].refused = "failed"]

\* Why requireAuth rejects a token, which the client is not told.
Unauthorized(token) ==
  IF token # None /\ token.secret = secret THEN "expired" ELSE "rejected"

\* The answer arrives: a 401 is final, a 404 of /me is a try that failed; the data that
\* are there stay.
Answer(t, r) ==
  LET token == asked[t][r].token IN
  /\ asked[t][r].busy
  /\ IF r = "me" /\ Verify(token) /\ ~GetUser(token.sub)
     THEN MeFails(t)
     ELSE /\ asked' = [asked EXCEPT ![t][r] = Unasked[r]]
          /\ view' = [view EXCEPT ![t] =
               IF Verify(token) THEN [view[t] EXCEPT ![r] = token]
               ELSE IF r = "me" THEN [view[t] EXCEPT !.refused = Unauthorized(token)]
               ELSE view[t]]
  /\ UNCHANGED <<now, cookieVars, serverVars, flows, tabVars, disturbed, left>>

\* /me answers 500, or the request or its answer is lost.
AnswerFails(t) ==
  /\ asked[t]["me"].busy
  /\ Once("me")
  /\ MeFails(t)
  /\ UNCHANGED <<now, cookieVars, serverVars, flows, tabVars, disturbed>>

\* The button is drawn when /me has been answered.
LogOut(t) ==
  /\ at[t] = "dashboard" /\ view[t].me # None
  /\ at' = [at EXCEPT ![t] = "loggingOut"]
  /\ UNCHANGED <<now, cookieVars, serverVars, flows, error, flow, clientVars, disturbed, left>>

\* onLogout's promise rejects and nothing else happens.
LogOutFails(t) ==
  /\ at[t] = "loggingOut"
  /\ Once("logout")
  /\ at' = [at EXCEPT ![t] = "dashboard"]
  /\ UNCHANGED <<now, cookieVars, serverVars, flows, error, flow, clientVars, disturbed>>

\* What this tab's queries were answered by.
Shown(t) == {token.flow : token \in {view[t].me, view[t].rows} \ {None}}

\* Variant: the queries under way are not cancelled with the cache.
LoggedOutAsking(t) ==
  /\ at[t] = "loggingOut"
  /\ session' = NoCookie
  /\ view' = [view EXCEPT ![t] = [NoView EXCEPT !.ended = view[t].ended \cup Shown(t)]]
  /\ at' = [at EXCEPT ![t] = "leaving"]
  /\ UNCHANGED <<now, state, serverVars, flows, error, flow, asked, disturbed, left>>

\* POST /logout is answered: the cookie is gone, and qc.clear() drops the data and
\* the requests under way.
LoggedOut(t) ==
  /\ at[t] = "loggingOut"
  /\ session' = NoCookie
  /\ view' = [view EXCEPT ![t] = [NoView EXCEPT !.ended = view[t].ended \cup Shown(t)]]
  /\ asked' = [asked EXCEPT ![t] = Unasked]
  /\ at' = [at EXCEPT ![t] = "leaving"]
  /\ UNCHANGED <<now, state, serverVars, flows, error, flow, disturbed, left>>

\* router.push('/login'), which keeps the QueryClient.
Leave(t) ==
  /\ at[t] = "leaving"
  /\ UNCHANGED cookieVars
  /\ Land(t, "none")
  /\ UNCHANGED <<now, serverVars, flows, flow, clientVars, disturbed, left>>

\* Back in the browser's history, which the router serves from its own cache; what
\* had failed is asked again by the mounted page.
Back(t) ==
  /\ at[t] = "login" /\ view[t].ended # {}
  /\ Once("user")
  /\ at' = [at EXCEPT ![t] = "dashboard"]
  /\ view' = [view EXCEPT ![t].refused = "no"]
  /\ UNCHANGED <<now, cookieVars, serverVars, flows, error, flow, asked, disturbed>>

-----------------------------------------------------------------------------
(* Clock and operator *)

Tick ==
  /\ now < MaxTime
  /\ now' = now + 1
  /\ disturbed' = IF now' < state.until THEN disturbed
                  ELSE disturbed \cup {t \in Tabs : at[t] = "google"}
  /\ UNCHANGED <<cookieVars, serverVars, flows, tabVars, clientVars, left>>

RotateSecret ==
  /\ Once("rotate")
  /\ secret' = secret + 1
  /\ UNCHANGED <<now, cookieVars, generation, flows, tabVars, clientVars, disturbed>>

WipeDatabase ==
  /\ Once("wipe")
  /\ generation' = generation + 1
  /\ UNCHANGED <<now, cookieVars, secret, flows, tabVars, clientVars, disturbed>>

-----------------------------------------------------------------------------

Api(t) == SignIn(t) \/ SignInFails(t) \/ LogOutFails(t) \/ LoggedOut(t) \/ Leave(t)

Client(t) == AskMe(t) \/ PollRows(t) \/ AnswerFails(t) \/ \E r \in Requests : Answer(t, r)

User(t) ==
  \/ StartLogin(t) \/ Deny(t) \/ LogOut(t) \/ Load(t) \/ Back(t)
  \/ \E g \in Accounts : Callback(t, g)

Next ==
  \/ \E t \in Tabs : Api(t) \/ Client(t) \/ User(t)
  \/ Tick \/ RotateSecret \/ WipeDatabase

Spec == Init /\ [][Next]_vars

\* The API and the query client finish what they have begun; the user owes nothing.
FairSpec ==
  Spec /\ \A t \in Tabs : WF_vars(Api(t)) /\ WF_vars(AskMe(t)) /\ WF_vars(Answer(t, "me"))

-----------------------------------------------------------------------------
(* Properties *)

\* "Your sign-in session expired": said only if the nonce did expire, or another tab
\* has started or finished a login while this one was at Google.
StateErrorHasCause == \A t \in Tabs : error[t] = "state" => t \in disturbed

\* "On success the cache is cleared": a tab that has logged out shows nothing read by
\* a session it had shown before, though polls were under way and the user goes back.
LoggedOutShowsNothing == \A t \in Tabs : Shown(t) \cap view[t].ended = {}

\* The browser's cookie is one the API serves.
Served == Held(session) # None /\ Verify(session.value) /\ GetUser(session.value.sub)

\* GET /me failed more often than it is tried again.
MeGivenUp == Budget["me"] - left["me"] > Retries

\* "After login, redirect the user to the dashboard": a callback that has been accepted
\* ends on a dashboard with its user or, when Google failed, at the login page with the
\* error, whatever other tabs do, unless the browser's session has ended meanwhile, the
\* token that /me was asked with expired on its way, or /me failed in each of its tries:
\* then the header waits for an answer for good.
SignedInServed ==
  \A t \in Tabs :
    at[t] = "callback" ~>
      \/ at[t] = "dashboard" /\ view[t].me # None
      \/ at[t] = "login" /\ error[t] = "oauth"
      \/ at[t] # "callback" /\ ~Served
      \/ at[t] = "dashboard" /\ view[t].refused = "expired"
      \/ at[t] = "dashboard" /\ view[t].refused = "failed" /\ MeGivenUp

-----------------------------------------------------------------------------
(* What the documents promise *)

\* "Rejected by /api on the first data call, which sends the client to /login".
RejectedGoesToLogin ==
  \A t \in Tabs : (at[t] = "dashboard" /\ view[t].refused # "no") ~> at[t] = "login"

\* A tab shows one user: the header's and the rows' are the same.
OneUserShown ==
  \A t \in Tabs : view[t].me # None /\ view[t].rows # None =>
    view[t].me.sub = view[t].rows.sub

===============================================================================
