----------------------------- MODULE SessionProofs -----------------------------
(* Proofs about Session, for every value of its constants. *)
EXTENDS Session, TLAPS

-----------------------------------------------------------------------------
(* Type correctness *)

\* A tab is at Google, or back from there and waiting for the API.
SigningIn(t) == at[t] \in {"google", "callback"}

\* A tab that signs in has a nonce that has been given out and, once its callback
\* has been accepted, an account.
FlowInv ==
  \A t \in Tabs :
    /\ SigningIn(t) => flow[t].nonce \in 1 .. flows
    /\ at[t] = "callback" => flow[t].account \in Accounts

TypeInv == TypeOK /\ FlowInv

\* A step that uses up some of a budget keeps it well-formed.
LEMMA OnceType ==
  ASSUME TypeOK, NEW k \in BoundedKinds, Once(k)
  PROVE  left' \in [BoundedKinds -> Nat]
  BY DEF Once, TypeOK

\* Wherever the middleware sends a tab, it signs in no more than before.
LEMMA LandType ==
  ASSUME TypeOK, NEW t \in Tabs, NEW e \in Errors, Land(t, e)
  PROVE  /\ at' \in [Tabs -> {"login", "google", "callback", "dashboard",
                              "loggingOut", "leaving"}]
         /\ error' \in [Tabs -> Errors]
         /\ ~SigningIn(t)'
         /\ \A u \in Tabs \ {t} : at'[u] = at[u] /\ error'[u] = error[u]
         /\ error'[t] \in {"none", e}
  BY DEF Land, TypeOK, SigningIn, Errors

\* A page load leaves a well-formed, empty client.
LEMMA FreshType ==
  ASSUME TypeOK, NEW t \in Tabs, Fresh(t)
  PROVE  /\ view' \in [Tabs -> Views]
         /\ asked' \in [Tabs -> [Requests -> Askings]]
  BY SessionAssumption DEF Fresh, TypeOK, NoView, Unasked, Views, Askings, Refusals

\* What an answer, or its failure, does to the client: it writes the token that was
\* asked with or leaves the data, and the request carries none any more.
LEMMA ReplyStep ==
  ASSUME TypeOK, NEW t \in Tabs, NEW r \in Requests,
         Answer(t, r) \/ (r = "me" /\ AnswerFails(t))
  PROVE  \E seen \in Views, next \in Askings :
           /\ view' = [view EXCEPT ![t] = seen]
           /\ asked' = [asked EXCEPT ![t][r] = next]
           /\ seen.me \in {view[t].me, asked[t][r].token}
           /\ seen.rows \in {view[t].rows, asked[t][r].token}
           /\ seen.ended = view[t].ended /\ next.token = None
<1> DEFINE token == asked[t][r].token
           Reply(seen, next) ==
             /\ view' = [view EXCEPT ![t] = seen]
             /\ asked' = [asked EXCEPT ![t][r] = next]
             /\ seen.me \in {view[t].me, token} /\ seen.rows \in {view[t].rows, token}
             /\ seen.ended = view[t].ended /\ next.token = None
<1>1. /\ view \in [Tabs -> Views] /\ view[t] \in Views
      /\ asked[t]["me"] \in Askings /\ token \in Tokens \cup {None}
      /\ Retries \in Nat
  BY SessionAssumption DEF TypeOK, Askings, Requests
<1>2. Unasked[r] \in Askings /\ Unasked[r].token = None
  BY <1>1 DEF Unasked, Askings
<1>3. CASE r = "me" /\ MeFails(t)
  <2>1. CASE asked[t]["me"].failed < Retries
    <3> DEFINE next == [busy |-> FALSE, token |-> None, failed |-> asked[t]["me"].failed + 1]
    <3>1. next \in Askings /\ next.token = None
      <4>1. asked[t]["me"].failed + 1 \in 0 .. Retries
        BY <1>1, <2>1 DEF Askings
      <4> QED
        BY <4>1 DEF Askings
    <3>2. view' = [view EXCEPT ![t] = view[t]] /\ asked' = [asked EXCEPT ![t][r] = next]
      BY <1>1, <1>3, <2>1 DEF MeFails
    <3>3. Reply(view[t], next)
      BY <3>1, <3>2
    <3> QED
      BY <1>1, <3>1, <3>3
  <2>2. CASE ~(asked[t]["me"].failed < Retries)
    <3> DEFINE seen == [view[t] EXCEPT !.refused = "failed"]
    <3>1. seen \in Views /\ seen.me = view[t].me /\ seen.rows = view[t].rows
          /\ seen.ended = view[t].ended
      BY <1>1 DEF Views, Refusals
    <3>2. view' = [view EXCEPT ![t] = seen] /\ asked' = [asked EXCEPT ![t][r] = Unasked[r]]
      BY <1>3, <2>2 DEF MeFails
    <3>3. Reply(seen, Unasked[r])
      BY <1>2, <3>1, <3>2
    <3> QED
      BY <1>2, <3>1, <3>3
  <2> QED
    BY <2>1, <2>2
<1>4. CASE ~(r = "me" /\ MeFails(t))
  <2> DEFINE seen == IF Verify(token) THEN [view[t] EXCEPT ![r] = token]
                     ELSE IF r = "me" THEN [view[t] EXCEPT !.refused = Unauthorized(token)]
                     ELSE view[t]
  <2>1. view' = [view EXCEPT ![t] = seen] /\ asked' = [asked EXCEPT ![t][r] = Unasked[r]]
    BY <1>4, Zenon DEF Answer, AnswerFails
  <2>2. /\ seen \in Views /\ seen.me \in {view[t].me, token}
        /\ seen.rows \in {view[t].rows, token} /\ seen.ended = view[t].ended
    <3>1. CASE r = "me"
      BY <1>1, <3>1 DEF Views, Refusals, Unauthorized
    <3>2. CASE r = "rows"
      BY <1>1, <3>2 DEF Views
    <3> QED
      BY <3>1, <3>2 DEF Requests
  <2> HIDE DEF seen
  <2>3. Reply(seen, Unasked[r])
    BY <1>2, <2>1, <2>2
  <2> QED
    BY <1>2, <2>2, <2>3
<1> QED
  BY <1>3, <1>4

\* The token of a completed sign-in is one.
LEMMA SignJwtType ==
  ASSUME TypeInv, NEW t \in Tabs, at[t] = "callback"
  PROVE  SignJwt(EnsureUser(flow[t].account), flow[t].nonce) \in Tokens
<1>1. flow[t].nonce \in 1 .. MaxFlows /\ flow[t].account \in Accounts
  BY DEF TypeInv, TypeOK, FlowInv, SigningIn
<1>2. now + SessionTtl \in Nat /\ secret \in Nat /\ generation \in Nat
  BY SessionAssumption DEF TypeInv, TypeOK
<1> QED
  BY <1>1, <1>2 DEF SignJwt, EnsureUser, Tokens, UserIds

LEMMA TypeInit == Init => TypeInv
  BY SessionAssumption
     DEF Init, TypeInv, TypeOK, FlowInv, SigningIn, NoCookie, NoFlow, NoView, Unasked, Errors,
         Views, Askings, Refusals

LEMMA TypeStep == TypeInv /\ [Next]_vars => TypeInv'
<1> SUFFICES ASSUME TypeInv, [Next]_vars PROVE TypeInv'
  OBVIOUS
<1>1. TypeOK
  BY DEF TypeInv
<1>2. "none" \in Errors /\ "denied" \in Errors /\ "state" \in Errors /\ "oauth" \in Errors
  BY DEF Errors
<1>3. StateTtl \in Nat /\ SessionTtl \in Nat /\ MaxTime \in Nat /\ MaxFlows \in Nat
  BY SessionAssumption
<1>0. \A k \in {"google", "logout", "me", "rotate", "wipe", "user", "poll"} : k \in BoundedKinds
  BY DEF BoundedKinds
<1> USE <1>0 DEF TypeInv, FlowInv, SigningIn, cookieVars, serverVars, tabVars, clientVars
<1>4. ASSUME NEW t \in Tabs, Load(t) PROVE TypeInv'
  BY <1>1, <1>2, <1>4, LandType, FreshType, OnceType DEF Load, TypeOK
<1>5. ASSUME NEW t \in Tabs, StartLogin(t) PROVE TypeInv'
  <2>1. flows + 1 \in 1 .. MaxFlows /\ now + StateTtl \in Nat
    BY <1>1, <1>3, <1>5 DEF StartLogin, TypeOK
  <2>2. /\ flow' \in [Tabs -> [nonce : 0 .. MaxFlows, account : Accounts \cup {None}]]
        /\ \A u \in Tabs : flow'[u].nonce = IF u = t THEN flows + 1 ELSE flow[u].nonce
        /\ \A u \in Tabs : flow'[u].account = flow[u].account
    BY <1>1, <1>5, <2>1 DEF StartLogin, TypeOK
  <2>3. /\ at' = [at EXCEPT ![t] = "google"] /\ flows' = flows + 1
        /\ state' \in [value : (1 .. MaxFlows) \cup {None}, until : Nat]
        /\ error' \in [Tabs -> Errors]
        /\ disturbed' \subseteq Tabs
    BY <1>1, <1>2, <1>5, <2>1 DEF StartLogin, TypeOK
  <2>4. FlowInv'
    BY <1>1, <2>1, <2>2, <2>3 DEF TypeOK
  <2>5. TypeOK'
    BY <1>1, <1>3, <1>5, <2>1, <2>2, <2>3, FreshType DEF StartLogin, TypeOK
  <2> QED
    BY <2>4, <2>5
<1>6. ASSUME NEW t \in Tabs, NEW e \in Errors, Land(t, e),
             flow' = [flow EXCEPT ![t] = NoFlow], flows' = flows
      PROVE  /\ FlowInv'
             /\ flow' \in [Tabs -> [nonce : 0 .. MaxFlows, account : Accounts \cup {None}]]
             /\ at' \in [Tabs -> {"login", "google", "callback", "dashboard",
                                  "loggingOut", "leaving"}]
             /\ error' \in [Tabs -> Errors]
  <2>1. /\ ~SigningIn(t)' /\ \A u \in Tabs \ {t} : at'[u] = at[u]
        /\ at' \in [Tabs -> {"login", "google", "callback", "dashboard",
                             "loggingOut", "leaving"}]
        /\ error' \in [Tabs -> Errors]
    BY <1>1, <1>6, LandType
  <2>2. /\ flow' \in [Tabs -> [nonce : 0 .. MaxFlows, account : Accounts \cup {None}]]
        /\ \A u \in Tabs \ {t} : flow'[u] = flow[u]
    BY <1>1, <1>3, <1>6 DEF TypeOK, NoFlow
  <2> QED
    BY <1>6, <2>1, <2>2
<1>20. ASSUME NEW t \in Tabs, Deny(t) PROVE TypeInv'
  BY <1>1, <1>2, <1>6, <1>20 DEF Deny, TypeOK
<1>7. ASSUME NEW t \in Tabs, NEW g \in Accounts, Callback(t, g) PROVE TypeInv'
  <2>1. CASE flow[t].nonce = Held(state)
    <3>1. /\ flow' \in [Tabs -> [nonce : 0 .. MaxFlows, account : Accounts \cup {None}]]
          /\ \A u \in Tabs : flow'[u].nonce = flow[u].nonce
          /\ \A u \in Tabs : flow'[u].account = IF u = t THEN g ELSE flow[u].account
      <4>1. flow' = [flow EXCEPT ![t].account = g]
        BY <1>7, <2>1 DEF Callback
      <4>2. flow \in [Tabs -> [nonce : 0 .. MaxFlows, account : Accounts \cup {None}]]
        BY <1>1 DEF TypeOK
      <4>3. /\ DOMAIN flow' = Tabs
            /\ \A u \in Tabs : flow'[u] = IF u = t THEN [flow[t] EXCEPT !.account = g] ELSE flow[u]
        BY <4>1, <4>2
      <4>4. \A u \in Tabs :
              flow[u] = [nonce |-> flow[u].nonce, account |-> flow[u].account]
        BY <4>2
      <4>5. flow'[t] = [nonce |-> flow[t].nonce, account |-> g]
        BY <4>3, <4>4
      <4>6. flow' = [u \in Tabs |-> flow'[u]]
        BY <4>1, <4>2
      <4> QED
        BY <4>2, <4>3, <4>5, <4>6
    <3>2. at' = [at EXCEPT ![t] = "callback"] /\ at[t] = "google" /\ UNCHANGED <<flows, error>>
      BY <1>7, <2>1 DEF Callback
    <3>3. FlowInv'
      BY <1>1, <3>1, <3>2 DEF TypeOK
    <3> QED
      BY <1>1, <1>7, <3>1, <3>2, <3>3 DEF Callback, TypeOK
  <2>2. CASE flow[t].nonce # Held(state)
    <3>1. Land(t, "state") /\ flow' = [flow EXCEPT ![t] = NoFlow] /\ flows' = flows
      BY <1>7, <2>2 DEF Callback
    <3> QED
      BY <1>1, <1>2, <1>6, <1>7, <3>1 DEF Callback, TypeOK
  <2> QED
    BY <2>1, <2>2
<1>8. ASSUME NEW t \in Tabs, SignIn(t) PROVE TypeInv'
  <2>1. SignJwt(EnsureUser(flow[t].account), flow[t].nonce) \in Tokens
    BY <1>8, SignJwtType DEF SignIn
  <2> QED
    <3>1. /\ session' \in [value : Tokens \cup {None}, until : Nat]
          /\ state' \in [value : (1 .. MaxFlows) \cup {None}, until : Nat]
          /\ disturbed' \subseteq Tabs
      BY <1>1, <1>3, <1>8, <2>1 DEF SignIn, TypeOK, NoCookie
    <3> QED
      BY <1>1, <1>2, <1>6, <1>8, <3>1 DEF SignIn, TypeOK
<1>9. ASSUME NEW t \in Tabs, SignInFails(t) PROVE TypeInv'
  BY <1>1, <1>2, <1>6, <1>9, OnceType DEF SignInFails, TypeOK, NoCookie
<1>10. ASSUME NEW t \in Tabs, NEW r \in Requests, Send(t, r), left' \in [BoundedKinds -> Nat]
       PROVE  TypeInv'
  <2>1. Held(session) \in Tokens \cup {None}
    BY <1>1 DEF Held, TypeOK
  <2> QED
    BY <1>1, <1>10, <2>1 DEF Send, TypeOK, Askings
<1>11. ASSUME NEW t \in Tabs, AskMe(t) \/ PollRows(t) PROVE TypeInv'
  <2>1. left' \in [BoundedKinds -> Nat]
    BY <1>1, <1>11, OnceType DEF AskMe, PollRows, TypeOK
  <2> QED
    BY <1>10, <1>11, <2>1 DEF AskMe, PollRows, Requests
<1>12. ASSUME NEW t \in Tabs, NEW r \in Requests,
              Answer(t, r) \/ (r = "me" /\ AnswerFails(t))
       PROVE  TypeInv'
  <2>1. PICK seen \in Views, next \in Askings :
          /\ view' = [view EXCEPT ![t] = seen]
          /\ asked' = [asked EXCEPT ![t][r] = next]
    BY <1>1, <1>12, ReplyStep
  <2>2. view' \in [Tabs -> Views] /\ asked' \in [Tabs -> [Requests -> Askings]]
    BY <1>1, <2>1 DEF TypeOK
  <2>3. UNCHANGED <<now, session, state, generation, secret, flows, at, error, flow,
                    disturbed>>
    BY <1>12 DEF Answer, AnswerFails
  <2>4. left' \in [BoundedKinds -> Nat]
    BY <1>1, <1>12, OnceType DEF Answer, AnswerFails, TypeOK
  <2> QED
    BY <1>1, <2>2, <2>3, <2>4 DEF TypeOK
<1>13. ASSUME NEW t \in Tabs, LogOut(t) \/ LogOutFails(t) PROVE TypeInv'
  BY <1>1, <1>13, OnceType DEF LogOut, LogOutFails, TypeOK
<1>14. ASSUME NEW t \in Tabs, LoggedOut(t) PROVE TypeInv'
  <2>1. Shown(t) \subseteq 1 .. MaxFlows
    BY <1>1 DEF Shown, TypeOK, Tokens, Views
  <2> QED
    BY <1>1, <1>14, <2>1, SessionAssumption
       DEF LoggedOut, TypeOK, NoCookie, NoView, Unasked, Views, Askings, Refusals
<1>15. ASSUME NEW t \in Tabs, Leave(t) PROVE TypeInv'
  BY <1>1, <1>2, <1>15, LandType DEF Leave, TypeOK
<1>16. ASSUME NEW t \in Tabs, Back(t) PROVE TypeInv'
  BY <1>1, <1>16, OnceType DEF Back, TypeOK, Views, Refusals
<1>17. CASE Tick
  BY <1>1, <1>3, <1>17 DEF Tick, TypeOK
<1>18. CASE RotateSecret \/ WipeDatabase
  BY <1>1, <1>18, OnceType DEF RotateSecret, WipeDatabase, TypeOK
<1>19. CASE UNCHANGED vars
  BY <1>1, <1>19 DEF vars, TypeOK
<1> QED
  BY <1>4, <1>5, <1>20, <1>7, <1>8, <1>9, <1>11, <1>12, <1>13, <1>14, <1>15, <1>16, <1>17, <1>18,
     <1>19 DEF Next, Api, Client, User, Requests

\* Well-typed states; every tab that signs in has a nonce of its own flow, so that the
\* token it is given names a login that was started.
THEOREM TypeCorrect == Spec => [](TypeOK /\ FlowInv)
<1>1. TypeInv <=> TypeOK /\ FlowInv
  BY DEF TypeInv
<1> QED
  BY <1>1, TypeInit, TypeStep, PTL DEF Spec
-----------------------------------------------------------------------------
(* The state cookie *)

\* The state cookie of a tab at Google is its own and has not expired, unless another
\* flow or the clock has taken it.
NonceInv ==
  \A t \in Tabs :
    at[t] = "google" /\ t \notin disturbed =>
      flow[t].nonce = state.value /\ now < state.until

CauseInv == NonceInv /\ StateErrorHasCause

\* A tab that lands without the error 'state', and leaves Google, keeps both.
LEMMA LandCause ==
  ASSUME TypeInv, CauseInv, NEW t \in Tabs, NEW e \in Errors, Land(t, e),
         e = "state" => t \in disturbed,
         UNCHANGED <<state, now>>, disturbed' = disturbed,
         \A u \in Tabs \ {t} : flow'[u] = flow[u]
  PROVE  CauseInv'
<1>1. /\ ~SigningIn(t)'
      /\ \A u \in Tabs \ {t} : at'[u] = at[u] /\ error'[u] = error[u]
      /\ error'[t] \in {"none", e}
  BY LandType DEF TypeInv
<1> QED
  BY <1>1 DEF CauseInv, NonceInv, StateErrorHasCause, SigningIn

LEMMA CauseStep == TypeInv /\ CauseInv /\ [Next]_vars => CauseInv'
<1> SUFFICES ASSUME TypeInv, CauseInv, [Next]_vars PROVE CauseInv'
  OBVIOUS
<1>1. "none" \in Errors /\ "denied" \in Errors /\ "state" \in Errors /\ "oauth" \in Errors
  BY DEF Errors
<1>2. /\ StateTtl \in Nat \ {0} /\ now \in Nat
      /\ flow \in [Tabs -> [nonce : 0 .. MaxFlows, account : Accounts \cup {None}]]
      /\ at \in [Tabs -> {"login", "google", "callback", "dashboard",
                          "loggingOut", "leaving"}]
      /\ error \in [Tabs -> Errors]
  BY SessionAssumption DEF TypeInv, TypeOK
<1> USE DEF cookieVars, serverVars, tabVars, clientVars
<1>3. CASE UNCHANGED <<now, state, at, error, flow, disturbed>>
  BY <1>3 DEF CauseInv, NonceInv, StateErrorHasCause
<1>4. ASSUME NEW t \in Tabs, Load(t) \/ Leave(t) PROVE CauseInv'
  BY <1>1, <1>4, LandCause DEF Load, Leave
<1>5. ASSUME NEW t \in Tabs, StartLogin(t) PROVE CauseInv'
  <2>1. /\ state' = [value |-> flows + 1, until |-> now + StateTtl] /\ now' = now
        /\ \A u \in Tabs : at'[u] = IF u = t THEN "google" ELSE at[u]
        /\ \A u \in Tabs : error'[u] = IF u = t THEN "none" ELSE error[u]
        /\ flow'[t].nonce = flows + 1
        /\ disturbed' = (disturbed \cup {u \in Tabs : at[u] = "google"}) \ {t}
    BY <1>2, <1>5 DEF StartLogin
  <2>2. now' < state'.until
    BY <1>2, <2>1
  <2> QED
    BY <2>1, <2>2 DEF CauseInv, NonceInv, StateErrorHasCause
<1>6. ASSUME NEW t \in Tabs, Deny(t) PROVE CauseInv'
  BY <1>1, <1>2, <1>6, LandCause DEF Deny
<1>7. ASSUME NEW t \in Tabs, NEW g \in Accounts, Callback(t, g) PROVE CauseInv'
  <2>1. CASE flow[t].nonce = Held(state)
    <3>1. /\ \A u \in Tabs : at'[u] = IF u = t THEN "callback" ELSE at[u]
          /\ UNCHANGED <<now, state, error, disturbed>>
      BY <1>2, <1>7, <2>1 DEF Callback
    <3>2. \A u \in Tabs \ {t} : flow'[u] = flow[u]
      BY <1>2, <1>7, <2>1 DEF Callback
    <3> QED
      BY <3>1, <3>2 DEF CauseInv, NonceInv, StateErrorHasCause
  <2>2. CASE flow[t].nonce # Held(state)
    <3>1. t \in disturbed
      BY <1>7, <2>2 DEF Callback, CauseInv, NonceInv, Held
    <3>2. /\ Land(t, "state") /\ UNCHANGED <<now, state, disturbed>>
          /\ \A u \in Tabs \ {t} : flow'[u] = flow[u]
      BY <1>2, <1>7, <2>2 DEF Callback
    <3> QED
      BY <1>1, <3>1, <3>2, LandCause
  <2> QED
    BY <2>1, <2>2
<1>8. ASSUME NEW t \in Tabs, SignIn(t) \/ SignInFails(t) PROVE CauseInv'
  <2>1. PICK e \in {"none", "oauth"} : Land(t, e)
    BY <1>8 DEF SignIn, SignInFails
  <2>2. disturbed' = disturbed \cup {u \in Tabs \ {t} : at[u] = "google"}
    BY <1>8 DEF SignIn, SignInFails
  <2>3. /\ ~SigningIn(t)'
        /\ \A u \in Tabs \ {t} : at'[u] = at[u] /\ error'[u] = error[u]
        /\ error'[t] \in {"none", e}
    BY <1>1, <2>1, LandType DEF TypeInv
  <2> QED
    BY <2>2, <2>3 DEF CauseInv, NonceInv, StateErrorHasCause, SigningIn
<1>9. ASSUME NEW t \in Tabs, LogOut(t) \/ LogOutFails(t) \/ LoggedOut(t) \/ Back(t)
      PROVE  CauseInv'
  <2>1. /\ \A u \in Tabs : at'[u] = "google" => at[u] = "google"
        /\ UNCHANGED <<now, state, error, flow, disturbed>>
    BY <1>2, <1>9 DEF LogOut, LogOutFails, LoggedOut, Back
  <2> QED
    BY <2>1 DEF CauseInv, NonceInv, StateErrorHasCause
<1>10. CASE Tick
  <2>1. /\ now' = now + 1 /\ UNCHANGED <<state, at, error, flow>>
        /\ disturbed' = IF now' < state.until THEN disturbed
                        ELSE disturbed \cup {t \in Tabs : at[t] = "google"}
    BY <1>10 DEF Tick
  <2> QED
    BY <2>1 DEF CauseInv, NonceInv, StateErrorHasCause
<1> QED
  BY <1>3, <1>4, <1>5, <1>6, <1>7, <1>8, <1>9, <1>10
     DEF Next, vars, Api, Client, User, AskMe, PollRows, Send, Answer, AnswerFails,
         RotateSecret, WipeDatabase

\* "Your sign-in session expired" is said only to a tab whose nonce did expire or was
\* taken by another tab's login, however many tabs sign in at once.
THEOREM StateErrors == Spec => []StateErrorHasCause
<1>1. Init => CauseInv
  BY DEF Init, CauseInv, NonceInv, StateErrorHasCause
<1>2. CauseInv => StateErrorHasCause
  BY DEF CauseInv
<1> QED
  BY <1>1, <1>2, TypeInit, TypeStep, CauseStep, PTL DEF Spec
-----------------------------------------------------------------------------
(* Logging out *)

\* The tokens a tab's data can come from: the cookie's, those its requests under way
\* carry, those its data were read with.
Live(t) ==
  {session.value, view[t].me, view[t].rows,
   asked[t]["me"].token, asked[t]["rows"].token} \ {None}

\* The logins a tab has heard of.
Known(t) == {token.flow : token \in Live(t)} \cup view[t].ended

\* No login that a tab has ended comes back to it: a login a tab has heard of is
\* completed, so that its nonce is that of no tab still signing in, and those differ.
EndedInv ==
  /\ \A t \in Tabs : \A token \in Live(t) : token.flow \notin view[t].ended
  /\ \A t \in Tabs : \A f \in Known(t) :
       f <= flows /\ \A u \in Tabs : SigningIn(u) => flow[u].nonce # f
  /\ \A t, u \in Tabs :
       SigningIn(t) /\ SigningIn(u) /\ t # u => flow[t].nonce # flow[u].nonce

\* A step after which tabs know no more, have ended nothing, and sign in with the
\* nonces they had keeps the invariant.
LEMMA EndedShrinks ==
  ASSUME EndedInv,
         \A t \in Tabs : Live(t)' \subseteq Live(t) /\ view'[t].ended \subseteq view[t].ended,
         \A u \in Tabs : SigningIn(u)' => SigningIn(u) /\ flow'[u].nonce = flow[u].nonce,
         flows' = flows
  PROVE  EndedInv'
<1>1. \A t \in Tabs : Known(t)' \subseteq Known(t)
  BY DEF Known
<1> HIDE DEF Known
<1>2. \A t \in Tabs : \A token \in Live(t)' : token.flow \notin view'[t].ended
  BY DEF EndedInv
<1>3. \A t \in Tabs : \A f \in Known(t)' :
        f <= flows' /\ \A u \in Tabs : SigningIn(u)' => flow'[u].nonce # f
  BY <1>1 DEF EndedInv
<1>4. \A t, u \in Tabs :
        SigningIn(t)' /\ SigningIn(u)' /\ t # u => flow'[t].nonce # flow'[u].nonce
  BY DEF EndedInv
<1> QED
  BY <1>2, <1>3, <1>4 DEF EndedInv

\* So does a step that only moves tabs that are not signing in.
LEMMA EndedMoves ==
  ASSUME EndedInv, UNCHANGED <<session, view, asked, flows>>,
         \A u \in Tabs : SigningIn(u)' => SigningIn(u) /\ flow'[u].nonce = flow[u].nonce
  PROVE  EndedInv'
<1>1. \A t \in Tabs : Live(t)' \subseteq Live(t) /\ view'[t].ended \subseteq view[t].ended
  BY DEF Live
<1> QED
  BY <1>1, EndedShrinks

LEMMA EndedStep == TypeInv /\ EndedInv /\ [Next]_vars => EndedInv'
<1> SUFFICES ASSUME TypeInv, EndedInv, [Next]_vars PROVE EndedInv'
  OBVIOUS
<1>1. "none" \in Errors /\ "denied" \in Errors /\ "state" \in Errors /\ "oauth" \in Errors
  BY DEF Errors
<1>2. /\ flows \in Nat
      /\ flow \in [Tabs -> [nonce : 0 .. MaxFlows, account : Accounts \cup {None}]]
      /\ at \in [Tabs -> {"login", "google", "callback", "dashboard",
                          "loggingOut", "leaving"}]
      /\ view \in [Tabs -> Views]
      /\ asked \in [Tabs -> [Requests -> Askings]]
  BY DEF TypeInv, TypeOK
<1> USE DEF cookieVars, serverVars, tabVars, clientVars
<1>3. CASE UNCHANGED <<session, view, asked, flows, at, flow>>
  BY <1>3, EndedMoves DEF SigningIn
<1>4. ASSUME NEW t \in Tabs, Fresh(t)
      PROVE  /\ \A u \in Tabs : view'[u].ended \subseteq view[u].ended
             /\ session' = session => \A u \in Tabs : Live(u)' \subseteq Live(u)
  BY <1>2, <1>4 DEF Fresh, NoView, Unasked, Live, Requests
<1>5. ASSUME NEW t \in Tabs, NEW e \in Errors, Land(t, e),
             \A u \in Tabs \ {t} : flow'[u] = flow[u]
      PROVE  \A u \in Tabs : SigningIn(u)' => SigningIn(u) /\ flow'[u].nonce = flow[u].nonce
  BY <1>5, LandType DEF TypeInv, SigningIn
<1>6. ASSUME NEW t \in Tabs, Load(t) PROVE EndedInv'
  <2>1. \A u \in Tabs : SigningIn(u)' => SigningIn(u) /\ flow'[u].nonce = flow[u].nonce
    BY <1>1, <1>5, <1>6 DEF Load
  <2> QED
    BY <1>4, <1>6, <2>1, EndedShrinks DEF Load
<1>7. ASSUME NEW t \in Tabs, Deny(t) \/ SignInFails(t) \/ Leave(t) PROVE EndedInv'
  <2>1. PICK e \in Errors : Land(t, e)
    BY <1>1, <1>7 DEF Deny, SignInFails, Leave
  <2>2. /\ \A u \in Tabs \ {t} : flow'[u] = flow[u]
        /\ UNCHANGED <<session, view, asked, flows>>
    BY <1>2, <1>7 DEF Deny, SignInFails, Leave
  <2> QED
    BY <1>5, <2>1, <2>2, EndedMoves
<1>8. ASSUME NEW t \in Tabs, NEW g \in Accounts, Callback(t, g) PROVE EndedInv'
  <2>1. CASE flow[t].nonce = Held(state)
    <3>1. at' = [at EXCEPT ![t] = "callback"] /\ flow' = [flow EXCEPT ![t].account = g]
          /\ at[t] = "google"
      BY <1>8, <2>1 DEF Callback
    <3>2. \A u \in Tabs : SigningIn(u)' => SigningIn(u) /\ flow'[u].nonce = flow[u].nonce
      BY <1>2, <3>1 DEF SigningIn
    <3> QED
      BY <1>8, <3>2, EndedMoves DEF Callback
  <2>2. CASE flow[t].nonce # Held(state)
    <3>1. Land(t, "state") /\ \A u \in Tabs \ {t} : flow'[u] = flow[u]
      BY <1>2, <1>8, <2>2 DEF Callback
    <3> QED
      BY <1>1, <1>5, <1>8, <3>1, EndedMoves DEF Callback
  <2> QED
    BY <2>1, <2>2
<1>9. ASSUME NEW t \in Tabs, LogOut(t) \/ LogOutFails(t) PROVE EndedInv'
  <2>1. /\ \A u \in Tabs : SigningIn(u)' => SigningIn(u) /\ flow'[u].nonce = flow[u].nonce
        /\ UNCHANGED <<session, view, asked, flows>>
    BY <1>2, <1>9 DEF LogOut, LogOutFails, SigningIn
  <2> QED
    BY <2>1, EndedMoves
<1>10. ASSUME NEW t \in Tabs, Back(t) PROVE EndedInv'
  <2>1. /\ \A u \in Tabs : SigningIn(u)' => SigningIn(u) /\ flow'[u].nonce = flow[u].nonce
        /\ UNCHANGED <<session, asked, flows>>
    BY <1>2, <1>10 DEF Back, SigningIn
  <2>2. \A u \in Tabs : /\ view'[u].me = view[u].me /\ view'[u].rows = view[u].rows
                        /\ view'[u].ended = view[u].ended
    BY <1>2, <1>10 DEF Back
  <2>3. \A u \in Tabs : Live(u)' \subseteq Live(u) /\ view'[u].ended \subseteq view[u].ended
    BY <2>1, <2>2 DEF Live
  <2> QED
    BY <2>1, <2>3, EndedShrinks
<1>11. ASSUME NEW t \in Tabs, NEW r \in Requests, Send(t, r) PROVE EndedInv'
  <2>1. /\ UNCHANGED <<session, view, flows, at, flow>>
        /\ asked' = [asked EXCEPT ![t][r] = [busy |-> TRUE, token |-> Held(session),
                                             failed |-> asked[t][r].failed]]
    BY <1>11 DEF Send
  <2>2. Held(session) \in {session.value, None}
    BY DEF Held
  <2>3. \A u \in Tabs : \A q \in Requests :
          asked'[u][q].token \in {asked[u][q].token, session.value, None}
    BY <1>2, <2>1, <2>2
  <2>4. \A u \in Tabs : Live(u)' \subseteq Live(u) /\ view'[u].ended \subseteq view[u].ended
    BY <2>1, <2>3 DEF Live, Requests
  <2> QED
    BY <2>1, <2>4, EndedShrinks DEF SigningIn
<1>12. ASSUME NEW t \in Tabs, NEW r \in Requests,
              Answer(t, r) \/ (r = "me" /\ AnswerFails(t))
       PROVE  EndedInv'
  <2> DEFINE token == asked[t][r].token
  <2>1. PICK seen \in Views, next \in Askings :
          /\ view' = [view EXCEPT ![t] = seen]
          /\ asked' = [asked EXCEPT ![t][r] = next]
          /\ seen.me \in {view[t].me, token} /\ seen.rows \in {view[t].rows, token}
          /\ seen.ended = view[t].ended /\ next.token = None
    BY <1>12, ReplyStep DEF TypeInv
  <2>2. UNCHANGED <<session, flows, at, flow>>
    BY <1>12 DEF Answer, AnswerFails
  <2>3. \A u \in Tabs : /\ view'[u].ended = view[u].ended
                        /\ u # t => view'[u] = view[u]
    BY <1>2, <2>1
  <2>4. \A u \in Tabs : \A q \in Requests : asked'[u][q].token \in {asked[u][q].token, None}
    BY <1>2, <2>1
  <2>5. \A u \in Tabs : Live(u)' \subseteq Live(u)
    BY <1>2, <2>1, <2>2, <2>3, <2>4 DEF Live, Requests
  <2> QED
    BY <2>2, <2>3, <2>5, EndedShrinks DEF SigningIn
<1>13. ASSUME NEW t \in Tabs, StartLogin(t) PROVE EndedInv'
  <2>1. /\ flows' = flows + 1 /\ session' = session
        /\ \A u \in Tabs : SigningIn(u)' => SigningIn(u) \/ u = t
        /\ flow'[t].nonce = flows + 1
        /\ \A u \in Tabs \ {t} : flow'[u] = flow[u]
    BY <1>2, <1>13 DEF StartLogin, SigningIn
  <2>2. \A u \in Tabs : Live(u)' \subseteq Live(u) /\ view'[u].ended \subseteq view[u].ended
    BY <1>4, <1>13, <2>1 DEF StartLogin
  <2>3. \A u \in Tabs : Known(u)' \subseteq Known(u)
    BY <2>2 DEF Known
  <2>4. \A u \in Tabs : SigningIn(u) => flow[u].nonce \in Nat /\ flow[u].nonce <= flows
    BY <1>2 DEF TypeInv, FlowInv
  <2>5. \A u \in Tabs : \A f \in Known(u) : f \in Nat
    BY <1>2 DEF Known, Live, TypeInv, TypeOK, Tokens, Requests, Views, Askings
  <2>6. \A u \in Tabs : \A token \in Live(u)' : token.flow \notin view'[u].ended
    BY <2>2 DEF EndedInv
  <2>7. \A u \in Tabs : \A f \in Known(u)' :
          f <= flows' /\ \A v \in Tabs : SigningIn(v)' => flow'[v].nonce # f
    BY <1>2, <2>1, <2>3, <2>5 DEF EndedInv
  <2>8. \A u, v \in Tabs :
          SigningIn(u)' /\ SigningIn(v)' /\ u # v => flow'[u].nonce # flow'[v].nonce
    <3>1. ASSUME NEW u \in Tabs \ {t}, SigningIn(u)'
          PROVE  SigningIn(u) /\ flow'[u].nonce = flow[u].nonce /\ flow'[u].nonce # flow'[t].nonce
      BY <1>2, <2>1, <2>4, <3>1
    <3> QED
      BY <3>1 DEF EndedInv
  <2> QED
    BY <2>6, <2>7, <2>8 DEF EndedInv
<1>14. ASSUME NEW t \in Tabs, SignIn(t) PROVE EndedInv'
  <2> DEFINE new == SignJwt(EnsureUser(flow[t].account), flow[t].nonce)
  <2>1. /\ SigningIn(t) /\ session'.value = new /\ new.flow = flow[t].nonce
        /\ UNCHANGED <<view, asked, flows>>
    BY <1>14 DEF SignIn, SignJwt, SigningIn
  <2> HIDE DEF new
  <2>2. /\ ~SigningIn(t)'
        /\ \A u \in Tabs \ {t} : SigningIn(u)' => SigningIn(u) /\ flow'[u].nonce = flow[u].nonce
    BY <1>1, <1>2, <1>14, LandType DEF SignIn, TypeInv, SigningIn
  <2>3. \A u \in Tabs : Live(u)' \subseteq Live(u) \cup {new}
    BY <2>1 DEF Live
  <2>4. \A u \in Tabs : Known(u)' \subseteq Known(u) \cup {flow[t].nonce}
    BY <2>1, <2>3 DEF Known
  <2>5. flow[t].nonce <= flows
    BY <1>2, <2>1 DEF TypeInv, FlowInv
  <2>6. \A u \in Tabs : flow[t].nonce \notin view[u].ended
    BY <2>1 DEF EndedInv, Known
  <2>7. \A u \in Tabs : \A token \in Live(u)' : token.flow \notin view'[u].ended
    BY <2>1, <2>3, <2>6 DEF EndedInv
  <2>8. \A u \in Tabs : \A f \in Known(u)' :
          f <= flows' /\ \A v \in Tabs : SigningIn(v)' => flow'[v].nonce # f
    BY <2>1, <2>2, <2>4, <2>5 DEF EndedInv
  <2>9. \A u, v \in Tabs :
          SigningIn(u)' /\ SigningIn(v)' /\ u # v => flow'[u].nonce # flow'[v].nonce
    BY <2>2 DEF EndedInv
  <2> QED
    BY <2>7, <2>8, <2>9 DEF EndedInv
<1>15. ASSUME NEW t \in Tabs, LoggedOut(t) PROVE EndedInv'
  <2>1. /\ session'.value = None /\ flows' = flows
        /\ \A u \in Tabs : SigningIn(u)' => SigningIn(u) /\ flow'[u].nonce = flow[u].nonce
    BY <1>2, <1>15 DEF LoggedOut, NoCookie, SigningIn
  <2>2. /\ Live(t)' = {} /\ view'[t].ended = view[t].ended \cup Shown(t)
        /\ \A u \in Tabs \ {t} : view'[u] = view[u] /\ asked'[u] = asked[u]
    BY <1>2, <1>15, <2>1 DEF LoggedOut, Live, NoView, Unasked, Requests
  <2>3. \A u \in Tabs \ {t} : Live(u)' \subseteq Live(u)
    BY <2>1, <2>2 DEF Live
  <2>4. Shown(t) \subseteq Known(t)
    BY DEF Shown, Known, Live
  <2>5. \A u \in Tabs : Known(u)' \subseteq Known(u)
    BY <2>2, <2>3, <2>4 DEF Known
  <2>6. \A u \in Tabs : \A token \in Live(u)' : token.flow \notin view'[u].ended
    BY <2>2, <2>3 DEF EndedInv
  <2>7. \A u \in Tabs : \A f \in Known(u)' :
          f <= flows' /\ \A v \in Tabs : SigningIn(v)' => flow'[v].nonce # f
    BY <2>1, <2>5 DEF EndedInv
  <2>8. \A u, v \in Tabs :
          SigningIn(u)' /\ SigningIn(v)' /\ u # v => flow'[u].nonce # flow'[v].nonce
    BY <2>1 DEF EndedInv
  <2> QED
    BY <2>6, <2>7, <2>8 DEF EndedInv
<1> QED
  BY <1>3, <1>6, <1>7, <1>8, <1>9, <1>10, <1>11, <1>12, <1>13, <1>14, <1>15
     DEF Next, vars, Api, Client, User, AskMe, PollRows, Requests, Tick, RotateSecret,
         WipeDatabase

LEMMA EndedInit == Init => EndedInv
<1> SUFFICES ASSUME Init PROVE EndedInv
  OBVIOUS
<1>1. \A t \in Tabs : Live(t) = {} /\ view[t].ended = {} /\ ~SigningIn(t)
  BY DEF Init, Live, NoCookie, NoView, Unasked, Requests, SigningIn
<1>2. \A t \in Tabs : Known(t) = {}
  BY <1>1 DEF Known
<1> QED
  BY <1>1, <1>2 DEF EndedInv

\* A tab that has logged out shows nothing read by a login it had shown before: not by
\* an answer that was under way, not after a later login, not when the user goes back.
THEOREM LoggedOutEmpty == Spec => []LoggedOutShowsNothing
<1>1. EndedInv => LoggedOutShowsNothing
  <2> SUFFICES ASSUME EndedInv, NEW t \in Tabs PROVE Shown(t) \cap view[t].ended = {}
    BY DEF LoggedOutShowsNothing
  <2>1. {view[t].me, view[t].rows} \ {None} \subseteq Live(t)
    BY DEF Live
  <2> QED
    BY <2>1 DEF EndedInv, Shown
<1> QED
  BY <1>1, TypeInit, TypeStep, EndedInit, EndedStep, PTL DEF Spec
===============================================================================
