-------------------------- MODULE CsrfTokensProofs --------------------------
(***************************************************************************)
(* What CsrfTokens promises for any number of browsers, scripts and        *)
(* requests: its steps are steps of AdminSession, tokens never change      *)
(* hands and never come back, and the newest form of a browser carries the *)
(* token that its session holds.                                           *)
(***************************************************************************)
EXTENDS CsrfTokens, AdminSessionProofs

\* A step of CsrfTokens is a step of the sessions or leaves them alone.
LEMMA SessionStep == [CsrfNext]_csrfVars => [Next]_vars
<1> SUFFICES ASSUME [CsrfNext]_csrfVars PROVE [Next]_vars
  OBVIOUS
<1>1. CASE \E b \in Browsers, w \in Workers, q \in SiteRequests : Send(b, w, q)
  BY <1>1 DEF Send, Next
<1>2. ASSUME NEW w \in Workers,
             \/ LoadSession(w) \/ PassOn(w) \/ Regenerate(w) \/ Destroy(w)
             \/ StoreSession(w)
      PROVE  Next
  BY <1>2 DEF LoadSession, PassOn, Regenerate, Destroy, StoreSession, Next, Step
<1>3. ASSUME NEW w \in Workers, Receive(w)
      PROVE  Next
  BY <1>3 DEF Receive, Next
<1>4. ASSUME NEW w \in Workers, CreateToken(w)
      PROVE  UNCHANGED vars
  BY <1>4 DEF CreateToken
<1>5. CASE Idle
  BY <1>5 DEF Idle, Next
<1>6. CASE UNCHANGED csrfVars
  BY <1>6 DEF csrfVars
<1> QED
  BY <1>1, <1>2, <1>3, <1>4, <1>5, <1>6 DEF CsrfNext

\* The tokens change nothing about the sessions: whatever is proved of
\* AdminSession holds where forms have tokens.
THEOREM SessionsImplemented == CsrfSpec => Spec
<1>1. CsrfInit => Init
  BY DEF CsrfInit
<1> QED
  BY <1>1, SessionStep, PTL DEF CsrfSpec, Spec

\* The initial state has no token.
LEMMA CsrfInitInv == CsrfInit => CsrfInv
<1> SUFFICES ASSUME CsrfInit PROVE CsrfInv
  OBVIOUS
<1> USE DEF CsrfInit, NoToken
<1>1. SessionInv
  BY InitInv
<1>2. CsrfTypes
  BY BoundsAssumption DEF CsrfTypes
<1>3. TokensOwned
  BY DEF TokensOwned, MadeTo
<1> QED
  BY <1>1, <1>2, <1>3 DEF CsrfInv, RequestPhases, TokensGrow, Init
-----------------------------------------------------------------------------
(* Every step preserves the invariant.  A worker that serves a request has *)
(* the same client until the answer is received, and an id in use has its  *)
(* owner for ever; so only the steps that move or make a token matter.     *)

\* What a script's session is to its client.
LEMMA OpenIsOwned ==
  ASSUME SessionInv, NEW w \in Workers, open[w] # NoSid
  PROVE  /\ open[w] \in Sids
         /\ madeFor[open[w]] = client[w]
         /\ client[w] \in Browsers
         /\ open[w] <= lastSid
<1>1. open[w] \in Sids /\ madeFor[open[w]] = client[w]
  BY DEF SessionInv, TypeOK, SessionsOwned, IdsOwned, OwnedBy
<1>2. client[w] \in Browsers
  BY DEF SessionInv, TypeOK, PhasesOK, Unopened
<1>3. open[w] <= lastSid
  BY <1>1, <1>2, NobodyAssumption, BoundsAssumption
     DEF SessionInv, FreshUnused, TypeOK, Sids
<1> QED
  BY <1>1, <1>2, <1>3

\* Ids keep their owners, and one that gets an owner had no token.
LEMMA OwnersStay ==
  ASSUME CsrfInv, NEW w \in Workers, FreshId(w)
  PROVE  /\ lastSid' = lastSid + 1
         /\ kept[lastSid + 1] = NoToken
         /\ \A s \in Sids : s # lastSid + 1 => madeFor'[s] = madeFor[s]
<1>1. lastSid + 1 \in Sids /\ lastSid + 1 > lastSid
  BY FreshIsNew DEF CsrfInv, FreshId, SessionInv, TypeOK
<1> QED
  BY <1>1 DEF CsrfInv, FreshId, SessionInv, TypeOK

\* No form is shown in answer to a login or a logout.
LEMMA NoFormAfterLogin ==
  ASSUME NEW q
  PROVE  IsLogin(q) \/ IsLogout(q) => ~ HasForm(q) /\ ~ IsProtected(q)
BY DEF IsLogin, IsLogout, HasForm, Route, IsProtected, ProtectedMethods

\* The phases of a script keep to its request.
LEMMA PhasesFollowRequests ==
  ASSUME CsrfInv, [CsrfNext]_csrfVars
  PROVE  RequestPhases'
<1> USE DEF CsrfInv, RequestPhases, SessionInv, TypeOK, Goto, wire, ids
<1>1. ASSUME NEW b \in Browsers, NEW w \in Workers, NEW q \in SiteRequests,
             Send(b, w, q)
      PROVE  RequestPhases'
  BY <1>1 DEF Send, Issue
<1>2. ASSUME NEW w \in Workers, LoadSession(w)
      PROVE  RequestPhases'
  <2>1. /\ pc' = [pc EXCEPT ![w] = "opened"] /\ req' = req
        /\ \A v \in Workers : v # w => open'[v] = open[v]
    BY <1>2 DEF LoadSession, StartNewSession, StartKnownSession, FreshId
  <2> QED
    BY <2>1
<1>3. ASSUME NEW w \in Workers, PassOn(w)
      PROVE  RequestPhases'
  <2>1. CASE Dispatch(w)
    <3>1. open[w] # NoSid /\ open' = open /\ req' = req
      BY <2>1 DEF Dispatch, PhasesOK, Unopened
    <3> QED
      BY <2>1, <3>1, NoFormAfterLogin DEF Dispatch
  <2>2. CASE LoginAborted(w)
    BY <2>2, NoFormAfterLogin DEF LoginAborted
  <2>3. CASE GuardPasses(w)
    BY <2>3 DEF GuardPasses
  <2> QED
    BY <1>3, <2>1, <2>2, <2>3 DEF PassOn
<1>4. ASSUME NEW w \in Workers, Regenerate(w)
      PROVE  RequestPhases'
  <2>1. /\ req' = req /\ \A v \in Workers : v # w => open'[v] = open[v]
    BY <1>4 DEF Regenerate, LoginVerified, CompleteLogin, AfterSuccessfulLogin,
                RegenerateId, FreshId
  <2> QED
    BY <1>4, <2>1 DEF Regenerate, LoginVerified, CompleteLogin
<1>5. ASSUME NEW w \in Workers, Destroy(w)
      PROVE  RequestPhases'
  <2>1. /\ req' = req /\ pc' = [pc EXCEPT ![w] = "render"]
        /\ \A v \in Workers : v # w => open'[v] = open[v]
        /\ IsLogin(req[w]) \/ IsLogout(req[w]) \/ IsProtected(req[w])
    BY <1>5 DEF Destroy, LoginRefused, Logout, GuardFails,
                AfterSuccessfulLogout, EndSession
  <2> QED
    BY <2>1, NoFormAfterLogin
<1>6. ASSUME NEW w \in Workers, CreateToken(w)
      PROVE  RequestPhases'
  BY <1>6 DEF CreateToken, vars
<1>7. ASSUME NEW w \in Workers, StoreSession(w) \/ Receive(w)
      PROVE  RequestPhases'
  BY <1>7 DEF StoreSession, Finish, Receive, Deliver, LoseAnswer, Release
<1>8. CASE Idle \/ UNCHANGED csrfVars
  BY <1>8 DEF Idle, Tick, Quiet, csrfVars, vars
<1> QED
  BY <1>1, <1>2, <1>3, <1>4, <1>5, <1>6, <1>7, <1>8 DEF CsrfNext

\* A token only replaces an older one, because a session is open in one script
\* at a time.
LEMMA GrowthPreserved ==
  ASSUME CsrfInv, [CsrfNext]_csrfVars
  PROVE  TokensGrow'
<1> USE DEF CsrfInv, TokensGrow, CsrfTypes, NoToken, Tokens, wire, ids
<1>0. \A v \in Workers : open[v] \in Sids \cup {NoSid}
  BY DEF SessionInv, TypeOK
<1>1. ASSUME NEW b \in Browsers, NEW w \in Workers, NEW q \in SiteRequests,
             Send(b, w, q)
      PROVE  TokensGrow'
  BY <1>1 DEF Send, Issue
<1>2. ASSUME NEW w \in Workers, LoadSession(w)
      PROVE  TokensGrow'
  <2>1. CASE StartNewSession(w) /\ token' = [token EXCEPT ![w] = NoToken]
    <3>1. kept[lastSid + 1] = NoToken /\ open' = [open EXCEPT ![w] = lastSid + 1]
      BY <2>1, OwnersStay DEF StartNewSession, FreshId
    <3> QED
      BY <1>0, <1>2, <2>1, <3>1 DEF LoadSession, SessionInv, TypeOK
  <2>2. CASE StartKnownSession(w) /\ token' = [token EXCEPT ![w] = kept[cookie[w]]]
    <3>1. open' = [open EXCEPT ![w] = cookie[w]] /\ cookie[w] \in Sids
      BY <2>2 DEF StartKnownSession, SessionInv, TypeOK
    <3> QED
      BY <1>0, <1>2, <2>2, <3>1 DEF LoadSession, SessionInv, TypeOK
  <2> QED
    BY <1>2, <2>1, <2>2 DEF LoadSession
<1>3. ASSUME NEW w \in Workers, PassOn(w)
      PROVE  TokensGrow'
  BY <1>3 DEF PassOn, Dispatch, LoginAborted, GuardPasses, tokenVars
<1>4. ASSUME NEW w \in Workers, Regenerate(w)
      PROVE  TokensGrow'
  <2>1. FreshId(w) /\ open[w] # NoSid
    BY <1>4 DEF Regenerate, LoginVerified, CompleteLogin, AfterSuccessfulLogin,
                RegenerateId, Goto, SessionInv, PhasesOK, Unopened
  <2>2. /\ kept[lastSid + 1] = NoToken /\ open[w] # lastSid + 1
        /\ open' = [open EXCEPT ![w] = lastSid + 1]
    BY <2>1, OwnersStay, FreshIsNew DEF FreshId
  <2>3. \A v \in Workers : v # w => open[v] # open[w]
    BY <2>1 DEF SessionInv, LockExclusive
  <2> QED
    BY <1>0, <1>4, <2>2, <2>3 DEF Regenerate, SessionInv, TypeOK
<1>5. ASSUME NEW w \in Workers, Destroy(w)
      PROVE  TokensGrow'
  <2>1. open' = [open EXCEPT ![w] = NoSid]
    BY <1>5 DEF Destroy, LoginRefused, Logout, GuardFails,
                AfterSuccessfulLogout, EndSession
  <2>2. /\ \A v \in Workers : token[v] \in Nat
        /\ \A s \in Sids : kept'[s] \in {kept[s], 0}
        /\ made \in Nat /\ made' = made
    BY <1>5 DEF Destroy
  <2>3. \A v \in Workers : v # w => open'[v] = open[v] /\ token'[v] = token[v]
    BY <1>5, <2>1 DEF Destroy, SessionInv, TypeOK
  <2>4. open'[w] = NoSid /\ token'[w] = 0
    BY <1>5, <2>1 DEF Destroy, SessionInv, TypeOK
  <2>5. ASSUME NEW v \in Workers, v # w, open[v] # NoSid
        PROVE  kept'[open[v]] <= token[v]
    BY <1>0, <2>2, <2>5
  <2> QED
    BY <2>2, <2>3, <2>4, <2>5
<1>6. ASSUME NEW w \in Workers, CreateToken(w)
      PROVE  TokensGrow'
  <2>1. /\ open' = open /\ kept' = kept /\ made' = made + 1
        /\ token' = [token EXCEPT ![w] = made + 1]
    BY <1>6 DEF CreateToken, vars
  <2>2. /\ made \in Nat
        /\ \A s \in Sids : kept[s] \in Nat /\ kept[s] <= made
    BY <1>0
  <2>3. \A v \in Workers : token'[v] <= made'
    BY <1>0, <2>1, <2>2
  <2>4. open[w] # NoSid => kept[open[w]] <= made
    BY <1>0, <2>2
  <2>5. ASSUME NEW v \in Workers, open'[v] # NoSid
        PROVE  kept'[open'[v]] <= token'[v]
    <3>1. CASE v = w
      BY <1>0, <2>1, <2>2, <2>4, <2>5, <3>1
    <3>2. CASE v # w
      BY <1>0, <2>1, <2>5, <3>2
    <3> QED
      BY <3>1, <3>2
  <2> QED
    BY <2>1, <2>2, <2>3, <2>5
<1>7. ASSUME NEW w \in Workers, StoreSession(w)
      PROVE  TokensGrow'
  <2>1. \A v \in Workers : v # w /\ open[v] # NoSid => open[v] # open[w]
    BY DEF SessionInv, LockExclusive
  <2> QED
    BY <1>0, <1>7, <2>1 DEF StoreSession, Finish, SessionInv, TypeOK
<1>8. ASSUME NEW w \in Workers, Receive(w)
      PROVE  TokensGrow'
  BY <1>8 DEF Receive, Deliver, LoseAnswer
<1>9. CASE Idle \/ UNCHANGED csrfVars
  BY <1>9 DEF Idle, Tick, Quiet, csrfVars, vars, tokenVars
<1> QED
  BY <1>1, <1>2, <1>3, <1>4, <1>5, <1>6, <1>7, <1>8, <1>9 DEF CsrfNext

\* Requests and answers move no token but the printed one.
LEMMA SendPreserves ==
  ASSUME CsrfInv, NEW b \in Browsers, NEW w \in Workers, NEW q \in SiteRequests,
         Send(b, w, q), SessionInv', RequestPhases', TokensGrow'
  PROVE  CsrfInv'
<1> USE DEF CsrfInv, Send, Issue, ids, NoToken
<1>1. CsrfTypes'
  BY DEF CsrfTypes
<1>2. TokensOwned'
  <2>1. open[w] = NoSid /\ printed[w] = NoToken
    BY DEF Goto, SessionInv, PhasesOK, Unopened
  <2>2. ASSUME NEW v \in Workers, v # w PROVE client'[v] = client[v]
    BY <2>2 DEF SessionInv, TypeOK
  <2> QED
    BY <2>1, <2>2 DEF TokensOwned, MadeTo, CsrfTypes
<1>3. \A v \in Workers : open'[v] = NoSid => token'[v] = NoToken
  OBVIOUS
<1>4. \A v \in Workers : pc'[v] = "idle" => printed'[v] = NoToken
  BY DEF Goto, SessionInv, TypeOK
<1> QED
  BY <1>1, <1>2, <1>3, <1>4

\* An answer takes the token out of the page and changes no session.
LEMMA ReceivePreserves ==
  ASSUME CsrfInv, NEW w \in Workers, Receive(w), SessionInv', RequestPhases', TokensGrow'
  PROVE  CsrfInv'
<1> USE DEF CsrfInv, Receive, Deliver, LoseAnswer, Release, NoToken
<1>1. CsrfTypes'
  BY DEF CsrfTypes, SessionInv, TypeOK
<1>2. TokensOwned'
  <2>1. open[w] = NoSid
    BY DEF Goto, SessionInv, PhasesOK, Unopened
  <2>2. ASSUME NEW v \in Workers, v # w PROVE client'[v] = client[v]
    BY <2>2 DEF SessionInv, TypeOK
  <2> QED
    BY <2>1, <2>2 DEF TokensOwned, MadeTo, CsrfTypes
<1>3. \A v \in Workers : pc'[v] = "idle" => printed'[v] = NoToken
  BY DEF Goto, SessionInv, TypeOK, CsrfTypes
<1> QED
  BY <1>1, <1>2, <1>3

\* A script starts with the token of the session it loads, or with none under
\* a fresh id.
LEMMA LoadPreserves ==
  ASSUME CsrfInv, NEW w \in Workers, LoadSession(w), SessionInv', RequestPhases', TokensGrow'
  PROVE  CsrfInv'
<1> USE DEF CsrfInv, LoadSession, wire, NoToken
<1>1. CASE StartNewSession(w) /\ token' = [token EXCEPT ![w] = NoToken]
  <2>1. FreshId(w)
    BY <1>1 DEF StartNewSession
  <2>2. /\ lastSid' = lastSid + 1 /\ kept[lastSid + 1] = NoToken
        /\ \A s \in Sids : s # lastSid + 1 => madeFor'[s] = madeFor[s]
    BY <2>1, OwnersStay
  <2>3. UNCHANGED <<client, kept, printed, madeTo, made, latest>>
    BY <1>1 DEF StartNewSession
  <2>4. CsrfTypes'
    BY <1>1, <2>3 DEF CsrfTypes
  <2>5. TokensOwned'
    BY <1>1, <2>2, <2>3 DEF TokensOwned, MadeTo, CsrfTypes
  <2>6. \A s \in Sids : s > lastSid' => kept'[s] = NoToken
    BY <2>2, <2>3 DEF SessionInv, TypeOK, Sids
  <2>7. \A v \in Workers : open'[v] = NoSid => token'[v] = NoToken
    BY <1>1, <2>1 DEF FreshId, CsrfTypes, SessionInv, TypeOK
  <2>8. \A v \in Workers : pc'[v] = "idle" => printed'[v] = NoToken
    BY <1>1, <2>3 DEF StartNewSession, Goto, SessionInv, TypeOK
  <2> QED
    BY <2>3, <2>4, <2>5, <2>6, <2>7, <2>8
<1>2. CASE StartKnownSession(w) /\ token' = [token EXCEPT ![w] = kept[cookie[w]]]
  <2>1. /\ cookie[w] \in Sids /\ madeFor[cookie[w]] = client[w]
        /\ UNCHANGED <<client, kept, printed, madeTo, made, latest, madeFor, lastSid>>
    BY <1>2 DEF StartKnownSession, ids, SessionInv, TypeOK, SessionsOwned,
                IdsOwned, OwnedBy
  <2>2. CsrfTypes'
    BY <1>2, <2>1 DEF CsrfTypes
  <2>3. TokensOwned'
    BY <1>2, <2>1 DEF TokensOwned, MadeTo, CsrfTypes
  <2>4. \A v \in Workers : open'[v] = NoSid => token'[v] = NoToken
    BY <1>2, <2>1 DEF StartKnownSession, CsrfTypes, SessionInv, TypeOK, Sids, NoSid
  <2>5. \A v \in Workers : pc'[v] = "idle" => printed'[v] = NoToken
    BY <1>2, <2>1 DEF StartKnownSession, Goto, SessionInv, TypeOK
  <2> QED
    BY <2>1, <2>2, <2>3, <2>4, <2>5
<1> QED
  BY <1>1, <1>2

\* Steps that neither move nor make a token, nor an id.
LEMMA PassOnPreserves ==
  ASSUME CsrfInv, NEW w \in Workers, PassOn(w), SessionInv', RequestPhases', TokensGrow'
  PROVE  CsrfInv'
<1> USE DEF CsrfInv
<1>1. UNCHANGED <<client, open, madeFor, lastSid, tokenVars>>
  BY DEF PassOn, Dispatch, LoginAborted, GuardPasses, wire, ids
<1>2. \A v \in Workers : pc'[v] = "idle" => pc[v] = "idle"
  BY DEF PassOn, Dispatch, LoginAborted, GuardPasses, Goto, SessionInv, TypeOK
<1> QED
  BY <1>1, <1>2 DEF tokenVars, CsrfTypes, TokensOwned, MadeTo

\* A login leaves a copy of the token under the id it gives up.
LEMMA RegeneratePreserves ==
  ASSUME CsrfInv, NEW w \in Workers, Regenerate(w), SessionInv', RequestPhases', TokensGrow'
  PROVE  CsrfInv'
<1> USE DEF CsrfInv, NoToken
<1>1. /\ FreshId(w) /\ UNCHANGED client
      /\ pc[w] \in {"login", "verified"} /\ pc'[w] \in {"verified", "guard"}
      /\ \A v \in Workers : v # w => pc'[v] = pc[v]
  BY DEF Regenerate, LoginVerified, CompleteLogin, AfterSuccessfulLogin,
         RegenerateId, wire, Goto, SessionInv, TypeOK
<1>2. /\ lastSid' = lastSid + 1 /\ kept[lastSid + 1] = NoToken
      /\ \A s \in Sids : s # lastSid + 1 => madeFor'[s] = madeFor[s]
  BY <1>1, OwnersStay
<1>3. open[w] # NoSid
  BY <1>1 DEF SessionInv, PhasesOK, Unopened
<1>4. open[w] \in Sids /\ madeFor[open[w]] = client[w] /\ open[w] <= lastSid
  BY <1>3, OpenIsOwned
<1>5. CsrfTypes'
  BY <1>4 DEF Regenerate, CsrfTypes
<1>6. open[w] # lastSid + 1
  BY <1>4 DEF SessionInv, TypeOK, Sids
<1>7. TokensOwned'
  BY <1>1, <1>2, <1>4, <1>6 DEF Regenerate, TokensOwned, MadeTo, CsrfTypes
<1>8. \A s \in Sids : s > lastSid' => kept'[s] = NoToken
  BY <1>2, <1>4 DEF Regenerate, CsrfTypes, SessionInv, TypeOK, Sids
<1>9. \A v \in Workers : open'[v] = NoSid => token'[v] = NoToken
  BY <1>1 DEF Regenerate, FreshId, SessionInv, TypeOK, NoSid
<1> QED
  BY <1>1, <1>5, <1>7, <1>8, <1>9 DEF Regenerate

\* A destroyed session has no token, nor has the script that destroyed it.
LEMMA DestroyPreserves ==
  ASSUME CsrfInv, NEW w \in Workers, Destroy(w), SessionInv', RequestPhases', TokensGrow'
  PROVE  CsrfInv'
<1> USE DEF CsrfInv, NoToken
<1>1. /\ UNCHANGED <<client, madeFor, lastSid>> /\ pc'[w] = "render"
      /\ \A v \in Workers : v # w => pc'[v] = pc[v] /\ open'[v] = open[v]
  BY DEF Destroy, LoginRefused, Logout, GuardFails, AfterSuccessfulLogout,
         EndSession, wire, ids, Goto, SessionInv, TypeOK
<1>2. CsrfTypes'
  BY DEF Destroy, CsrfTypes
<1>3. TokensOwned'
  BY <1>1 DEF Destroy, TokensOwned, MadeTo, CsrfTypes
<1>4. \A s \in Sids : s > lastSid' => kept'[s] = NoToken
  BY <1>1 DEF Destroy, CsrfTypes
<1>5. \A v \in Workers : open'[v] = NoSid => token'[v] = NoToken
  BY <1>1 DEF Destroy, CsrfTypes
<1> QED
  BY <1>1, <1>2, <1>3, <1>4, <1>5 DEF Destroy

\* A new token belongs to the client whose script made it.
LEMMA CreatePreserves ==
  ASSUME CsrfInv, NEW w \in Workers, CreateToken(w), SessionInv', RequestPhases', TokensGrow'
  PROVE  CsrfInv'
<1> USE DEF CsrfInv, CreateToken, InForm, NoToken, vars, wire, ids
<1>1. made + 1 \in Tokens /\ made + 1 > made /\ made \in Nat
  BY BoundsAssumption DEF CsrfTypes, Tokens
<1>2. CsrfTypes'
  BY <1>1, BoundsAssumption DEF CsrfTypes, SessionInv, TypeOK, Tokens
<1>3. open[w] # NoSid => client[w] \in Browsers
  BY OpenIsOwned
<1>4. client[w] \in Browsers
  BY DEF SessionInv, PhasesOK, TypeOK
<1>5. \A t \in Tokens : madeTo[t] \in Browsers => t # made + 1
  BY <1>1, NobodyAssumption
<1>6. TokensOwned'
  BY <1>1, <1>4, <1>5 DEF TokensOwned, MadeTo, CsrfTypes
<1>7. \A t \in Tokens : t > made' => madeTo'[t] = Nobody
  BY <1>1 DEF CsrfTypes, Tokens
<1>8. open[w] # NoSid
  BY DEF SessionInv, PhasesOK, Unopened, RequestPhases
<1> QED
  BY <1>2, <1>6, <1>7, <1>8 DEF CsrfTypes

\* At the end of a script its token goes where its session is stored.
LEMMA StorePreserves ==
  ASSUME CsrfInv, NEW w \in Workers, StoreSession(w), SessionInv', RequestPhases', TokensGrow'
  PROVE  CsrfInv'
<1> USE DEF CsrfInv, StoreSession, Finish, wire, ids, NoToken
<1>1. CsrfTypes'
  BY OpenIsOwned DEF CsrfTypes
<1>2. open[w] # NoSid =>
        madeFor[open[w]] = client[w] /\ open[w] <= lastSid /\ open[w] \in Sids
  BY OpenIsOwned
<1>3. TokensOwned'
  BY <1>2 DEF TokensOwned, MadeTo, CsrfTypes
<1>4. \A s \in Sids : s > lastSid' => kept'[s] = NoToken
  BY <1>2 DEF CsrfTypes, SessionInv, TypeOK, Sids
<1>5. \A v \in Workers : open'[v] = NoSid => token'[v] = NoToken
  BY DEF CsrfTypes, SessionInv, TypeOK
<1>6. \A v \in Workers : pc'[v] = "idle" => printed'[v] = NoToken
  BY DEF Goto, SessionInv, TypeOK
<1> QED
  BY <1>1, <1>3, <1>4, <1>5, <1>6

\* Time passes, or nothing happens at all.
LEMMA IdlePreserves ==
  ASSUME CsrfInv, Idle \/ UNCHANGED csrfVars, SessionInv', RequestPhases', TokensGrow'
  PROVE  CsrfInv'
BY DEF CsrfInv, Idle, Tick, Quiet, csrfVars, tokenVars, vars, wire, ids,
       CsrfTypes, TokensOwned, MadeTo

\* Every step preserves the invariant.
LEMMA CsrfNextInv == CsrfInv /\ [CsrfNext]_csrfVars => CsrfInv'
<1> SUFFICES ASSUME CsrfInv, [CsrfNext]_csrfVars PROVE CsrfInv'
  OBVIOUS
<1>1. SessionInv'
  BY SessionStep, NextInv DEF CsrfInv
<1>2. RequestPhases'
  BY PhasesFollowRequests
<1>3. TokensGrow'
  BY GrowthPreserved
<1> QED
  BY <1>1, <1>2, <1>3, SendPreserves, LoadPreserves, PassOnPreserves,
     RegeneratePreserves, DestroyPreserves, CreatePreserves, StorePreserves,
     ReceivePreserves, IdlePreserves DEF CsrfNext

\* The inductive invariant of the tokens holds in every reachable state.
THEOREM CsrfInvariant == CsrfSpec => []CsrfInv
<1> QED
  BY CsrfInitInv, CsrfNextInv, PTL DEF CsrfSpec

\* A session's token was made for the browser the session belongs to.
THEOREM TokensNeverMix == CsrfSpec => []TokensOwned
<1>1. CsrfInv => TokensOwned
  BY DEF CsrfInv
<1> QED
  BY <1>1, CsrfInvariant, PTL

\* The stored token of a session changes to a newer one or goes.
LEMMA KeptStep ==
  ASSUME CsrfInv, [CsrfNext]_csrfVars, NEW s \in Sids, kept'[s] # kept[s]
  PROVE  kept'[s] = NoToken \/ kept'[s] > kept[s]
<1> USE DEF CsrfInv, CsrfTypes, Tokens, NoToken
<1>1. PICK w \in Workers : Regenerate(w) \/ Destroy(w) \/ StoreSession(w)
  BY DEF CsrfNext, Send, LoadSession, PassOn, CreateToken, Receive, Idle,
         csrfVars, tokenVars
<1>2. CASE Destroy(w)
  BY <1>2 DEF Destroy
<1>3. CASE Regenerate(w) \/ StoreSession(w)
  <2>1. s = open[w] /\ kept'[s] = token[w]
    BY <1>3 DEF Regenerate, StoreSession
  <2>2. open[w] # NoSid
    BY <2>1 DEF Sids, NoSid
  <2> QED
    BY <2>1, <2>2 DEF TokensGrow
<1> QED
  BY <1>1, <1>2, <1>3

\* A replaced token never comes back to its session.
THEOREM TokensNeverRevived == CsrfSpec => NoTokenRevived
<1>1. CsrfInv /\ [CsrfNext]_csrfVars =>
        [\A s \in Sids :
            kept'[s] # kept[s] =>
                kept'[s] = NoToken \/ kept'[s] > kept[s]]_csrfVars
  BY KeptStep
<1> QED
  BY <1>1, CsrfInvariant, PTL DEF CsrfSpec, NoTokenRevived
-----------------------------------------------------------------------------
(* The newest form of a browser.                                           *)

\* The token that an answer brings is the one in the script's session, and as
\* long as no other request of the browser overlaps it stays there.
PrintedAt(w) ==
    printed[w] # NoToken =>
        /\ HasForm(req[w])
        /\ pc[w] \in {"page", "render", "sentPage", "sent"}
        /\ pc[w] \in {"page", "render"} => open[w] # NoSid /\ token[w] = printed[w]
        /\ pc[w] \in {"sentPage", "sent"} /\ overlap[w] = {} =>
              OwnSid(w) # NoSid /\ kept[OwnSid(w)] = printed[w]

\* A browser that may rely on its newest form has nothing in flight that would
\* put another token into the session of its jar, or take it away.
LatestAt(b) ==
    latest[b] # NoToken =>
        /\ jar[b] # NoSid
        /\ kept[jar[b]] = latest[b]
        /\ \A w \in Workers : client[w] = b =>
              /\ cookie[w] = jar[b]
              /\ ~ HasForm(req[w]) /\ ~ IsProtected(req[w])
              /\ ~ IsLogin(req[w]) /\ ~ IsLogout(req[w])
              /\ open[w] # NoSid => token[w] = latest[b]

\* The inductive invariant behind LatestFormMatches.
FormInv == /\ \A w \in Workers : PrintedAt(w)
           /\ \A b \in Browsers : LatestAt(b)

\* No script runs before the first request.
LEMMA FormInit == CsrfInit => FormInv
<1> QED
  BY DEF CsrfInit, FormInv, PrintedAt, LatestAt, NoToken

\* What the steps of a script that move its token do to the tokens.
MovesToken(w) ==
    LoadSession(w) \/ PassOn(w) \/ Regenerate(w) \/ Destroy(w) \/ StoreSession(w)

\* A script that moves its token touches no other script, no other session and
\* no page.
LEMMA MovedTokens ==
  ASSUME CsrfInv, NEW w \in Workers, MovesToken(w)
  PROVE  /\ Step(w)
         /\ printed' = printed /\ latest' = latest
         /\ \A v \in Workers : v # w => token'[v] = token[v]
         /\ \A s \in Sids : s # open[w] => kept'[s] = kept[s]
<1> USE DEF CsrfInv, CsrfTypes
<1>1. CASE LoadSession(w)
  BY <1>1 DEF LoadSession, Step
<1>2. CASE PassOn(w)
  BY <1>2 DEF PassOn, tokenVars, Step
<1>3. CASE Regenerate(w)
  BY <1>3 DEF Regenerate, Step
<1>4. CASE Destroy(w)
  BY <1>4 DEF Destroy, Step
<1>5. CASE StoreSession(w)
  BY <1>5 DEF StoreSession, Step
<1> QED
  BY <1>1, <1>2, <1>3, <1>4, <1>5 DEF MovesToken

\* The id an answer leads to belongs to the browser that gets the answer.
LEMMA OwnSidOwned ==
  ASSUME SessionInv, NEW w \in Workers, OwnSid(w) # NoSid
  PROVE  OwnSid(w) \in Sids /\ madeFor[OwnSid(w)] = client[w]
BY DEF SessionInv, TypeOK, SessionsOwned, IdsOwned, OwnedBy, OwnSid

\* The token that an answer brings stays where it is stored.
LEMMA MoveKeepsPrinted ==
  ASSUME CsrfInv, StandingInv, FormInv, NEW w \in Workers, MovesToken(w),
         NEW v \in Workers
  PROVE  PrintedAt(v)'
<1> USE DEF FormInv
<1>1. /\ Step(w) /\ printed' = printed /\ latest' = latest
      /\ \A u \in Workers : u # w => token'[u] = token[u]
      /\ \A s \in Sids : s # open[w] => kept'[s] = kept[s]
  BY MovedTokens
<1>2. /\ UNCHANGED <<req, client, cookie, overlap>>
      /\ client[w] \in Browsers /\ pc[w] \notin {"idle", "sentPage", "sent"}
      /\ \A u \in Workers : u # w =>
            pc'[u] = pc[u] /\ open'[u] = open[u] /\ setCookie'[u] = setCookie[u]
  BY <1>1, StepIsLocal DEF CsrfInv
<1>3. SUFFICES ASSUME printed[v] # NoToken PROVE PrintedAt(v)'
  BY <1>1 DEF PrintedAt
<1>4. PrintedAt(v)
  OBVIOUS
<1>5. CASE v # w
  <2>1. OwnSid(v)' = OwnSid(v)
    BY <1>2, <1>5 DEF OwnSid
  <2>2. ASSUME overlap[v] = {}, OwnSid(v) # NoSid
        PROVE  kept'[OwnSid(v)] = kept[OwnSid(v)]
    <3>1. client[v] \in Browsers
      BY <1>3, <1>4 DEF PrintedAt, CsrfInv, SessionInv, TypeOK, PhasesOK
    <3>2. client[v] # client[w]
      BY <1>5, <2>2, <3>1, NobodyAssumption DEF StandingInv, OverlapsKnown
    <3>3. OwnSid(v) \in Sids /\ madeFor[OwnSid(v)] = client[v]
      BY <2>2, OwnSidOwned DEF CsrfInv
    <3>4. OwnSid(v) # open[w]
      BY <2>2, <3>2, <3>3, OpenIsOwned DEF CsrfInv
    <3> QED
      BY <1>1, <3>3, <3>4
  <2> QED
    BY <1>1, <1>2, <1>3, <1>4, <1>5, <2>1, <2>2 DEF PrintedAt
<1>6. CASE v = w
  <2>1. pc[w] \in {"page", "render"} /\ open[w] # NoSid /\ token[w] = printed[w]
    BY <1>2, <1>3, <1>4, <1>6 DEF PrintedAt
  <2>2. StoreSession(w)
    BY <2>1 DEF MovesToken, LoadSession, StartNewSession, StartKnownSession,
       PassOn, Dispatch, LoginAborted, GuardPasses, Regenerate, LoginVerified,
       CompleteLogin, Destroy, LoginRefused, Logout, GuardFails, Goto
  <2>3. pc'[w] \in {"sentPage", "sent"} /\ setCookie' = setCookie
    BY <2>2, FinishEffect DEF StoreSession, CsrfInv
  <2>4. open[w] = OwnSid(w)
    BY <2>1 DEF StandingInv, OwnAt
  <2>5. OwnSid(w)' = OwnSid(w)
    BY <1>2, <2>3 DEF OwnSid
  <2>6. kept'[open[w]] = token[w]
    BY <2>1, <2>2, OpenIsOwned DEF StoreSession, CsrfInv, CsrfTypes
  <2> QED
    BY <1>1, <1>2, <1>4, <1>6, <2>1, <2>3, <2>4, <2>5, <2>6 DEF PrintedAt
<1> QED
  BY <1>5, <1>6

\* While a browser may rely on its newest form, its scripts only carry that
\* form's token back and forth.
LEMMA MoveKeepsLatest ==
  ASSUME CsrfInv, StandingInv, FormInv, NEW w \in Workers, MovesToken(w),
         NEW b \in Browsers
  PROVE  LatestAt(b)'
<1> USE DEF FormInv
<1>1. /\ Step(w) /\ printed' = printed /\ latest' = latest
      /\ \A u \in Workers : u # w => token'[u] = token[u]
      /\ \A s \in Sids : s # open[w] => kept'[s] = kept[s]
  BY MovedTokens
<1>2. /\ UNCHANGED <<req, client, cookie, jar>>
      /\ \A u \in Workers : u # w => open'[u] = open[u]
  BY <1>1, StepIsLocal DEF CsrfInv
<1>3. SUFFICES ASSUME latest[b] # NoToken PROVE LatestAt(b)'
  BY <1>1 DEF LatestAt
<1>4. LatestAt(b)
  OBVIOUS
<1>5. jar[b] \in Sids /\ jar[b] # NoSid /\ madeFor[jar[b]] = b
  BY <1>3, <1>4 DEF LatestAt, CsrfInv, SessionInv, TypeOK, SessionsOwned,
                    IdsOwned, OwnedBy
<1>6. CASE client[w] # b
  <2>1. open[w] # jar[b]
    BY <1>5, <1>6, OpenIsOwned DEF CsrfInv
  <2> QED
    BY <1>1, <1>2, <1>3, <1>4, <1>5, <1>6, <2>1 DEF LatestAt
<1>7. CASE client[w] = b
  <2>1. /\ cookie[w] = jar[b] /\ kept[jar[b]] = latest[b]
        /\ ~ IsProtected(req[w]) /\ ~ IsLogin(req[w]) /\ ~ IsLogout(req[w])
        /\ open[w] # NoSid => token[w] = latest[b]
    BY <1>3, <1>4, <1>7 DEF LatestAt
  <2>2. open[w] = NoSid \/ open[w] = jar[b]
    BY <1>5, <2>1 DEF StandingInv, OwnAt, OwnSid
  <2>3. pc[w] \notin {"login", "verified", "logout", "guard"}
    BY <2>1 DEF CsrfInv, RequestPhases
  <2>4. SUFFICES /\ kept'[jar[b]] = latest[b]
                 /\ open'[w] # NoSid => token'[w] = latest[b]
    BY <1>1, <1>2, <1>3, <1>4 DEF LatestAt
  <2>5. CASE LoadSession(w)
    <3>1. StartKnownSession(w) /\ token' = [token EXCEPT ![w] = kept[cookie[w]]]
      BY <1>5, <2>1, <2>5 DEF LoadSession, StartNewSession
    <3> QED
      BY <2>1, <2>5, <3>1 DEF LoadSession, CsrfInv, CsrfTypes
  <2>6. CASE PassOn(w)
    BY <2>1, <2>6 DEF PassOn, tokenVars, Dispatch, LoginAborted, GuardPasses
  <2>7. CASE Regenerate(w) \/ Destroy(w)
    BY <2>3, <2>7 DEF Regenerate, LoginVerified, CompleteLogin, Destroy,
                      LoginRefused, Logout, GuardFails, Goto
  <2>8. CASE StoreSession(w)
    <3>1. open'[w] = NoSid
      BY <2>8, FinishEffect DEF StoreSession, CsrfInv
    <3>2. kept'[jar[b]] = IF open[w] = NoSid THEN kept[jar[b]] ELSE token[w]
      BY <1>5, <2>2, <2>8 DEF StoreSession, CsrfInv, CsrfTypes
    <3> QED
      BY <2>1, <3>1, <3>2
  <2> QED
    BY <2>5, <2>6, <2>7, <2>8 DEF MovesToken
<1> QED
  BY <1>6, <1>7

\* A new token only comes into the session of a browser that has asked for a
\* form.
LEMMA CreateKeepsForms ==
  ASSUME CsrfInv, StandingInv, FormInv, NEW w \in Workers, CreateToken(w)
  PROVE  FormInv'
<1> USE DEF FormInv
<1>1. /\ UNCHANGED <<req, pc, open, overlap, client, cookie, setCookie, jar>>
      /\ UNCHANGED <<kept, latest>>
      /\ token' = [token EXCEPT ![w] = made + 1]
      /\ printed' = [printed EXCEPT ![w] = made + 1]
      /\ HasForm(req[w]) /\ pc[w] \in {"page", "render"}
  BY DEF CreateToken, InForm, vars, wire, ids
<1>2. open[w] # NoSid
  BY DEF CreateToken, InForm, CsrfInv, SessionInv, PhasesOK, Unopened,
         RequestPhases
<1>3. ASSUME NEW v \in Workers PROVE PrintedAt(v)'
  <2>1. PrintedAt(v)
    OBVIOUS
  <2> QED
    BY <1>1, <1>2, <2>1 DEF PrintedAt, OwnSid, CsrfInv, CsrfTypes
<1>4. ASSUME NEW b \in Browsers PROVE LatestAt(b)'
  <2>1. LatestAt(b)
    OBVIOUS
  <2> QED
    BY <1>1, <2>1 DEF LatestAt, CsrfInv, CsrfTypes
<1> QED
  BY <1>3, <1>4

\* A request that might change the token ends what its browser may rely on.
LEMMA SendKeepsForms ==
  ASSUME CsrfInv, StandingInv, FormInv,
         NEW b \in Browsers, NEW w \in Workers, NEW q \in SiteRequests,
         Send(b, w, q)
  PROVE  FormInv'
<1> USE DEF FormInv
<1>0. SessionInv /\ Issue(b, w, q)
  BY DEF CsrfInv, Send
<1>1. /\ pc[w] = "idle" /\ client'[w] = b /\ req'[w] = q /\ cookie'[w] = jar[b]
      /\ open[w] = NoSid
      /\ UNCHANGED <<jar, setCookie, open>>
  BY <1>0, IssueEffect
<1>2. \A v \in Workers : v # w =>
         /\ pc'[v] = pc[v] /\ client'[v] = client[v] /\ req'[v] = req[v]
         /\ cookie'[v] = cookie[v]
         /\ overlap'[v] = {} => overlap[v] = {}
  <2>1. SUFFICES ASSUME NEW v \in Workers, v # w
                 PROVE  /\ pc'[v] = pc[v] /\ client'[v] = client[v]
                        /\ req'[v] = req[v] /\ cookie'[v] = cookie[v]
                        /\ overlap'[v] = {} => overlap[v] = {}
    OBVIOUS
  <2>2. /\ pc'[v] = pc[v] /\ client'[v] = client[v]
        /\ req'[v] = req[v] /\ cookie'[v] = cookie[v]
        /\ \/ overlap'[v] = overlap[v]
           \/ overlap'[v] = overlap[v] \cup {Kind(q)}
    <3>1. \A u \in Workers : u # w =>
             /\ pc'[u] = pc[u] /\ client'[u] = client[u] /\ req'[u] = req[u]
             /\ cookie'[u] = cookie[u]
             /\ overlap'[u] = IF client[u] = b THEN overlap[u] \cup {Kind(q)}
                                               ELSE overlap[u]
      BY <1>0, IssueEffect
    <3> QED
      BY <2>1, <3>1
  <2>3. Kind(q) \in overlap[v] \cup {Kind(q)}
    OBVIOUS
  <2> QED
    BY <2>2, <2>3
<1>3. /\ UNCHANGED <<kept, token, printed>>
      /\ \A c \in Browsers : c # b => latest'[c] = latest[c]
      /\ latest'[b] # NoToken =>
            /\ latest'[b] = latest[b]
            /\ ~ HasForm(q) /\ ~ IsProtected(q) /\ ~ IsLogin(q) /\ ~ IsLogout(q)
  BY DEF Send, CsrfInv, CsrfTypes
<1>4. printed[w] = NoToken
  BY <1>1 DEF CsrfInv
<1>5. ASSUME NEW v \in Workers PROVE PrintedAt(v)'
  <2>1. PrintedAt(v)
    OBVIOUS
  <2>2. CASE v = w
    BY <1>3, <1>4, <2>2 DEF PrintedAt
  <2>3. CASE v # w
    BY <1>1, <1>2, <1>3, <2>1, <2>3 DEF PrintedAt, OwnSid
  <2> QED
    BY <2>2, <2>3
<1>6. ASSUME NEW c \in Browsers PROVE LatestAt(c)'
  <2>1. LatestAt(c)
    OBVIOUS
  <2> QED
    BY <1>1, <1>2, <1>3, <2>1 DEF LatestAt
<1> QED
  BY <1>5, <1>6

\* An answer without a token leaves the jar and the token as they are; one with
\* a token that nothing overlapped leads the jar to it.
LEMMA ReceiveKeepsForms ==
  ASSUME CsrfInv, StandingInv, FormInv, NEW w \in Workers, Receive(w)
  PROVE  FormInv'
<1> USE DEF FormInv
<1> DEFINE b == client[w]
<1>0. SessionInv /\ (Deliver(w) \/ LoseAnswer(w))
  BY DEF CsrfInv, Receive
<1>1. /\ b \in Browsers /\ client'[w] = Nobody
      /\ pc[w] \in {"sentPage", "sent"}
      /\ open' = open
      /\ \A c \in Browsers : c # b => jar'[c] = jar[c]
      /\ jar'[b] \in {jar[b]} \cup ({setCookie[w]} \ {NoSid})
  BY <1>0, AnswerEffect
<1>2. \A v \in Workers : v # w =>
         /\ pc'[v] = pc[v] /\ setCookie'[v] = setCookie[v]
         /\ client'[v] = client[v] /\ req'[v] = req[v]
         /\ cookie'[v] = cookie[v] /\ overlap'[v] = overlap[v]
  BY <1>0, AnswerEffect
<1>3. /\ UNCHANGED <<kept, token>>
      /\ printed' = [printed EXCEPT ![w] = NoToken]
      /\ \/ latest' = latest
         \/ /\ latest' = [latest EXCEPT ![b] = printed[w]]
            /\ Deliver(w) /\ printed[w] # NoToken /\ overlap[w] = {}
  BY DEF Receive, CsrfInv, CsrfTypes
<1>4. ASSUME NEW v \in Workers PROVE PrintedAt(v)'
  <2>1. PrintedAt(v)
    OBVIOUS
  <2>2. CASE v = w
    BY <1>3, <2>2 DEF PrintedAt, CsrfInv, CsrfTypes
  <2>3. CASE v # w
    BY <1>1, <1>2, <1>3, <2>1, <2>3 DEF PrintedAt, OwnSid, CsrfInv, CsrfTypes
  <2> QED
    BY <2>2, <2>3
<1>5. ASSUME NEW c \in Browsers PROVE LatestAt(c)'
  <2>1. LatestAt(c)
    OBVIOUS
  <2>2. \A v \in Workers : client'[v] = c => v # w /\ client[v] = c
    BY <1>1, <1>2, NobodyAssumption
  <2>3. CASE latest'[c] = latest[c]
    <3>1. latest[c] # NoToken => jar'[c] = jar[c]
      <4>1. SUFFICES ASSUME latest[c] # NoToken, c = b PROVE jar'[c] = jar[c]
        BY <1>1
      <4>2. cookie[w] = jar[c] /\ jar[c] # NoSid /\ ~ IsLogin(req[w])
        BY <2>1, <4>1 DEF LatestAt
      <4>3. setCookie[w] = NoSid
        BY <4>2 DEF StandingInv, OwnAt
      <4> QED
        BY <1>1, <4>1, <4>3
    <3> QED
      BY <1>1, <1>2, <1>3, <2>1, <2>2, <2>3, <3>1 DEF LatestAt
  <2>4. CASE latest'[c] # latest[c]
    <3>1. /\ c = b /\ latest'[c] = printed[w]
          /\ Deliver(w) /\ printed[w] # NoToken /\ overlap[w] = {}
      BY <1>1, <1>3, <2>4 DEF CsrfInv, CsrfTypes
    <3>2. PrintedAt(w) /\ JarAt(w)
      BY DEF StandingInv
    <3>3. jar[b] = cookie[w]
      BY <1>1, <3>1, <3>2, NobodyAssumption DEF JarAt
    <3>4. jar'[b] = OwnSid(w)
      BY <1>1, <3>1, <3>3 DEF Deliver, OwnSid, CsrfInv, SessionInv, TypeOK
    <3>5. OwnSid(w) # NoSid /\ kept[OwnSid(w)] = printed[w]
      BY <1>1, <3>1, <3>2 DEF PrintedAt
    <3>6. \A v \in Workers : client'[v] # c
      BY <1>1, <2>2, <3>1, NobodyAssumption DEF StandingInv, OverlapsKnown
    <3> QED
      BY <1>3, <3>1, <3>4, <3>5, <3>6 DEF LatestAt
  <2> QED
    BY <2>3, <2>4
<1> QED
  BY <1>4, <1>5

\* Together with the invariants of the sessions FormInv is inductive.
LEMMA FormNext ==
  CsrfInv /\ StandingInv /\ FormInv /\ [CsrfNext]_csrfVars => FormInv'
<1> SUFFICES ASSUME CsrfInv, StandingInv, FormInv, [CsrfNext]_csrfVars
             PROVE  FormInv'
  OBVIOUS
<1>1. CASE \E b \in Browsers, w \in Workers, q \in SiteRequests : Send(b, w, q)
  BY <1>1, SendKeepsForms
<1>2. ASSUME NEW w \in Workers, MovesToken(w) PROVE FormInv'
  BY <1>2, MoveKeepsPrinted, MoveKeepsLatest DEF FormInv
<1>3. ASSUME NEW w \in Workers, CreateToken(w) \/ Receive(w) PROVE FormInv'
  BY <1>3, CreateKeepsForms, ReceiveKeepsForms
<1>4. CASE Idle \/ UNCHANGED csrfVars
  <2>1. /\ UNCHANGED tokenVars
        /\ UNCHANGED <<req, pc, open, overlap, client, cookie, setCookie, jar>>
    BY <1>4 DEF Idle, Tick, Quiet, csrfVars, vars, wire, ids
  <2> QED
    BY <2>1 DEF tokenVars, FormInv, PrintedAt, LatestAt, OwnSid
<1> QED
  BY <1>1, <1>2, <1>3, <1>4 DEF CsrfNext, MovesToken

\* The newest form of a browser that nothing overlapped would pass the check of
\* its token, until the browser asks for another form, a protected page, a
\* login or a logout.
THEOREM LatestFormsMatch == CsrfSpec => []LatestFormMatches
<1>1. CsrfSpec => []StandingInv
  BY SessionsImplemented, StandingInvariant, PTL
<1>2. FormInv => LatestFormMatches
  BY DEF FormInv, LatestAt, LatestFormMatches
<1> QED
  BY <1>1, <1>2, FormInit, FormNext, CsrfInvariant, PTL DEF CsrfSpec
=============================================================================
