------------------------- MODULE AdminSessionProofs -------------------------
(***************************************************************************)
(* What AdminSession promises for every number of browsers, scripts,       *)
(* requests and ids: the inductive invariant SessionInv, and from it that  *)
(* a protected page follows a login of its own browser and that no script  *)
(* overwrites another's session; and on top of it StandingInv, from which  *)
(* a login and a logout hold for the browser that made them.               *)
(***************************************************************************)
EXTENDS AdminSession, TLAPS

\* The actions of a script that leave every session and every id alone.
QuietStep(w) == Dispatch(w) \/ LoginAborted(w) \/ GuardPasses(w)

\* The actions that give the script a fresh id and store its data, if any.
LoginStep(w) == LoginVerified(w) \/ CompleteLogin(w)

\* The actions that destroy the session of the script.
EndStep(w) == LoginRefused(w) \/ Logout(w) \/ GuardFails(w)

\* The initial state has no session and no script.
LEMMA InitInv == Init => SessionInv
<1> SUFFICES ASSUME Init PROVE SessionInv
  OBVIOUS
<1> USE BoundsAssumption, NobodyAssumption DEF Init, NoSid, NoTime, Sids, Times
<1>1. TypeOK
  BY DEF TypeOK, Data, Empty, PCs
<1>2. FreshUnused /\ PhasesOK /\ LockExclusive
  BY DEF FreshUnused, PhasesOK, LockExclusive, Unopened
<1>3. SessionsOwned
  BY DEF SessionsOwned, IdsOwned, LoginsOwned, OwnedBy, LoginOf, Empty
<1> QED
  BY <1>1, <1>2, <1>3 DEF SessionInv

\* A new id is one that nothing uses yet.
LEMMA FreshIsNew ==
  ASSUME SessionInv, lastSid < MaxSid
  PROVE  /\ lastSid + 1 \in Sids
         /\ lastSid + 1 # NoSid
         /\ madeFor[lastSid + 1] = Nobody
         /\ store[lastSid + 1] = Empty
         /\ \A b \in Browsers : jar[b] # lastSid + 1
         /\ \A w \in Workers : open[w] # lastSid + 1
         /\ \A w \in Workers : cookie[w] # lastSid + 1
         /\ \A w \in Workers : setCookie[w] # lastSid + 1
<1>1. lastSid + 1 \in Sids /\ lastSid + 1 # NoSid /\ lastSid + 1 > lastSid
  BY BoundsAssumption DEF SessionInv, TypeOK, Sids, NoSid
<1>2. madeFor[lastSid + 1] = Nobody /\ store[lastSid + 1] = Empty
  BY <1>1 DEF SessionInv, FreshUnused
<1>3. \A b \in Browsers : jar[b] # lastSid + 1
  BY <1>1, <1>2, NobodyAssumption DEF SessionInv, SessionsOwned, IdsOwned, OwnedBy
<1>4. ASSUME NEW w \in Workers
      PROVE  /\ open[w] # lastSid + 1
             /\ cookie[w] # lastSid + 1
             /\ setCookie[w] # lastSid + 1
  <2>1. CASE pc[w] = "idle"
    BY <1>1, <2>1 DEF SessionInv, PhasesOK, Unopened
  <2>2. CASE pc[w] # "idle"
    BY <1>1, <1>2, <2>2 DEF SessionInv, PhasesOK, SessionsOwned, IdsOwned, OwnedBy
  <2> QED
    BY <2>1, <2>2
<1> QED
  BY <1>1, <1>2, <1>3, <1>4

-----------------------------------------------------------------------------
(* Each kind of step preserves the invariant.                              *)

\* Sending a request touches no session.
LEMMA IssuePreserves ==
  ASSUME SessionInv,
         NEW b \in Browsers, NEW w \in Workers, NEW q \in SiteRequests,
         Issue(b, w, q)
  PROVE  SessionInv'
<1> USE DEF SessionInv, Issue, Goto, ids
<1>1. pc[w] = "idle" /\ client[w] = Nobody /\ open[w] = NoSid /\ sess[w] = Empty
  BY DEF PhasesOK, Unopened, TypeOK
<1>2. TypeOK'
  <2>1. overlap' \in [Workers -> SUBSET Kinds]
    BY DEF TypeOK, Kinds, Kind
  <2>2. standing' \in [Browsers -> {"in", "out", "unknown"}]
    BY DEF TypeOK
  <2>3. pc' \in [Workers -> PCs] /\ issued' \in 0 .. MaxRequests
    BY BoundsAssumption DEF TypeOK, PCs
  <2> QED
    BY <2>1, <2>2, <2>3 DEF TypeOK
<1>3. FreshUnused' /\ LockExclusive'
  BY DEF FreshUnused, LockExclusive
<1>4. PhasesOK'
  BY <1>1, NobodyAssumption DEF PhasesOK, Unopened, TypeOK
<1>5. IdsOwned'
  <2>1. \A c \in Browsers : OwnedBy(jar[c], c)'
    BY DEF SessionsOwned, IdsOwned, OwnedBy
  <2>2. ASSUME NEW v \in Workers
        PROVE  OwnedBy(cookie[v], client[v])' /\ OwnedBy(open[v], client[v])'
               /\ OwnedBy(setCookie[v], client[v])'
    <3>1. CASE v = w
      BY <1>1, <3>1 DEF SessionsOwned, IdsOwned, OwnedBy, TypeOK, PhasesOK
    <3>2. CASE v # w
      BY <3>2 DEF SessionsOwned, IdsOwned, OwnedBy, TypeOK
    <3> QED
      BY <3>1, <3>2
  <2> QED
    BY <2>1, <2>2 DEF IdsOwned
<1>6. LoginsOwned'
  BY <1>1 DEF SessionsOwned, LoginsOwned, LoginOf, TypeOK, Empty
<1> QED
  BY <1>2, <1>3, <1>4, <1>5, <1>6 DEF SessionsOwned

\* An answer that arrives or is lost leaves the script without any id.
LEMMA AnswerPreserves ==
  ASSUME SessionInv, NEW w \in Workers, Deliver(w) \/ LoseAnswer(w)
  PROVE  SessionInv'
<1> USE DEF SessionInv, Deliver, LoseAnswer, Release, Goto
<1>1. /\ pc[w] \in {"sentPage", "sent"}
      /\ pc' = [pc EXCEPT ![w] = "idle"]
      /\ client' = [client EXCEPT ![w] = Nobody]
      /\ cookie' = [cookie EXCEPT ![w] = NoSid]
      /\ setCookie' = [setCookie EXCEPT ![w] = NoSid]
      /\ UNCHANGED <<clock, issued, lastSid, madeFor, store, open, sess, logins>>
  OBVIOUS
<1>2. client[w] \in Browsers /\ open[w] = NoSid /\ sess[w] = Empty
  BY <1>1 DEF PhasesOK, Unopened, TypeOK
<1>3. TypeOK'
  <2>1. jar' \in [Browsers -> Sids \cup {NoSid}]
    BY <1>2 DEF TypeOK
  <2>2. standing' \in [Browsers -> {"in", "out", "unknown"}]
    BY <1>2 DEF TypeOK
  <2>3. req' \in [Workers -> SiteRequests \cup {NoRequest}]
        /\ overlap' \in [Workers -> SUBSET Kinds]
    BY DEF TypeOK
  <2>4. pc' \in [Workers -> PCs]
    BY <1>1 DEF TypeOK, PCs
  <2> QED
    BY <1>1, <2>1, <2>2, <2>3, <2>4 DEF TypeOK
<1>4. FreshUnused' /\ LockExclusive'
  BY <1>1 DEF FreshUnused, LockExclusive
<1>5. PhasesOK'
  BY <1>1, <1>2 DEF PhasesOK, Unopened, TypeOK
<1>6. IdsOwned'
  <2>1. \A b \in Browsers : OwnedBy(jar'[b], b)
    BY <1>2 DEF SessionsOwned, IdsOwned, OwnedBy, TypeOK
  <2> QED
    BY <1>1, <1>2, <2>1 DEF SessionsOwned, IdsOwned, OwnedBy, TypeOK
<1>7. LoginsOwned'
  BY <1>1, <1>2 DEF SessionsOwned, LoginsOwned, LoginOf, TypeOK, Empty
<1> QED
  BY <1>3, <1>4, <1>5, <1>6, <1>7 DEF SessionsOwned

\* session_start(): a new client gets a fresh id; a known one waits until
\* nobody else holds its id, and then holds it alone.
LEMMA StartPreserves ==
  ASSUME SessionInv, NEW w \in Workers,
         StartNewSession(w) \/ StartKnownSession(w)
  PROVE  SessionInv'
<1> USE DEF SessionInv, Goto, wire, ids
<1>1. /\ pc[w] = "queued" /\ client[w] \in Browsers
      /\ open[w] = NoSid /\ sess[w] = Empty
  BY DEF StartNewSession, StartKnownSession, PhasesOK, Unopened, TypeOK
<1>2. CASE StartNewSession(w)
  <2> DEFINE new == lastSid + 1
  <2>1. /\ new \in Sids /\ new # NoSid /\ madeFor[new] = Nobody
        /\ store[new] = Empty
        /\ \A b \in Browsers : jar[b] # new
        /\ \A v \in Workers : open[v] # new /\ cookie[v] # new /\ setCookie[v] # new
    BY <1>2, FreshIsNew DEF StartNewSession, FreshId
  <2>2. /\ lastSid' = new
        /\ madeFor' = [madeFor EXCEPT ![new] = client[w]]
        /\ open' = [open EXCEPT ![w] = new]
        /\ setCookie' = [setCookie EXCEPT ![w] = new]
        /\ pc' = [pc EXCEPT ![w] = "opened"]
        /\ UNCHANGED <<clock, issued, jar, req, client, cookie, overlap, store,
                       sess, logins, standing>>
    BY <1>2 DEF StartNewSession, FreshId
  <2> HIDE DEF new
  <2>3. TypeOK'
    <3>1. lastSid' \in 0 .. MaxSid /\ pc' \in [Workers -> PCs]
      BY <2>1, <2>2, BoundsAssumption DEF TypeOK, PCs, Sids
    <3> QED
      BY <1>1, <2>1, <2>2, <3>1 DEF TypeOK
  <2>4. FreshUnused'
    BY <2>1, <2>2, BoundsAssumption DEF FreshUnused, TypeOK, Sids, new
  <2>5. PhasesOK'
    BY <1>1, <2>1, <2>2 DEF PhasesOK, Unopened, TypeOK
  <2>6. LockExclusive'
    BY <2>1, <2>2 DEF LockExclusive, TypeOK
  <2>7. IdsOwned'
    BY <1>1, <2>1, <2>2 DEF SessionsOwned, IdsOwned, OwnedBy, TypeOK
  <2>8. LoginsOwned'
    BY <2>1, <2>2 DEF SessionsOwned, LoginsOwned, LoginOf, TypeOK, Empty
  <2> QED
    BY <2>3, <2>4, <2>5, <2>6, <2>7, <2>8 DEF SessionsOwned
<1>3. CASE StartKnownSession(w)
  <2>1. /\ cookie[w] \in Sids /\ cookie[w] # NoSid
        /\ \A v \in Workers : open[v] # cookie[w]
        /\ open' = [open EXCEPT ![w] = cookie[w]]
        /\ sess' = [sess EXCEPT ![w] = store[cookie[w]]]
        /\ pc' = [pc EXCEPT ![w] = "opened"]
        /\ UNCHANGED <<clock, issued, jar, req, client, cookie, overlap, store,
                       lastSid, setCookie, madeFor, logins, standing>>
    BY <1>3 DEF StartKnownSession, TypeOK
  <2>2. TypeOK'
    <3>1. pc' \in [Workers -> PCs]
      BY <2>1 DEF TypeOK, PCs
    <3> QED
      BY <2>1, <3>1 DEF TypeOK
  <2>3. FreshUnused'
    BY <2>1 DEF FreshUnused
  <2>4. PhasesOK'
    BY <1>1, <2>1 DEF PhasesOK, Unopened, TypeOK
  <2>5. LockExclusive'
    BY <2>1 DEF LockExclusive, TypeOK
  <2>6. IdsOwned'
    BY <2>1 DEF SessionsOwned, IdsOwned, OwnedBy, TypeOK
  <2>7. LoginsOwned'
    BY <2>1 DEF SessionsOwned, IdsOwned, LoginsOwned, OwnedBy, LoginOf, TypeOK
  <2> QED
    BY <2>2, <2>3, <2>4, <2>5, <2>6, <2>7 DEF SessionsOwned
<1> QED
  BY <1>2, <1>3

\* Routing, a failing query and a guard that lets the script through change
\* no session.
LEMMA QuietPreserves ==
  ASSUME SessionInv, NEW w \in Workers, QuietStep(w)
  PROVE  SessionInv'
<1> USE DEF SessionInv, wire, ids
<1>1. PICK from \in {"opened", "login", "guard"},
           to \in {"login", "logout", "guard", "render", "page"} :
        /\ pc[w] = from /\ pc' = [pc EXCEPT ![w] = to]
        /\ UNCHANGED <<clock, wire, ids, store, open, sess, logins, standing>>
  BY DEF QuietStep, Dispatch, LoginAborted, GuardPasses, Goto
<1>2. TypeOK'
  BY <1>1 DEF TypeOK, PCs
<1>3. FreshUnused' /\ LockExclusive'
  BY <1>1 DEF FreshUnused, LockExclusive
<1>4. PhasesOK'
  BY <1>1 DEF PhasesOK, Unopened, TypeOK
<1>5. SessionsOwned'
  BY <1>1 DEF SessionsOwned, IdsOwned, LoginsOwned, OwnedBy, LoginOf
<1> QED
  BY <1>2, <1>3, <1>4, <1>5

\* after_successful_login(): the data moves to an id nobody else has, the old
\* id keeps what its own client put there.
LEMMA LoginPreserves ==
  ASSUME SessionInv, NEW w \in Workers, LoginStep(w)
  PROVE  SessionInv'
<1> USE DEF SessionInv, wire
<1> DEFINE new == lastSid + 1
           stamped == [loggedIn |-> TRUE, lastLogin |-> clock]
<1>1. PICK from \in {"login", "verified"}, to \in {"verified", "guard"} :
        pc[w] = from /\ pc' = [pc EXCEPT ![w] = to]
  BY DEF LoginStep, LoginVerified, CompleteLogin, Goto
<1>2. /\ client[w] \in Browsers
      /\ open[w] \in Sids /\ open[w] # NoSid
      /\ madeFor[open[w]] = client[w]
  BY <1>1 DEF PhasesOK, Unopened, TypeOK, SessionsOwned, IdsOwned, OwnedBy
<1>3. lastSid < MaxSid
  BY DEF LoginStep, LoginVerified, CompleteLogin, AfterSuccessfulLogin,
         RegenerateId, FreshId
<1>4. /\ new \in Sids /\ new # NoSid /\ madeFor[new] = Nobody
      /\ store[new] = Empty
      /\ \A b \in Browsers : jar[b] # new
      /\ \A v \in Workers : open[v] # new /\ cookie[v] # new /\ setCookie[v] # new
  BY <1>3, FreshIsNew
<1>5. /\ lastSid' = new
      /\ madeFor' = [madeFor EXCEPT ![new] = client[w]]
      /\ open' = [open EXCEPT ![w] = new]
      /\ setCookie' = [setCookie EXCEPT ![w] = new]
      /\ store' = [store EXCEPT ![open[w]] = sess[w]]
      /\ sess' = [sess EXCEPT ![w] = stamped]
      /\ logins' = [logins EXCEPT ![client[w]] = @ \cup {clock}]
      /\ UNCHANGED <<clock, issued, jar, req, client, cookie, overlap, standing>>
  BY DEF LoginStep, LoginVerified, CompleteLogin, AfterSuccessfulLogin,
         RegenerateId, FreshId
<1> HIDE DEF new
<1>6. TypeOK'
  <2>1. pc' \in [Workers -> PCs]
    BY <1>1 DEF TypeOK, PCs
  <2>2. stamped \in Data
    BY DEF TypeOK, Data
  <2>3. lastSid' \in 0 .. MaxSid
    BY <1>4, <1>5, BoundsAssumption DEF Sids
  <2> HIDE DEF stamped
  <2>4. sess' \in [Workers -> Data] /\ store' \in [Sids -> Data]
    BY <1>2, <1>5, <2>2 DEF TypeOK
  <2>5. logins' \in [Browsers -> SUBSET Times]
    BY <1>2, <1>5 DEF TypeOK
  <2>6. /\ madeFor' \in [Sids -> Browsers \cup {Nobody}]
        /\ open' \in [Workers -> Sids \cup {NoSid}]
        /\ setCookie' \in [Workers -> Sids \cup {NoSid}]
    BY <1>2, <1>4, <1>5 DEF TypeOK
  <2> QED
    BY <1>5, <2>1, <2>3, <2>4, <2>5, <2>6 DEF TypeOK
<1>7. FreshUnused'
  <2>1. open[w] <= lastSid
    BY <1>2, NobodyAssumption, BoundsAssumption DEF FreshUnused, TypeOK, Sids
  <2> QED
    BY <1>2, <1>4, <1>5, <2>1, BoundsAssumption DEF FreshUnused, TypeOK, Sids, new
<1>8. PhasesOK'
  BY <1>1, <1>2, <1>4, <1>5 DEF PhasesOK, Unopened, TypeOK
<1>9. LockExclusive'
  BY <1>4, <1>5 DEF LockExclusive, TypeOK
<1>10. IdsOwned'
  BY <1>2, <1>4, <1>5 DEF SessionsOwned, IdsOwned, OwnedBy, TypeOK
<1>11. LoginsOwned'
  <2>1. ASSUME NEW s \in Sids PROVE LoginOf(store[s], madeFor[s])'
    BY <1>2, <1>4, <1>5
       DEF SessionsOwned, LoginsOwned, LoginOf, TypeOK, Empty
  <2>2. ASSUME NEW v \in Workers PROVE LoginOf(sess[v], client[v])'
    BY <1>2, <1>5 DEF SessionsOwned, LoginsOwned, LoginOf, TypeOK
  <2> QED
    BY <2>1, <2>2 DEF LoginsOwned
<1> QED
  BY <1>6, <1>7, <1>8, <1>9, <1>10, <1>11 DEF SessionsOwned

\* end_session(): the stored data is gone and the script holds no id.
LEMMA EndPreserves ==
  ASSUME SessionInv, NEW w \in Workers, EndStep(w)
  PROVE  SessionInv'
<1> USE DEF SessionInv, wire, ids
<1>1. /\ pc[w] \in {"login", "logout", "guard"}
      /\ pc' = [pc EXCEPT ![w] = "render"]
      /\ store' = [store EXCEPT ![open[w]] = Empty]
      /\ open' = [open EXCEPT ![w] = NoSid]
      /\ sess' = [sess EXCEPT ![w] = Empty]
      /\ UNCHANGED <<clock, wire, ids, logins>>
  BY DEF EndStep, LoginRefused, Logout, GuardFails, AfterSuccessfulLogout,
         EndSession, Goto
<1>2. client[w] \in Browsers /\ open[w] \in Sids
  BY <1>1 DEF PhasesOK, Unopened, TypeOK
<1>3. TypeOK'
  <2>1. standing' \in [Browsers -> {"in", "out", "unknown"}]
    BY <1>2 DEF EndStep, LoginRefused, Logout, GuardFails,
                AfterSuccessfulLogout, TypeOK
  <2>2. Empty \in Data
    BY DEF Empty, Data, NoTime
  <2>3. pc' \in [Workers -> PCs]
    BY <1>1 DEF TypeOK, PCs
  <2> QED
    BY <1>1, <1>2, <2>1, <2>2, <2>3 DEF TypeOK
<1>4. FreshUnused'
  BY <1>1, <1>2 DEF FreshUnused, TypeOK
<1>5. PhasesOK'
  BY <1>1, <1>2 DEF PhasesOK, Unopened, TypeOK
<1>6. LockExclusive'
  BY <1>1 DEF LockExclusive, TypeOK
<1>7. IdsOwned'
  BY <1>1 DEF SessionsOwned, IdsOwned, OwnedBy, TypeOK
<1>8. LoginsOwned'
  BY <1>1, <1>2 DEF SessionsOwned, LoginsOwned, LoginOf, TypeOK, Empty
<1> QED
  BY <1>3, <1>4, <1>5, <1>6, <1>7, <1>8 DEF SessionsOwned

\* The end of a script stores its data under the id it holds, if any.
LEMMA FinishPreserves ==
  ASSUME SessionInv, NEW w \in Workers, Finish(w)
  PROVE  SessionInv'
<1> USE DEF SessionInv, wire, ids
<1>1. /\ pc[w] \in {"page", "render"}
      /\ \/ pc' = [pc EXCEPT ![w] = "sentPage"]
         \/ pc' = [pc EXCEPT ![w] = "sent"]
      /\ store' = IF open[w] = NoSid THEN store
                                     ELSE [store EXCEPT ![open[w]] = sess[w]]
      /\ open' = [open EXCEPT ![w] = NoSid]
      /\ sess' = [sess EXCEPT ![w] = Empty]
      /\ UNCHANGED <<clock, wire, ids, logins, standing>>
  BY DEF Finish, Goto
<1>2. client[w] \in Browsers
  BY <1>1 DEF PhasesOK, TypeOK
<1>3. \/ store' = store
      \/ /\ open[w] \in Sids /\ madeFor[open[w]] = client[w]
         /\ store' = [store EXCEPT ![open[w]] = sess[w]]
  BY <1>1 DEF TypeOK, SessionsOwned, IdsOwned, OwnedBy
<1>4. TypeOK'
  <2>1. Empty \in Data
    BY DEF Empty, Data, NoTime
  <2>2. pc' \in [Workers -> PCs]
    BY <1>1 DEF TypeOK, PCs
  <2>3. store' \in [Sids -> Data]
    BY <1>3 DEF TypeOK
  <2> QED
    BY <1>1, <2>1, <2>2, <2>3 DEF TypeOK
<1>5. FreshUnused'
  BY <1>1, <1>2, <1>3, NobodyAssumption DEF FreshUnused, TypeOK
<1>6. PhasesOK'
  BY <1>1, <1>2 DEF PhasesOK, Unopened, TypeOK
<1>7. LockExclusive'
  BY <1>1 DEF LockExclusive, TypeOK
<1>8. IdsOwned'
  BY <1>1 DEF SessionsOwned, IdsOwned, OwnedBy, TypeOK
<1>9. LoginsOwned'
  <2>1. ASSUME NEW s \in Sids PROVE LoginOf(store[s], madeFor[s])'
    BY <1>1, <1>3 DEF SessionsOwned, LoginsOwned, LoginOf, TypeOK
  <2>2. ASSUME NEW v \in Workers PROVE LoginOf(sess[v], client[v])'
    BY <1>1 DEF SessionsOwned, LoginsOwned, LoginOf, TypeOK, Empty
  <2> QED
    BY <2>1, <2>2 DEF LoginsOwned
<1> QED
  BY <1>4, <1>5, <1>6, <1>7, <1>8, <1>9 DEF SessionsOwned

\* Time passes and nothing else changes.
LEMMA TickPreserves ==
  ASSUME SessionInv, Tick
  PROVE  SessionInv'
<1> USE DEF SessionInv, Tick, wire, ids
<1>1. TypeOK'
  BY BoundsAssumption DEF TypeOK, Times, Data
<1>2. FreshUnused' /\ PhasesOK' /\ LockExclusive'
  BY DEF FreshUnused, PhasesOK, LockExclusive
<1>3. SessionsOwned'
  BY DEF SessionsOwned, IdsOwned, LoginsOwned, OwnedBy, LoginOf
<1> QED
  BY <1>1, <1>2, <1>3

\* Nothing changes at all.
LEMMA StutterPreserves ==
  ASSUME SessionInv, UNCHANGED vars
  PROVE  SessionInv'
BY DEF SessionInv, TypeOK, FreshUnused, PhasesOK, LockExclusive, SessionsOwned,
       IdsOwned, LoginsOwned, OwnedBy, LoginOf, vars, wire, ids

\* A step of a script is of one of the kinds above.
LEMMA StepKinds ==
  ASSUME NEW w \in Workers, Step(w)
  PROVE  \/ StartNewSession(w) \/ StartKnownSession(w)
         \/ QuietStep(w) \/ LoginStep(w) \/ EndStep(w) \/ Finish(w)
BY DEF Step, QuietStep, LoginStep, EndStep

\* The invariant is inductive.
LEMMA NextInv == SessionInv /\ [Next]_vars => SessionInv'
<1> SUFFICES ASSUME SessionInv, [Next]_vars PROVE SessionInv'
  OBVIOUS
<1>1. ASSUME NEW b \in Browsers, NEW w \in Workers, NEW q \in SiteRequests,
             Issue(b, w, q)
      PROVE  SessionInv'
  BY <1>1, IssuePreserves
<1>2. ASSUME NEW w \in Workers, Step(w)
      PROVE  SessionInv'
  BY <1>2, StepKinds, StartPreserves, QuietPreserves, LoginPreserves,
     EndPreserves, FinishPreserves
<1>3. ASSUME NEW w \in Workers, Deliver(w) \/ LoseAnswer(w)
      PROVE  SessionInv'
  BY <1>3, AnswerPreserves
<1>4. CASE Tick
  BY <1>4, TickPreserves
<1>5. CASE Quiet \/ UNCHANGED vars
  BY <1>5, StutterPreserves DEF Quiet
<1> QED
  BY <1>1, <1>2, <1>3, <1>4, <1>5 DEF Next

\* SessionInv holds in every reachable state: ids are handed out once, a
\* script that runs holds its id alone, and every login in a session was made
\* by the browser the session belongs to.
THEOREM SessionInvariant == Spec => []SessionInv
<1> QED
  BY InitInv, NextInv, PTL DEF Spec

\* Every variable keeps its type in every reachable state.
THEOREM TypeCorrect == Spec => []TypeOK
<1>1. SessionInv => TypeOK
  BY DEF SessionInv
<1> QED
  BY <1>1, SessionInvariant, PTL

\* No session ever carries a login its own browser did not make.
THEOREM SessionsNeverMix == Spec => []SessionsOwned
<1>1. SessionInv => SessionsOwned
  BY DEF SessionInv
<1> QED
  BY <1>1, SessionInvariant, PTL
-----------------------------------------------------------------------------
(* Action properties.                                                      *)

\* Only the guard takes a script from "guard" to "page", and what it has read
\* is a login of the script's own client that is recent enough.
LEMMA GrantStep ==
  ASSUME SessionInv, [Next]_vars,
         NEW w \in Workers, pc[w] = "guard", pc'[w] = "page"
  PROVE  \E t \in logins[client[w]] : clock <= t + MaxElapsed
<1>1. \E v \in Workers : GuardPasses(v) /\ v = w
  <2>1. ASSUME NEW b \in Browsers, NEW v \in Workers, NEW q \in SiteRequests,
               Issue(b, v, q)
        PROVE  FALSE
    BY <2>1 DEF Issue, Goto, SessionInv, TypeOK
  <2>2. ASSUME NEW v \in Workers, Deliver(v) \/ LoseAnswer(v)
        PROVE  FALSE
    BY <2>2 DEF Deliver, LoseAnswer, Goto, SessionInv, TypeOK
  <2>3. ASSUME NEW v \in Workers, Step(v), ~ (GuardPasses(v) /\ v = w)
        PROVE  FALSE
    <3>1. PICK to \in {"opened", "login", "logout", "guard", "render",
                       "verified", "sentPage", "sent"} \cup
                      (IF v = w THEN {} ELSE {"page"}) :
            pc' = [pc EXCEPT ![v] = to]
      BY <2>3 DEF Step, StartNewSession, StartKnownSession, Dispatch,
         LoginVerified, LoginRefused, LoginAborted, CompleteLogin, Logout,
         GuardPasses, GuardFails, Finish, Goto
    <3> QED
      BY <3>1 DEF SessionInv, TypeOK
  <2>4. CASE Tick \/ Quiet \/ UNCHANGED vars
    BY <2>4 DEF Tick, Quiet, vars
  <2> QED
    BY <2>1, <2>2, <2>3, <2>4 DEF Next
<1>2. sess[w].loggedIn /\ clock <= sess[w].lastLogin + MaxElapsed
  BY <1>1 DEF GuardPasses, IsLoggedIn, LastLoginIsRecent
<1>3. sess[w].lastLogin \in logins[client[w]]
  BY <1>2 DEF SessionInv, SessionsOwned, LoginsOwned, LoginOf
<1> QED
  BY <1>2, <1>3

\* A protected page is granted only within MaxElapsed of a login accepted for
\* the same browser, however requests, logins and logouts interleave.
THEOREM GrantsFollowLogins == Spec => GrantFollowsLogin
<1>1. SessionInv /\ [Next]_vars =>
        [\A w \in Workers :
            pc[w] = "guard" /\ pc'[w] = "page" =>
                \E t \in logins[client[w]] : clock <= t + MaxElapsed]_vars
  BY GrantStep
<1> QED
  BY <1>1, SessionInvariant, PTL DEF Spec, GrantFollowsLogin

\* A step changes stored data only under the id its script gives up.
LEMMA StoreStep ==
  ASSUME SessionInv, [Next]_vars,
         NEW w \in Workers, NEW s \in Sids,
         open[w] = s, store'[s] # store[s]
  PROVE  open'[w] # s
<1>1. PICK v \in Workers :
        /\ LoginStep(v) \/ EndStep(v) \/ Finish(v)
        /\ open[v] = s
        /\ open'[v] # open[v]
  <2>1. ASSUME NEW b \in Browsers, NEW v \in Workers, NEW q \in SiteRequests,
               Issue(b, v, q)
        PROVE  FALSE
    BY <2>1 DEF Issue
  <2>2. ASSUME NEW v \in Workers, Deliver(v) \/ LoseAnswer(v)
        PROVE  FALSE
    BY <2>2 DEF Deliver, LoseAnswer
  <2>3. ASSUME NEW v \in Workers, Step(v)
        PROVE  /\ LoginStep(v) \/ EndStep(v) \/ Finish(v)
               /\ open[v] = s
               /\ open'[v] # open[v]
    <3>1. LoginStep(v) \/ EndStep(v) \/ Finish(v)
      BY <2>3, StepKinds DEF StartNewSession, StartKnownSession, QuietStep,
         Dispatch, LoginAborted, GuardPasses
    <3>2. open[v] = s
      BY <3>1 DEF LoginStep, LoginVerified, CompleteLogin, AfterSuccessfulLogin,
         RegenerateId, EndStep, LoginRefused, Logout, GuardFails,
         AfterSuccessfulLogout, EndSession, Finish, SessionInv, TypeOK
    <3>3. CASE LoginStep(v)
      <4>1. lastSid < MaxSid /\ open' = [open EXCEPT ![v] = lastSid + 1]
        BY <3>3 DEF LoginStep, LoginVerified, CompleteLogin,
           AfterSuccessfulLogin, RegenerateId, FreshId
      <4> QED
        BY <4>1, <3>1, <3>2, FreshIsNew DEF SessionInv, TypeOK
    <3>4. CASE EndStep(v) \/ Finish(v)
      <4>1. open' = [open EXCEPT ![v] = NoSid]
        BY <3>4 DEF EndStep, LoginRefused, Logout, GuardFails,
           AfterSuccessfulLogout, EndSession, Finish
      <4> QED
        BY <4>1, <3>1, <3>2 DEF SessionInv, TypeOK, Sids, NoSid
    <3> QED
      BY <3>1, <3>2, <3>3, <3>4
  <2>4. CASE Tick \/ Quiet \/ UNCHANGED vars
    BY <2>4 DEF Tick, Quiet, vars
  <2> QED
    BY <2>1, <2>2, <2>3, <2>4 DEF Next
<1>2. v = w
  BY <1>1, BoundsAssumption DEF SessionInv, LockExclusive, Sids, NoSid
<1> QED
  BY <1>1, <1>2

\* What a script has loaded is what is stored until the script itself gives
\* the session up: concurrent tabs never undo each other.
THEOREM UpdatesNeverLost == Spec => NoLostUpdate
<1>1. SessionInv /\ [Next]_vars =>
        [\A w \in Workers : \A s \in Sids :
            open[w] = s /\ store'[s] # store[s] => open'[w] # s]_vars
  BY StoreStep
<1> QED
  BY <1>1, SessionInvariant, PTL DEF Spec, NoLostUpdate
-----------------------------------------------------------------------------
(* What a browser may rely on.  The invariant relates the history variable *)
(* standing to the id in the jar and to everything the browser still has   *)
(* in flight: an answer on its way can replace the id, and a script can    *)
(* still write to it.                                                      *)

\* The id a script's session has for its client: the one its answer sets, else
\* the one its request came with.
OwnSid(w) == IF setCookie[w] # NoSid THEN setCookie[w] ELSE cookie[w]

\* No login is stored under s, and no script has s open with one.
Clean(s) == s = NoSid \/ (/\ ~ store[s].loggedIn
                          /\ \A w \in Workers : open[w] = s => ~ sess[w].loggedIn)

\* The login request that w serves may still bring its browser in.
LoggingIn(w) == IsLogin(req[w]) /\ pc[w] \notin {"render", "sent"}

\* Data d carries the last login that was accepted for browser b.
Newest(d, b) == d.loggedIn /\ \A t \in logins[b] : t <= d.lastLogin

\* Some login of b is not yet older than $max_elapsed.
RecentLogin(b) == \E t \in logins[b] : clock <= t + MaxElapsed

\* A script is in a login or a logout only if its request asked for one.
PhaseAt(w) ==
    /\ pc[w] \in {"login", "verified"} => IsLogin(req[w])
    /\ pc[w] = "logout" => IsLogout(req[w])

\* A script has its own session open; it makes an id of its own only for a
\* client without a cookie or in an accepted login.
OwnAt(w) ==
    /\ open[w] # NoSid => open[w] = OwnSid(w)
    /\ \/ setCookie[w] = NoSid
       \/ cookie[w] = NoSid
       \/ IsLogin(req[w]) /\ pc[w] \notin {"queued", "opened", "login"}

\* Until an answer of another login arrives, the jar has the id that the
\* request came with or one without a login.
JarAt(w) ==
    client[w] # Nobody =>
        /\ "login" \notin overlap[w] =>
              jar[client[w]] = cookie[w] \/ Clean(jar[client[w]])
        /\ overlap[w] = {} => jar[client[w]] = cookie[w]

\* Only the answer to an accepted login brings an id with a login.
AnswerAt(w) ==
    \/ Clean(setCookie[w])
    \/ IsLogin(req[w]) /\ pc[w] \in {"verified", "guard", "page", "sentPage"}

\* An accepted login that nothing overlaps has the newest one in its session.
NewestAt(w) ==
    IsLogin(req[w]) /\ overlap[w] = {} =>
        /\ pc[w] \in {"guard", "page"} =>
              setCookie[w] # NoSid /\ Newest(sess[w], client[w])
        /\ pc[w] = "sentPage" =>
              setCookie[w] # NoSid /\ Newest(store[setCookie[w]], client[w])

\* Two requests of a browser in flight have noticed each other.
OverlapsKnown ==
    \A v, w \in Workers :
        v # w /\ client[v] = client[w] /\ client[w] # Nobody =>
            Kind(req[v]) \in overlap[w]

\* A browser that is out has nothing in flight that would bring it in.
OutAt(b) ==
    standing[b] = "out" =>
        /\ Clean(jar[b])
        /\ \A w \in Workers : client[w] = b => ~ LoggingIn(w)

\* A browser that is in has its newest login in the session of its jar, stored
\* and open, and nothing in flight that would end it before its time.
InAt(b) ==
    standing[b] = "in" =>
        /\ jar[b] # NoSid
        /\ \A w \in Workers :
              client[w] = b => /\ cookie[w] = jar[b]
                               /\ ~ IsLogin(req[w])
                               /\ ~ IsLogout(req[w])
        /\ RecentLogin(b) =>
              /\ Newest(store[jar[b]], b)
              /\ \A w \in Workers : open[w] = jar[b] => Newest(sess[w], b)

\* No login was accepted in the future.
LoginsPast == \A b \in Browsers : \A t \in logins[b] : t <= clock

\* The inductive invariant behind LogoutHolds and LoginHolds.
StandingInv ==
    /\ \A w \in Workers : /\ PhaseAt(w) /\ OwnAt(w) /\ JarAt(w)
                          /\ AnswerAt(w) /\ NewestAt(w)
    /\ OverlapsKnown
    /\ \A b \in Browsers : OutAt(b) /\ InAt(b)
    /\ LoginsPast

\* No script runs before the first request.
LEMMA InitStands == Init => StandingInv
<1> SUFFICES ASSUME Init PROVE StandingInv
  OBVIOUS
<1> QED
  BY DEF Init, StandingInv, PhaseAt, OwnAt, JarAt, AnswerAt, NewestAt, Clean,
         OverlapsKnown, OutAt, InAt, LoginsPast, NoSid, NoRequest, IsLogin,
         Route, Method, Controller
-----------------------------------------------------------------------------
(* What the steps do, in the terms of this invariant.                      *)

\* A step of a script leaves what is on the wire and every other script alone.
LEMMA StepIsLocal ==
  ASSUME SessionInv, NEW w \in Workers, Step(w)
  PROVE  /\ UNCHANGED <<clock, jar, req, client, cookie, overlap>>
         /\ pc[w] \in PCs \ {"idle", "sentPage", "sent"}
         /\ client[w] \in Browsers
         /\ \A v \in Workers : v # w =>
               /\ pc'[v] = pc[v] /\ open'[v] = open[v] /\ sess'[v] = sess[v]
               /\ setCookie'[v] = setCookie[v]
<1> USE DEF SessionInv, TypeOK, wire, ids, Goto
<1>1. CASE StartNewSession(w) \/ StartKnownSession(w)
  BY <1>1 DEF StartNewSession, StartKnownSession, FreshId, PhasesOK, PCs
<1>2. CASE QuietStep(w)
  BY <1>2 DEF QuietStep, Dispatch, LoginAborted, GuardPasses, PhasesOK, PCs
<1>3. CASE LoginStep(w)
  BY <1>3 DEF LoginStep, LoginVerified, CompleteLogin, AfterSuccessfulLogin,
              RegenerateId, FreshId, PhasesOK, PCs
<1>4. CASE EndStep(w)
  BY <1>4 DEF EndStep, LoginRefused, Logout, GuardFails, AfterSuccessfulLogout,
              EndSession, PhasesOK, PCs
<1>5. CASE Finish(w)
  BY <1>5 DEF Finish, PhasesOK, PCs
<1> QED
  BY <1>1, <1>2, <1>3, <1>4, <1>5, StepKinds

\* What such a step does to its own script and its session, by the kind of step.
LEMMA StartNewEffect ==
  ASSUME SessionInv, NEW w \in Workers, StartNewSession(w)
  PROVE  /\ cookie[w] = NoSid /\ pc[w] = "queued" /\ pc'[w] = "opened"
         /\ store' = store /\ sess' = sess /\ sess[w] = Empty
         /\ open'[w] = lastSid + 1 /\ setCookie'[w] = lastSid + 1
         /\ lastSid < MaxSid
         /\ UNCHANGED <<logins, standing>>
BY DEF StartNewSession, FreshId, Goto, SessionInv, TypeOK, PhasesOK, Unopened

\* A known client's script opens the session its cookie names.
LEMMA StartKnownEffect ==
  ASSUME SessionInv, NEW w \in Workers, StartKnownSession(w)
  PROVE  /\ cookie[w] # NoSid /\ pc[w] = "queued" /\ pc'[w] = "opened"
         /\ open'[w] = cookie[w] /\ sess'[w] = store[cookie[w]]
         /\ UNCHANGED <<store, setCookie, logins, standing>>
BY DEF StartKnownSession, Goto, ids, SessionInv, TypeOK

\* Routing and the guard touch no session.
LEMMA QuietEffect ==
  ASSUME SessionInv, NEW w \in Workers, QuietStep(w)
  PROVE  /\ UNCHANGED <<store, open, sess, setCookie, logins, standing>>
         /\ \/ /\ pc[w] = "opened"
               /\ pc'[w] = IF IsLogin(req[w]) THEN "login"
                           ELSE IF IsLogout(req[w]) THEN "logout"
                           ELSE IF IsProtected(req[w]) THEN "guard"
                           ELSE "render"
            \/ pc[w] = "login" /\ pc'[w] = "render"
            \/ pc[w] = "guard" /\ pc'[w] = "page"
<1> USE DEF Goto, ids, SessionInv, TypeOK
<1>1. CASE Dispatch(w)
  <2>1. ~ (IsLogin(req[w]) /\ IsLogout(req[w]))
        /\ ~ (IsLogin(req[w]) /\ IsProtected(req[w]))
        /\ ~ (IsLogout(req[w]) /\ IsProtected(req[w]))
    BY DEF IsLogin, IsLogout, IsProtected, ProtectedMethods, Route
  <2> QED
    BY <1>1, <2>1 DEF Dispatch
<1>2. CASE LoginAborted(w) \/ GuardPasses(w)
  BY <1>2 DEF LoginAborted, GuardPasses
<1> QED
  BY <1>1, <1>2 DEF QuietStep

\* An accepted login moves to a fresh id and stamps the data there.
LEMMA LoginEffect ==
  ASSUME SessionInv, NEW w \in Workers, LoginStep(w)
  PROVE  /\ \/ pc[w] = "login" /\ pc'[w] = "verified"
            \/ pc[w] = "verified" /\ pc'[w] = "guard"
         /\ lastSid < MaxSid
         /\ open'[w] = lastSid + 1 /\ setCookie'[w] = lastSid + 1
         /\ open[w] \in Sids /\ open[w] # NoSid
         /\ store' = [store EXCEPT ![open[w]] = sess[w]]
         /\ sess'[w] = [loggedIn |-> TRUE, lastLogin |-> clock]
         /\ logins' = [logins EXCEPT ![client[w]] = @ \cup {clock}]
         /\ standing' = standing
BY DEF LoginStep, LoginVerified, CompleteLogin, AfterSuccessfulLogin,
       RegenerateId, FreshId, Goto, SessionInv, TypeOK, PhasesOK, Unopened

\* The session is destroyed, by a logout, a refusal or a stale login.
LEMMA EndEffect ==
  ASSUME SessionInv, NEW w \in Workers, EndStep(w)
  PROVE  /\ pc[w] \in {"login", "logout", "guard"} /\ pc'[w] = "render"
         /\ open[w] \in Sids /\ open[w] # NoSid
         /\ store' = [store EXCEPT ![open[w]] = Empty]
         /\ open'[w] = NoSid /\ sess'[w] = Empty
         /\ UNCHANGED <<setCookie, logins>>
         /\ \/ /\ pc[w] = "guard" /\ standing' = standing
               /\ ~ (IsLoggedIn(sess[w]) /\ LastLoginIsRecent(sess[w]))
            \/ /\ pc[w] # "guard"
               /\ standing' = [standing EXCEPT ![client[w]] =
                                  IF "login" \in overlap[w] THEN "unknown"
                                                            ELSE "out"]
BY DEF EndStep, LoginRefused, Logout, GuardFails, AfterSuccessfulLogout,
       EndSession, ids, Goto, SessionInv, TypeOK, PhasesOK, Unopened

\* The script stores what it has and gives the session up.
LEMMA FinishEffect ==
  ASSUME SessionInv, NEW w \in Workers, Finish(w)
  PROVE  /\ \/ pc[w] = "page" /\ pc'[w] = "sentPage" /\ open[w] # NoSid
            \/ pc[w] = "render" /\ pc'[w] = "sent"
         /\ \/ open[w] = NoSid /\ store' = store
            \/ open[w] \in Sids /\ store' = [store EXCEPT ![open[w]] = sess[w]]
         /\ open'[w] = NoSid /\ sess'[w] = Empty
         /\ UNCHANGED <<setCookie, logins, standing>>
BY DEF Finish, ids, Goto, SessionInv, TypeOK, PhasesOK, Unopened

\* An answer that arrives or is lost.
LEMMA AnswerEffect ==
  ASSUME SessionInv, NEW w \in Workers, Deliver(w) \/ LoseAnswer(w)
  PROVE  /\ pc[w] \in {"sentPage", "sent"} /\ pc'[w] = "idle"
         /\ client[w] \in Browsers /\ client'[w] = Nobody
         /\ setCookie'[w] = NoSid /\ open[w] = NoSid
         /\ UNCHANGED <<clock, store, open, sess, logins>>
         /\ \A v \in Workers : v # w =>
               /\ pc'[v] = pc[v] /\ setCookie'[v] = setCookie[v]
               /\ client'[v] = client[v] /\ req'[v] = req[v]
               /\ cookie'[v] = cookie[v] /\ overlap'[v] = overlap[v]
         /\ \A b \in Browsers : b # client[w] =>
               jar'[b] = jar[b] /\ standing'[b] = standing[b]
         /\ jar'[client[w]] \in
               {jar[client[w]]} \cup ({setCookie[w]} \ {NoSid})
         /\ \/ standing'[client[w]] = standing[client[w]]
            \/ /\ standing'[client[w]] = "in"
               /\ pc[w] = "sentPage" /\ IsLogin(req[w]) /\ overlap[w] = {}
               /\ setCookie[w] # NoSid => jar'[client[w]] = setCookie[w]
BY DEF Deliver, LoseAnswer, Release, Goto, SessionInv, TypeOK, PhasesOK, Unopened

\* A request that is sent.
LEMMA IssueEffect ==
  ASSUME SessionInv,
         NEW b \in Browsers, NEW w \in Workers, NEW q \in SiteRequests,
         Issue(b, w, q)
  PROVE  /\ pc[w] = "idle" /\ pc'[w] = "queued"
         /\ client[w] = Nobody /\ client'[w] = b
         /\ req'[w] = q /\ cookie'[w] = jar[b]
         /\ setCookie[w] = NoSid /\ open[w] = NoSid
         /\ overlap'[w] = {Kind(req[u]) : u \in {v \in Workers : client[v] = b}}
         /\ UNCHANGED <<clock, jar, setCookie, store, open, sess, logins>>
         /\ \A v \in Workers : v # w =>
               /\ pc'[v] = pc[v] /\ client'[v] = client[v] /\ req'[v] = req[v]
               /\ cookie'[v] = cookie[v]
               /\ overlap'[v] = IF client[v] = b THEN overlap[v] \cup {Kind(q)}
                                                 ELSE overlap[v]
         /\ \A c \in Browsers : c # b => standing'[c] = standing[c]
         /\ standing'[b] = IF IsLogin(q) \/ IsLogout(q) THEN "unknown"
                                                        ELSE standing[b]
<1> USE DEF Issue, Goto, ids, SessionInv, TypeOK, PhasesOK, Unopened
<1>1. pc[w] = "idle" /\ client[w] = Nobody
  OBVIOUS
<1>2. \A v \in Workers : v # w =>
         overlap'[v] = IF client[v] = b THEN overlap[v] \cup {Kind(q)}
                                        ELSE overlap[v]
  OBVIOUS
<1>3. overlap'[w] = {Kind(req[u]) : u \in {v \in Workers : client[v] = b}}
  OBVIOUS
<1> QED
  BY <1>1, <1>2, <1>3
-----------------------------------------------------------------------------
(* An id without a login stays one: a login moves to an id of its own.     *)

\* s is no id, or one that a browser has been given.
Handed(s) == s = NoSid \/ (s \in Sids /\ madeFor[s] # Nobody)

\* Whatever is in use has been handed out.
LEMMA InUseIsHanded ==
  ASSUME SessionInv
  PROVE  /\ \A b \in Browsers : Handed(jar[b])
         /\ \A w \in Workers : /\ Handed(cookie[w]) /\ Handed(open[w])
                               /\ Handed(setCookie[w])
<1> USE NobodyAssumption DEF SessionInv, TypeOK, SessionsOwned, IdsOwned, OwnedBy,
                             Handed
<1>1. \A b \in Browsers : Handed(jar[b])
  OBVIOUS
<1>2. ASSUME NEW w \in Workers
      PROVE  Handed(cookie[w]) /\ Handed(open[w]) /\ Handed(setCookie[w])
  <2>1. CASE pc[w] = "idle"
    BY <2>1 DEF PhasesOK, Unopened
  <2>2. CASE pc[w] # "idle"
    BY <2>2 DEF PhasesOK
  <2> QED
    BY <2>1, <2>2
<1> QED
  BY <1>1, <1>2

\* No step puts a login under an id in use that has none.
LEMMA CleanStays ==
  ASSUME SessionInv, [Next]_vars, NEW s, Handed(s), Clean(s)
  PROVE  Clean(s)'
<1> USE DEF Clean
<1>1. CASE s = NoSid
  BY <1>1
<1>2. CASE s # NoSid
  <2>1. s \in Sids /\ madeFor[s] # Nobody
    BY <1>2 DEF Handed
  <2>2. CASE UNCHANGED <<store, open, sess>>
    BY <1>2, <2>2
  <2>3. ASSUME NEW w \in Workers, Step(w)
        PROVE  Clean(s)'
    <3>1. \A v \in Workers : v # w => open'[v] = open[v] /\ sess'[v] = sess[v]
      BY <2>3, StepIsLocal
    <3>2. lastSid < MaxSid => s # lastSid + 1
      BY <2>1, FreshIsNew
    <3>3. store \in [Sids -> Data] /\ ~ Empty.loggedIn
      BY DEF SessionInv, TypeOK, Empty
    <3>4. CASE StartNewSession(w)
      BY <1>2, <3>1, <3>2, <3>4, StartNewEffect
    <3>5. CASE StartKnownSession(w)
      BY <1>2, <3>1, <3>5, StartKnownEffect
    <3>6. CASE QuietStep(w)
      BY <1>2, <3>6, QuietEffect
    <3>7. CASE LoginStep(w)
      BY <1>2, <2>1, <3>1, <3>2, <3>3, <3>7, LoginEffect
    <3>8. CASE EndStep(w)
      BY <1>2, <2>1, <3>1, <3>3, <3>8, EndEffect
    <3>9. CASE Finish(w)
      BY <1>2, <2>1, <3>1, <3>3, <3>9, FinishEffect
    <3> QED
      BY <2>3, <3>4, <3>5, <3>6, <3>7, <3>8, <3>9, StepKinds
  <2>4. ASSUME NEW w \in Workers, Deliver(w) \/ LoseAnswer(w)
        PROVE  UNCHANGED <<store, open, sess>>
    BY <2>4 DEF Deliver, LoseAnswer
  <2>5. ASSUME NEW b \in Browsers, NEW w \in Workers, NEW q \in SiteRequests,
               Issue(b, w, q)
        PROVE  UNCHANGED <<store, open, sess>>
    BY <2>5 DEF Issue
  <2>6. CASE Tick \/ Quiet \/ UNCHANGED vars
    BY <2>2, <2>6 DEF Tick, Quiet, vars
  <2> QED
    BY <2>2, <2>3, <2>4, <2>5, <2>6 DEF Next
<1> QED
  BY <1>1, <1>2

\* The same of the ids in the jars and in the answers under way.
LEMMA StepKeepsClean ==
  ASSUME SessionInv, NEW w \in Workers, Step(w)
  PROVE  /\ \A b \in Browsers : Clean(jar[b]) => Clean(jar[b])'
         /\ \A v \in Workers :
               setCookie'[v] = setCookie[v] =>
                  (Clean(setCookie[v]) => Clean(setCookie[v])')
<1>1. ASSUME NEW s, Handed(s), Clean(s) PROVE Clean(s)'
  BY <1>1, CleanStays DEF Next
<1>2. jar' = jar
  BY StepIsLocal
<1>3. ASSUME NEW b \in Browsers, Clean(jar[b]) PROVE Clean(jar[b])'
  BY <1>1, <1>2, <1>3, InUseIsHanded DEF Clean
<1>4. ASSUME NEW v \in Workers, setCookie'[v] = setCookie[v],
             Clean(setCookie[v])
      PROVE  Clean(setCookie[v])'
  BY <1>1, <1>4, InUseIsHanded DEF Clean
<1> QED
  BY <1>3, <1>4

\* What an id is stored under or open with changes for its owner's scripts only.
LEMMA OthersSessions ==
  ASSUME SessionInv, NEW w \in Workers, Step(w), NEW s \in Sids,
         madeFor[s] # Nobody, madeFor[s] # client[w]
  PROVE  /\ store'[s] = store[s]
         /\ open[w] # s
         /\ open'[w] # s
<1>1. open[w] # s
  BY DEF SessionInv, SessionsOwned, IdsOwned, OwnedBy, Sids, NoSid
<1>2. lastSid < MaxSid => s # lastSid + 1
  BY FreshIsNew
<1>3. store \in [Sids -> Data] /\ s # NoSid
  BY DEF SessionInv, TypeOK, Sids, NoSid
<1>4. CASE StartNewSession(w) \/ StartKnownSession(w) \/ QuietStep(w)
  <2>1. cookie[w] # s
    BY <1>3 DEF SessionInv, SessionsOwned, IdsOwned, OwnedBy
  <2> QED
    BY <1>1, <1>2, <1>4, <2>1, StartNewEffect, StartKnownEffect, QuietEffect
<1>5. CASE LoginStep(w) \/ EndStep(w) \/ Finish(w)
  BY <1>1, <1>2, <1>3, <1>5, LoginEffect, EndEffect, FinishEffect
<1> QED
  BY <1>4, <1>5, StepKinds
-----------------------------------------------------------------------------
(* The steps of a script preserve the invariant.                           *)

\* The parts about the script itself.
LEMMA StepOwnParts ==
  ASSUME SessionInv, StandingInv, NEW w \in Workers, Step(w)
  PROVE  PhaseAt(w)' /\ OwnAt(w)' /\ AnswerAt(w)'
<1> USE DEF StandingInv
<1>1. UNCHANGED <<req, cookie>> /\ lastSid + 1 # NoSid
  BY StepIsLocal, BoundsAssumption DEF SessionInv, TypeOK, NoSid
<1>2. PhaseAt(w) /\ OwnAt(w) /\ AnswerAt(w)
  OBVIOUS
<1>3. setCookie'[w] = setCookie[w] =>
         (Clean(setCookie[w]) => Clean(setCookie[w])')
  BY StepKeepsClean
<1>4. CASE StartNewSession(w)
  <2>1. Clean(setCookie[w])'
    BY <1>4, StartNewEffect, StepIsLocal, FreshIsNew DEF Clean, Empty
  <2> QED
    BY <1>1, <1>4, <2>1, StartNewEffect
       DEF PhaseAt, OwnAt, OwnSid, AnswerAt
<1>5. CASE StartKnownSession(w)
  BY <1>1, <1>2, <1>3, <1>5, StartKnownEffect
     DEF PhaseAt, OwnAt, OwnSid, AnswerAt, Clean
<1>6. CASE QuietStep(w)
  BY <1>1, <1>2, <1>3, <1>6, QuietEffect
     DEF PhaseAt, OwnAt, OwnSid, AnswerAt, Clean
<1>7. CASE LoginStep(w)
  BY <1>1, <1>2, <1>7, LoginEffect DEF PhaseAt, OwnAt, OwnSid, AnswerAt
<1>8. CASE EndStep(w)
  <2>1. ASSUME ~ Clean(setCookie[w])
        PROVE  Clean(setCookie[w])'
    <3>1. IsLogin(req[w]) /\ pc[w] = "guard"
      BY <1>2, <1>8, <2>1, EndEffect DEF AnswerAt, PhaseAt
    <3>2. open[w] = setCookie[w]
      BY <1>2, <1>8, <2>1, EndEffect DEF OwnAt, OwnSid, Clean
    <3>3. store'[setCookie[w]] = Empty
          /\ \A v \in Workers : open'[v] # setCookie[w]
      BY <1>8, <3>2, EndEffect, StepIsLocal
         DEF SessionInv, TypeOK, LockExclusive
    <3> QED
      BY <1>8, <3>3, EndEffect DEF Clean, Empty
  <2> QED
    BY <1>1, <1>2, <1>3, <1>8, <2>1, EndEffect
       DEF PhaseAt, OwnAt, OwnSid, AnswerAt, Clean
<1>9. CASE Finish(w)
  <2>1. UNCHANGED <<setCookie>> /\ open'[w] = NoSid
        /\ \/ pc[w] = "page" /\ pc'[w] = "sentPage"
           \/ pc[w] = "render" /\ pc'[w] = "sent"
    BY <1>9, FinishEffect
  <2>2. AnswerAt(w)'
    BY <1>1, <1>2, <1>3, <2>1 DEF AnswerAt, Clean
  <2> QED
    BY <1>1, <1>2, <2>1, <2>2 DEF PhaseAt, OwnAt
<1> QED
  BY <1>4, <1>5, <1>6, <1>7, <1>8, <1>9, StepKinds

\* The parts about the other scripts.
LEMMA StepOtherParts ==
  ASSUME SessionInv, StandingInv, NEW w \in Workers, Step(w),
         NEW v \in Workers, v # w
  PROVE  PhaseAt(v)' /\ OwnAt(v)' /\ AnswerAt(v)'
<1> USE DEF StandingInv
<1>1. UNCHANGED <<req, cookie>>
      /\ pc'[v] = pc[v] /\ open'[v] = open[v] /\ setCookie'[v] = setCookie[v]
  BY StepIsLocal
<1>2. Clean(setCookie[v]) => Clean(setCookie[v])'
  BY <1>1, StepKeepsClean
<1>3. PhaseAt(v) /\ OwnAt(v) /\ AnswerAt(v)
  OBVIOUS
<1>4. AnswerAt(v)'
  BY <1>1, <1>2, <1>3 DEF AnswerAt, Clean
<1> QED
  BY <1>1, <1>3, <1>4 DEF PhaseAt, OwnAt, OwnSid

\* The jars stay as they are, and what overlaps what.
LEMMA StepKeepsJars ==
  ASSUME SessionInv, StandingInv, NEW w \in Workers, Step(w)
  PROVE  (\A v \in Workers : JarAt(v)') /\ OverlapsKnown'
<1> USE DEF StandingInv
<1>1. UNCHANGED <<jar, req, client, cookie, overlap>>
  BY StepIsLocal
<1>2. ASSUME NEW v \in Workers, client[v] # Nobody
      PROVE  Clean(jar[client[v]]) => Clean(jar[client[v]])'
  BY <1>1, <1>2, StepKeepsClean DEF SessionInv, TypeOK, Clean
<1>3. ASSUME NEW v \in Workers PROVE JarAt(v)'
  <2>1. JarAt(v)
    OBVIOUS
  <2> QED
    BY <1>1, <1>2, <2>1 DEF JarAt, Clean
<1> QED
  BY <1>1, <1>3 DEF OverlapsKnown

\* A login of another browser is not the newest of this one.
LEMMA StepKeepsNewest ==
  ASSUME SessionInv, StandingInv, NEW w \in Workers, Step(w)
  PROVE  \A v \in Workers : NewestAt(v)'
<1> USE DEF StandingInv
<1>1. UNCHANGED <<clock, jar, req, client, cookie, overlap>>
      /\ client[w] \in Browsers
  BY StepIsLocal
<1>2. ASSUME NEW v \in Workers, v # w PROVE NewestAt(v)'
  <2>1. SUFFICES ASSUME IsLogin(req[v]), overlap[v] = {},
                        pc[v] \in {"guard", "page", "sentPage"}
                 PROVE  NewestAt(v)'
    BY <1>1, <1>2, StepIsLocal DEF NewestAt
  <2>2. client[v] \in Browsers /\ client[v] # client[w]
    BY <1>1, <1>2, <2>1 DEF OverlapsKnown, SessionInv, TypeOK, PhasesOK
  <2>3. setCookie[v] \in Sids /\ madeFor[setCookie[v]] = client[v]
    BY <2>1 DEF NewestAt, SessionInv, TypeOK, SessionsOwned, IdsOwned, OwnedBy
  <2>4. store'[setCookie[v]] = store[setCookie[v]]
    BY <2>2, <2>3, OthersSessions, NobodyAssumption
  <2>5. logins'[client[v]] = logins[client[v]]
    <3>1. logins' = logins \/ logins' = [logins EXCEPT ![client[w]] = @ \cup {clock}]
      BY StepKinds, StartNewEffect, StartKnownEffect, QuietEffect, LoginEffect,
         EndEffect, FinishEffect
    <3> QED
      BY <2>2, <3>1 DEF SessionInv, TypeOK
  <2>6. pc'[v] = pc[v] /\ sess'[v] = sess[v] /\ setCookie'[v] = setCookie[v]
    BY <1>2, StepIsLocal
  <2>7. NewestAt(v)
    OBVIOUS
  <2> QED
    BY <1>1, <2>4, <2>5, <2>6, <2>7 DEF NewestAt, Newest
<1>3. NewestAt(w)'
  <2>1. NewestAt(w) /\ OwnAt(w) /\ PhaseAt(w)
    OBVIOUS
  <2>2. CASE StartNewSession(w) \/ StartKnownSession(w) \/ EndStep(w)
    BY <2>2, StartNewEffect, StartKnownEffect, EndEffect DEF NewestAt
  <2>3. CASE QuietStep(w)
    BY <1>1, <2>1, <2>3, QuietEffect DEF NewestAt, Newest
  <2>4. CASE LoginStep(w)
    <3>1. \A t \in logins'[client[w]] : t <= clock
      BY <1>1, <2>4, LoginEffect DEF LoginsPast, SessionInv, TypeOK, Times
    <3> QED
      BY <1>1, <2>4, <3>1, LoginEffect, BoundsAssumption
         DEF NewestAt, Newest, SessionInv, TypeOK, NoSid
  <2>5. CASE Finish(w)
    <3>1. CASE pc[w] = "page" /\ IsLogin(req[w]) /\ overlap[w] = {}
      <4>1. open[w] = setCookie[w] /\ setCookie[w] # NoSid
        BY <2>1, <2>5, <3>1, FinishEffect DEF OwnAt, OwnSid, NewestAt
      <4>2. store'[setCookie[w]] = sess[w] /\ setCookie' = setCookie
        BY <2>5, <4>1, FinishEffect DEF SessionInv, TypeOK
      <4> QED
        BY <1>1, <2>1, <2>5, <3>1, <4>1, <4>2, FinishEffect
           DEF NewestAt, Newest
    <3>2. CASE ~ (pc[w] = "page" /\ IsLogin(req[w]) /\ overlap[w] = {})
      BY <1>1, <2>5, <3>2, FinishEffect DEF NewestAt
    <3> QED
      BY <3>1, <3>2
  <2> QED
    BY <2>2, <2>3, <2>4, <2>5, StepKinds
<1> QED
  BY <1>2, <1>3

\* Only a logout or a refused login puts a browser out.
LEMMA StepKeepsOut ==
  ASSUME SessionInv, StandingInv, NEW w \in Workers, Step(w),
         NEW b \in Browsers
  PROVE  OutAt(b)'
<1> USE DEF StandingInv
<1>1. /\ UNCHANGED <<clock, jar, req, client, cookie, overlap>>
      /\ client[w] \in Browsers /\ pc[w] \in PCs \ {"idle", "sentPage", "sent"}
      /\ \A v \in Workers : v # w => pc'[v] = pc[v] /\ open'[v] = open[v]
  BY StepIsLocal
<1>2. Clean(jar[b]) => Clean(jar[b])'
  BY StepKeepsClean
<1>3. CASE standing'[b] = standing[b]
  <2>1. pc[w] = "render" => pc'[w] = "sent"
    BY StepKinds, StartNewEffect, StartKnownEffect, QuietEffect, LoginEffect,
       EndEffect, FinishEffect
  <2>2. \A v \in Workers : LoggingIn(v)' => LoggingIn(v)
    BY <1>1, <2>1 DEF LoggingIn
  <2>3. OutAt(b)
    OBVIOUS
  <2> QED
    BY <1>1, <1>2, <1>3, <2>2, <2>3 DEF OutAt, Clean
<1>4. CASE standing'[b] # standing[b]
  <2>1. /\ EndStep(w) /\ pc[w] # "guard" /\ b = client[w]
        /\ standing'[b] = IF "login" \in overlap[w] THEN "unknown" ELSE "out"
    BY <1>4, StepKinds, StartNewEffect, StartKnownEffect, QuietEffect,
       LoginEffect, EndEffect, FinishEffect DEF SessionInv, TypeOK
  <2>2. SUFFICES ASSUME "login" \notin overlap[w] PROVE OutAt(b)'
    BY <2>1 DEF OutAt
  <2>3. ASSUME ~ Clean(jar[b]) PROVE Clean(jar[b])'
    <3>1. jar[b] = cookie[w] /\ cookie[w] # NoSid
      BY <1>1, <2>1, <2>2, <2>3, NobodyAssumption DEF JarAt, Clean
    <3>2. open[w] = jar[b]
      <4>1. PhaseAt(w) /\ OwnAt(w) /\ pc[w] \in {"login", "logout"}
        BY <2>1, EndEffect
      <4>2. ~ (IsLogin(req[w]) /\ IsLogout(req[w]))
        BY DEF IsLogin, IsLogout, Route
      <4> QED
        BY <2>1, <3>1, <4>1, <4>2, EndEffect DEF PhaseAt, OwnAt, OwnSid
    <3>3. store'[jar[b]] = Empty /\ \A v \in Workers : open'[v] # jar[b]
      BY <1>1, <2>1, <3>1, <3>2, EndEffect DEF SessionInv, TypeOK, LockExclusive
    <3> QED
      BY <1>1, <3>3 DEF Clean, Empty
  <2>4. ASSUME NEW v \in Workers, client'[v] = b PROVE ~ LoggingIn(v)'
    <3>1. CASE v = w
      BY <1>1, <2>1, <3>1, EndEffect DEF LoggingIn
    <3>2. CASE v # w
      <4>1. Kind(req[v]) \in overlap[w]
        BY <1>1, <2>1, <2>4, <3>2, NobodyAssumption DEF OverlapsKnown
      <4> QED
        BY <1>1, <2>2, <4>1 DEF Kind, LoggingIn
    <3> QED
      BY <3>1, <3>2
  <2> QED
    BY <1>1, <1>2, <2>3, <2>4 DEF OutAt, Clean
<1> QED
  BY <1>3, <1>4

\* While a browser is in, a script of its own only reads the login, unless it
\* is no longer recent, and the others' scripts have other sessions.
LEMMA StepKeepsIn ==
  ASSUME SessionInv, SessionInv', StandingInv, NEW w \in Workers, Step(w),
         NEW b \in Browsers
  PROVE  InAt(b)'
<1> USE DEF StandingInv
<1>1. /\ UNCHANGED <<clock, jar, req, client, cookie, overlap>>
      /\ client[w] \in Browsers
      /\ \A v \in Workers : v # w => open'[v] = open[v] /\ sess'[v] = sess[v]
  BY StepIsLocal
<1>2. SUFFICES ASSUME standing'[b] = "in" PROVE InAt(b)'
  BY DEF InAt
<1>3. standing[b] = "in"
  BY <1>1, <1>2, StepKinds, StartNewEffect, StartKnownEffect, QuietEffect,
     LoginEffect, EndEffect, FinishEffect DEF SessionInv, TypeOK
<1>4. /\ jar[b] # NoSid
      /\ \A v \in Workers : client[v] = b =>
            cookie[v] = jar[b] /\ ~ IsLogin(req[v]) /\ ~ IsLogout(req[v])
      /\ RecentLogin(b) =>
            /\ Newest(store[jar[b]], b)
            /\ \A v \in Workers : open[v] = jar[b] => Newest(sess[v], b)
  BY <1>3 DEF InAt
<1>5. jar[b] \in Sids /\ madeFor[jar[b]] = b
  BY <1>4 DEF SessionInv, TypeOK, SessionsOwned, IdsOwned, OwnedBy
<1>6. CASE client[w] # b
  <2>1. store'[jar[b]] = store[jar[b]] /\ open'[w] # jar[b]
    BY <1>5, <1>6, OthersSessions, NobodyAssumption
  <2>2. logins'[b] = logins[b]
    <3>1. logins' = logins \/ logins' = [logins EXCEPT ![client[w]] = @ \cup {clock}]
      BY StepKinds, StartNewEffect, StartKnownEffect, QuietEffect, LoginEffect,
         EndEffect, FinishEffect
    <3> QED
      BY <1>6, <3>1 DEF SessionInv, TypeOK
  <2>3. RecentLogin(b)' => RecentLogin(b)
    BY <1>1, <2>2 DEF RecentLogin
  <2> QED
    BY <1>1, <1>4, <2>1, <2>2, <2>3 DEF InAt, Newest
<1>7. CASE client[w] = b
  <2>1. PhaseAt(w) /\ OwnAt(w) /\ cookie[w] = jar[b]
        /\ ~ IsLogin(req[w]) /\ ~ IsLogout(req[w])
    BY <1>4, <1>7
  <2>2. open[w] = NoSid \/ open[w] = jar[b]
    BY <1>4, <2>1 DEF OwnAt, OwnSid
  <2>3. pc[w] \notin {"login", "verified", "logout"}
    BY <2>1 DEF PhaseAt
  <2>4. SUFFICES ASSUME RecentLogin(b)'
                 PROVE  /\ Newest(store[jar[b]], b)'
                        /\ \A v \in Workers :
                              open'[v] = jar[b] => Newest(sess[v], b)'
    BY <1>1, <1>4 DEF InAt
  <2>5. logins' = logins
    BY <2>3, StepKinds, StartNewEffect, StartKnownEffect, QuietEffect,
       LoginEffect, EndEffect, FinishEffect
  <2>6. RecentLogin(b)
    BY <1>1, <2>4, <2>5 DEF RecentLogin
  <2>7. /\ Newest(store[jar[b]], b)
        /\ \A v \in Workers : open[v] = jar[b] => Newest(sess[v], b)
    BY <1>4, <2>6
  <2>8. ASSUME \/ store' = store
               \/ open[w] = jar[b] /\ store' = [store EXCEPT ![jar[b]] = sess[w]],
               \/ open'[w] # jar[b]
               \/ sess'[w] = sess[w] /\ open[w] = jar[b]
               \/ sess'[w] = store[jar[b]]
        PROVE  /\ Newest(store[jar[b]], b)'
               /\ \A v \in Workers : open'[v] = jar[b] => Newest(sess[v], b)'
    <3>0. store \in [Sids -> Data]
      BY DEF SessionInv, TypeOK
    <3>1. \/ store'[jar[b]] = store[jar[b]]
          \/ open[w] = jar[b] /\ store'[jar[b]] = sess[w]
      BY <1>5, <2>8, <3>0
    <3>2. Newest(store[jar[b]], b)'
      BY <1>1, <2>5, <2>7, <3>1 DEF Newest
    <3>3. ASSUME NEW v \in Workers, open'[v] = jar[b] PROVE Newest(sess[v], b)'
      <4>1. CASE v = w
        BY <2>5, <2>7, <2>8, <3>3, <4>1 DEF Newest
      <4>2. CASE v # w
        BY <1>1, <2>5, <2>7, <3>3, <4>2 DEF Newest
      <4> QED
        BY <4>1, <4>2
    <3> QED
      BY <3>2, <3>3
  <2>9. CASE StartNewSession(w)
    BY <1>4, <2>1, <2>9, StartNewEffect
  <2>10. CASE StartKnownSession(w)
    BY <2>1, <2>8, <2>10, StartKnownEffect
  <2>11. CASE QuietStep(w)
    BY <1>4, <2>2, <2>8, <2>11, QuietEffect
  <2>12. CASE LoginStep(w)
    BY <2>3, <2>12, LoginEffect
  <2>13. CASE EndStep(w)
    <3>1. open[w] = jar[b] /\ ~ (IsLoggedIn(sess[w]) /\ LastLoginIsRecent(sess[w]))
      BY <2>2, <2>3, <2>13, EndEffect
    <3>2. Newest(sess[w], b)
      BY <2>7, <3>1
    <3>3. PICK t \in logins[b] : clock <= t + MaxElapsed
      BY <2>6 DEF RecentLogin
    <3>4. /\ t \in Times /\ clock \in Times
          /\ sess[w].lastLogin \in Times \cup {NoTime}
      BY <3>3 DEF SessionInv, TypeOK, Data
    <3>5. t <= sess[w].lastLogin /\ sess[w].loggedIn
      BY <3>2, <3>3 DEF Newest
    <3> QED
      BY <3>1, <3>3, <3>4, <3>5, BoundsAssumption
         DEF IsLoggedIn, LastLoginIsRecent, Times, NoTime
  <2>14. CASE Finish(w)
    <3>1. /\ \/ open[w] = NoSid /\ store' = store
             \/ open[w] \in Sids /\ store' = [store EXCEPT ![open[w]] = sess[w]]
          /\ open'[w] = NoSid
      BY <2>14, FinishEffect
    <3>2. store' = store \/ open[w] = jar[b]
      BY <2>2, <3>1 DEF Sids, NoSid
    <3> QED
      BY <1>4, <2>8, <3>1, <3>2
  <2> QED
    BY <2>9, <2>10, <2>11, <2>12, <2>13, <2>14, StepKinds
<1> QED
  BY <1>6, <1>7

\* The steps of a script preserve the whole invariant.
LEMMA StepStands ==
  ASSUME SessionInv, SessionInv', StandingInv, NEW w \in Workers, Step(w)
  PROVE  StandingInv'
<1>1. LoginsPast'
  <2>1. \/ logins' = logins
        \/ logins' = [logins EXCEPT ![client[w]] = @ \cup {clock}]
    BY StepKinds, StartNewEffect, StartKnownEffect, QuietEffect, LoginEffect,
       EndEffect, FinishEffect
  <2>2. clock' = clock /\ clock \in Int
    BY StepIsLocal DEF SessionInv, TypeOK, Times
  <2> QED
    BY <2>1, <2>2 DEF StandingInv, LoginsPast, SessionInv, TypeOK
<1> QED
  BY <1>1, StepOwnParts, StepOtherParts, StepKeepsJars, StepKeepsNewest,
     StepKeepsOut, StepKeepsIn DEF StandingInv
-----------------------------------------------------------------------------
(* Requests and answers preserve it.                                       *)

\* No session changes, so an id without a login stays one.
LEMMA WireKeepsClean ==
  ASSUME UNCHANGED <<store, open, sess>>, NEW s
  PROVE  Clean(s)' <=> Clean(s)
BY DEF Clean

\* A request overlaps everything its browser has in flight, and a login or a
\* logout leaves the browser nothing to rely on.
LEMMA IssueStands ==
  ASSUME SessionInv, StandingInv,
         NEW b \in Browsers, NEW w \in Workers, NEW q \in SiteRequests,
         Issue(b, w, q)
  PROVE  StandingInv'
<1> USE DEF StandingInv
<1>1. /\ pc[w] = "idle" /\ pc'[w] = "queued"
      /\ client[w] = Nobody /\ client'[w] = b
      /\ req'[w] = q /\ cookie'[w] = jar[b]
      /\ setCookie[w] = NoSid /\ open[w] = NoSid
      /\ overlap'[w] = {Kind(req[u]) : u \in {v \in Workers : client[v] = b}}
      /\ UNCHANGED <<clock, jar, setCookie, store, open, sess, logins>>
      /\ \A c \in Browsers : c # b => standing'[c] = standing[c]
      /\ standing'[b] = IF IsLogin(q) \/ IsLogout(q) THEN "unknown"
                                                     ELSE standing[b]
  BY IssueEffect
<1>2. \A v \in Workers : v # w =>
         /\ pc'[v] = pc[v] /\ client'[v] = client[v] /\ req'[v] = req[v]
         /\ cookie'[v] = cookie[v]
         /\ overlap'[v] = IF client[v] = b THEN overlap[v] \cup {Kind(q)}
                                           ELSE overlap[v]
  BY IssueEffect
<1>3. ASSUME NEW v \in Workers
      PROVE  PhaseAt(v)' /\ OwnAt(v)' /\ JarAt(v)' /\ AnswerAt(v)' /\ NewestAt(v)'
  <2>1. CASE v = w
    <3>1. AnswerAt(v)'
      BY <1>1, <2>1 DEF AnswerAt, Clean
    <3> QED
      BY <1>1, <2>1, <3>1 DEF PhaseAt, OwnAt, JarAt, NewestAt
  <2>2. CASE v # w
    <3>1. PhaseAt(v) /\ OwnAt(v) /\ JarAt(v) /\ AnswerAt(v) /\ NewestAt(v)
      OBVIOUS
    <3>2. PhaseAt(v)' /\ OwnAt(v)'
      BY <1>1, <1>2, <2>2, <3>1 DEF PhaseAt, OwnAt, OwnSid
    <3>3. JarAt(v)' /\ AnswerAt(v)'
      BY <1>1, <1>2, <2>2, <3>1 DEF JarAt, AnswerAt, Clean
    <3>4. NewestAt(v)'
      BY <1>1, <1>2, <2>2, <3>1 DEF NewestAt, Newest
    <3> QED
      BY <3>2, <3>3, <3>4
  <2> QED
    BY <2>1, <2>2
<1>4. OverlapsKnown'
  <2>1. SUFFICES ASSUME NEW u \in Workers, NEW v \in Workers, u # v,
                        client'[u] = client'[v], client'[v] # Nobody
                 PROVE  Kind(req'[u]) \in overlap'[v]
    BY DEF OverlapsKnown, Kind
  <2>2. CASE u = w
    BY <1>1, <1>2, <2>1, <2>2
  <2>3. CASE v = w
    BY <1>1, <1>2, <2>1, <2>3
  <2>4. CASE u # w /\ v # w
    <3>1. Kind(req[u]) \in overlap[v]
      BY <1>2, <2>1, <2>4 DEF OverlapsKnown
    <3> QED
      BY <1>2, <2>4, <3>1
  <2> QED
    BY <2>2, <2>3, <2>4
<1>5. ASSUME NEW c \in Browsers PROVE OutAt(c)'
  <2>1. OutAt(c)
    OBVIOUS
  <2>2. Clean(jar[c])' <=> Clean(jar[c])
    BY <1>1 DEF Clean
  <2> QED
    BY <1>1, <1>2, <2>1, <2>2 DEF OutAt, LoggingIn
<1>6. ASSUME NEW c \in Browsers PROVE InAt(c)'
  <2>1. InAt(c)
    OBVIOUS
  <2>2. SUFFICES ASSUME standing'[c] = "in"
                 PROVE  /\ jar[c] # NoSid
                        /\ \A v \in Workers : client'[v] = c =>
                              /\ cookie'[v] = jar[c]
                              /\ ~ IsLogin(req'[v]) /\ ~ IsLogout(req'[v])
                        /\ standing[c] = "in"
    BY <1>1, <2>1 DEF InAt, Newest, RecentLogin
  <2>3. standing[c] = "in" /\ (c = b => ~ IsLogin(q) /\ ~ IsLogout(q))
    BY <1>1, <2>2
  <2> QED
    BY <1>1, <1>2, <2>1, <2>3 DEF InAt
<1>7. LoginsPast'
  BY <1>1 DEF LoginsPast
<1> QED
  BY <1>3, <1>4, <1>5, <1>6, <1>7

\* An answer brings a login only to a browser that may be in, and every other
\* answer an id without one.
LEMMA AnswerStands ==
  ASSUME SessionInv, StandingInv, NEW w \in Workers, Deliver(w) \/ LoseAnswer(w)
  PROVE  StandingInv'
<1> USE DEF StandingInv
<1> DEFINE b == client[w]
<1>1. /\ pc[w] \in {"sentPage", "sent"} /\ pc'[w] = "idle"
      /\ b \in Browsers /\ client'[w] = Nobody
      /\ setCookie'[w] = NoSid /\ open[w] = NoSid
      /\ UNCHANGED <<clock, store, open, sess, logins>>
      /\ \A c \in Browsers : c # b => jar'[c] = jar[c] /\ standing'[c] = standing[c]
      /\ jar'[b] \in {jar[b]} \cup ({setCookie[w]} \ {NoSid})
      /\ \/ standing'[b] = standing[b]
         \/ /\ standing'[b] = "in"
            /\ pc[w] = "sentPage" /\ IsLogin(req[w]) /\ overlap[w] = {}
            /\ setCookie[w] # NoSid => jar'[b] = setCookie[w]
  BY AnswerEffect
<1>2. \A v \in Workers : v # w =>
         /\ pc'[v] = pc[v] /\ setCookie'[v] = setCookie[v]
         /\ client'[v] = client[v] /\ req'[v] = req[v]
         /\ cookie'[v] = cookie[v] /\ overlap'[v] = overlap[v]
  BY AnswerEffect
<1>3. \A s : Clean(s)' <=> Clean(s)
  BY <1>1, WireKeepsClean
<1>4. /\ PhaseAt(w) /\ OwnAt(w) /\ JarAt(w) /\ AnswerAt(w) /\ NewestAt(w)
      /\ OutAt(b) /\ InAt(b)
  BY <1>1
<1> HIDE DEF b
<1>5. ASSUME NEW v \in Workers
      PROVE  PhaseAt(v)' /\ OwnAt(v)' /\ JarAt(v)' /\ AnswerAt(v)' /\ NewestAt(v)'
  <2>1. CASE v = w
    <3>1. AnswerAt(v)'
      BY <1>1, <2>1 DEF AnswerAt, Clean
    <3> QED
      BY <1>1, <2>1, <3>1 DEF PhaseAt, OwnAt, JarAt, NewestAt
  <2>2. CASE v # w
    <3>1. PhaseAt(v) /\ OwnAt(v) /\ JarAt(v) /\ AnswerAt(v) /\ NewestAt(v)
      OBVIOUS
    <3>2. PhaseAt(v)' /\ OwnAt(v)'
      BY <1>1, <1>2, <2>2, <3>1 DEF PhaseAt, OwnAt, OwnSid
    <3>3. AnswerAt(v)'
      BY <1>1, <1>2, <2>2, <3>1 DEF AnswerAt, Clean
    <3>4. NewestAt(v)'
      BY <1>1, <1>2, <2>2, <3>1 DEF NewestAt, Newest
    <3>5. JarAt(v)'
      <4>1. CASE client[v] # b \/ jar'[b] = jar[b]
        <5>1. client[v] \in Browsers \cup {Nobody}
          BY DEF SessionInv, TypeOK
        <5>2. client[v] # Nobody => jar'[client[v]] = jar[client[v]]
          BY <1>1, <4>1, <5>1
        <5> QED
          BY <1>1, <1>2, <2>2, <3>1, <5>2 DEF JarAt, Clean
      <4>2. CASE client[v] = b /\ jar'[b] # jar[b]
        <5>1. Kind(req[w]) \in overlap[v]
          BY <1>1, <2>2, <4>2, NobodyAssumption DEF OverlapsKnown, b
        <5>2. "login" \notin overlap[v] => Clean(setCookie[w])
          BY <1>4, <5>1 DEF AnswerAt, Kind
        <5>3. jar'[client'[v]] = setCookie[w]
          BY <1>1, <1>2, <2>2, <4>2
        <5>4. "login" \notin overlap[v] => Clean(jar[client[v]])'
          BY <1>1, <5>2, <5>3 DEF Clean
        <5> QED
          BY <1>2, <2>2, <5>1, <5>4 DEF JarAt
      <4> QED
        BY <4>1, <4>2
    <3> QED
      BY <3>2, <3>3, <3>4, <3>5
  <2> QED
    BY <2>1, <2>2
<1>6. OverlapsKnown'
  <2>1. SUFFICES ASSUME NEW u \in Workers, NEW v \in Workers, u # v,
                        client'[u] = client'[v], client'[v] # Nobody
                 PROVE  Kind(req'[u]) \in overlap'[v]
    BY DEF OverlapsKnown, Kind
  <2>2. u # w /\ v # w
    BY <1>1, <2>1
  <2>3. Kind(req[u]) \in overlap[v]
    BY <1>2, <2>1, <2>2 DEF OverlapsKnown
  <2> QED
    BY <1>2, <2>2, <2>3
<1>7. ASSUME NEW c \in Browsers PROVE OutAt(c)'
  <2>1. OutAt(c)
    OBVIOUS
  <2>2. SUFFICES ASSUME standing'[c] = "out" PROVE OutAt(c)'
    BY DEF OutAt
  <2>3. standing[c] = "out"
    BY <1>1, <2>2
  <2>4. \A v \in Workers : client'[v] = c => ~ LoggingIn(v)'
    <3>1. \A v \in Workers : client'[v] = c => v # w
      BY <1>1, NobodyAssumption
    <3> QED
      BY <1>2, <2>1, <2>3, <3>1 DEF OutAt, LoggingIn
  <2>5. CASE jar'[c] = jar[c]
    BY <1>1, <2>1, <2>3, <2>4, <2>5 DEF OutAt, Clean
  <2>6. CASE jar'[c] # jar[c]
    <3>1. c = b /\ jar'[c] = setCookie[w]
      BY <1>1, <2>6
    <3>2. ~ LoggingIn(w)
      BY <2>1, <2>3, <3>1 DEF OutAt, b
    <3>3. Clean(setCookie[w])
      BY <1>4, <3>2 DEF AnswerAt, LoggingIn
    <3>4. Clean(jar[c])'
      BY <1>1, <3>1, <3>3 DEF Clean
    <3> QED
      BY <2>4, <3>4 DEF OutAt
  <2> QED
    BY <2>5, <2>6
<1>8. ASSUME NEW c \in Browsers PROVE InAt(c)'
  <2>1. SUFFICES ASSUME standing'[c] = "in" PROVE InAt(c)'
    BY DEF InAt
  <2>2. InAt(c)
    OBVIOUS
  <2>3. \A v \in Workers : client'[v] = c => v # w /\ client[v] = c
    BY <1>1, <1>2, NobodyAssumption
  <2>4. CASE standing[c] = "in"
    <3>1. jar'[c] = jar[c]
      <4>1. CASE c = b
        <5>1. cookie[w] = jar[b] /\ jar[b] # NoSid /\ ~ IsLogin(req[w])
          BY <2>2, <2>4, <4>1 DEF InAt, b
        <5>2. setCookie[w] = NoSid
          BY <1>4, <5>1 DEF OwnAt
        <5> QED
          BY <1>1, <4>1, <5>2
      <4> QED
        BY <1>1, <4>1
    <3> QED
      BY <1>1, <1>2, <2>2, <2>3, <2>4, <3>1 DEF InAt, Newest, RecentLogin
  <2>5. CASE standing[c] # "in"
    <3>1. /\ c = b
          /\ pc[w] = "sentPage" /\ IsLogin(req[w]) /\ overlap[w] = {}
          /\ setCookie[w] # NoSid => jar'[b] = setCookie[w]
      BY <1>1, <2>1, <2>5
    <3>2. /\ setCookie[w] # NoSid /\ jar'[b] = setCookie[w]
          /\ Newest(store[setCookie[w]], b)
      BY <1>4, <3>1 DEF NewestAt, b
    <3>3. \A v \in Workers : v # w => client[v] # b
      BY <1>1, <3>1, NobodyAssumption DEF OverlapsKnown, b
    <3>4. \A v \in Workers : open[v] # setCookie[w]
      <4>1. madeFor[setCookie[w]] = b
        BY <3>2 DEF SessionInv, SessionsOwned, IdsOwned, OwnedBy, b
      <4>2. ASSUME NEW v \in Workers, open[v] = setCookie[w] PROVE FALSE
        BY <1>1, <3>2, <3>3, <4>1, <4>2
           DEF SessionInv, SessionsOwned, IdsOwned, OwnedBy
      <4> QED
        BY <4>2
    <3> QED
      BY <1>1, <2>3, <3>1, <3>2, <3>3, <3>4 DEF InAt, Newest
  <2> QED
    BY <2>4, <2>5
<1>9. LoginsPast'
  BY <1>1 DEF LoginsPast
<1> QED
  BY <1>5, <1>6, <1>7, <1>8, <1>9

\* Time only makes logins older.
LEMMA TickStands ==
  ASSUME SessionInv, StandingInv, Tick
  PROVE  StandingInv'
<1> USE DEF StandingInv
<1>1. /\ clock \in Nat /\ clock' = clock + 1
      /\ UNCHANGED <<wire, ids, store, open, sess, pc, logins, standing>>
  BY BoundsAssumption DEF Tick, SessionInv, TypeOK, Times
<1>2. LoginsPast'
  <2>1. \A b \in Browsers : logins[b] \subseteq Times
    BY DEF SessionInv, TypeOK
  <2> QED
    BY <1>1, <2>1 DEF LoginsPast, Times
<1>3. ASSUME NEW b \in Browsers PROVE InAt(b)'
  <2>1. RecentLogin(b)' => RecentLogin(b)
    <3>1. logins[b] \subseteq Times /\ MaxElapsed \in Nat
      BY BoundsAssumption DEF SessionInv, TypeOK
    <3> QED
      BY <1>1, <3>1 DEF RecentLogin, Times
  <2>2. InAt(b)
    OBVIOUS
  <2> QED
    BY <1>1, <2>1, <2>2 DEF wire, InAt, Newest
<1>4. ASSUME NEW b \in Browsers PROVE OutAt(b)'
  <2>1. OutAt(b)
    OBVIOUS
  <2> QED
    BY <1>1, <2>1 DEF wire, OutAt, LoggingIn, Clean
<1>5. ASSUME NEW w \in Workers
      PROVE  PhaseAt(w)' /\ OwnAt(w)' /\ JarAt(w)' /\ AnswerAt(w)' /\ NewestAt(w)'
  <2>1. PhaseAt(w) /\ OwnAt(w) /\ JarAt(w) /\ AnswerAt(w) /\ NewestAt(w)
    OBVIOUS
  <2> QED
    BY <1>1, <2>1 DEF wire, ids, PhaseAt, OwnAt, OwnSid, JarAt, AnswerAt,
       NewestAt, Newest, Clean
<1>6. OverlapsKnown'
  BY <1>1 DEF wire, OverlapsKnown
<1> QED
  BY <1>2, <1>3, <1>4, <1>5, <1>6

\* Nothing changes at all.
LEMMA StutterStands ==
  ASSUME StandingInv, UNCHANGED vars
  PROVE  StandingInv'
BY DEF vars, wire, ids, StandingInv, PhaseAt, OwnAt, OwnSid, JarAt, AnswerAt,
       NewestAt, Newest, Clean, OverlapsKnown, OutAt, LoggingIn, InAt,
       RecentLogin, LoginsPast

\* Together with SessionInv the invariant is inductive.
LEMMA NextStands ==
  SessionInv /\ SessionInv' /\ StandingInv /\ [Next]_vars => StandingInv'
<1> SUFFICES ASSUME SessionInv, SessionInv', StandingInv, [Next]_vars
             PROVE  StandingInv'
  OBVIOUS
<1>1. CASE \E b \in Browsers, w \in Workers, q \in SiteRequests : Issue(b, w, q)
  BY <1>1, IssueStands
<1>2. CASE \E w \in Workers : Step(w) \/ Deliver(w) \/ LoseAnswer(w)
  BY <1>2, StepStands, AnswerStands
<1>3. CASE Tick
  BY <1>3, TickStands
<1>4. CASE Quiet \/ UNCHANGED vars
  BY <1>4, StutterStands DEF Quiet
<1> QED
  BY <1>1, <1>2, <1>3, <1>4 DEF Next

\* What a browser may rely on is backed, in every reachable state, by what its
\* jar names, what its scripts have open and what its answers will set.
THEOREM StandingInvariant == Spec => []StandingInv
<1> QED
  BY SessionInvariant, InitStands, NextStands, PTL DEF Spec

\* After a logout or a refused login that no other login of the browser
\* overlapped, the id in its jar carries no login until it sends the next one,
\* whatever its other tabs had in flight and whenever their answers arrive.
THEOREM LogoutsHold == Spec => []LogoutHolds
<1>1. StandingInv => LogoutHolds
  BY DEF StandingInv, OutAt, Clean, LogoutHolds
<1> QED
  BY <1>1, StandingInvariant, PTL

\* After an accepted login that nothing overlapped, the id in the browser's jar
\* carries the login while it is recent, until the browser logs in or out.
THEOREM LoginsHold == Spec => []LoginHolds
<1>1. StandingInv => LoginHolds
  BY DEF StandingInv, InAt, RecentLogin, Newest, LoginHolds
<1> QED
  BY <1>1, StandingInvariant, PTL
=============================================================================
