----------------------------- MODULE ShopProofs -----------------------------
(***************************************************************************)
(* What the shop promises as a whole, for any number of browsers, scripts, *)
(* requests and products: its steps are steps of AdminSession and of       *)
(* Catalog, so what is proved of each holds in the composition; the two    *)
(* together let only a granted script that is no GET change a product; and *)
(* a form sent by a browser that has logged out changes none.              *)
(***************************************************************************)
EXTENDS Shop, AdminSessionProofs

\* A step of the shop is a step of the sessions or leaves them alone.
LEMMA SessionStep == [ShopNext]_shopVars => [Next]_vars
<1> SUFFICES ASSUME [ShopNext]_shopVars PROVE [Next]_vars
  OBVIOUS
<1>1. CASE \E b \in Browsers, w \in Workers, q \in SiteRequests : Send(b, w, q)
  BY <1>1 DEF Send, Next
<1>2. ASSUME NEW w \in Workers, SessionOnly(w) \/ Dispatched(w) \/ TurnAway(w)
                                  \/ Grant(w) \/ Deny(w) \/ End(w)
      PROVE  Next
  BY <1>2 DEF SessionOnly, Dispatched, TurnAway, Grant, Deny, End, Next, Step
<1>3. ASSUME NEW w \in Workers, Answer(w)
      PROVE  Next
  BY <1>3 DEF Answer, Next
<1>4. ASSUME NEW w \in Workers, Query(w)
      PROVE  UNCHANGED vars
  BY <1>4 DEF Query
<1>5. CASE Idle
  BY <1>5 DEF Idle, Next
<1>6. CASE UNCHANGED shopVars
  BY <1>6 DEF shopVars
<1> QED
  BY <1>1, <1>2, <1>3, <1>4, <1>5, <1>6 DEF ShopNext

\* A step of the shop is a step of the catalogue or leaves it alone.
LEMMA CatalogStep == [ShopNext]_shopVars => [Cat!Next]_(Cat!vars)
<1> SUFFICES ASSUME [ShopNext]_shopVars PROVE [Cat!Next]_(Cat!vars)
  OBVIOUS
<1>1. ASSUME NEW b \in Browsers, NEW w \in Workers, NEW q \in SiteRequests,
             Send(b, w, q)
      PROVE  [Cat!Next]_(Cat!vars)
  <2>1. CASE CatalogKind(q) = "none"
    BY <1>1, <2>1 DEF Send, catalogVars, Cat!vars
  <2>2. CASE CatalogKind(q) # "none"
    BY <1>1, <2>2 DEF Send, Cat!Next
  <2> QED
    BY <2>1, <2>2
<1>2. ASSUME NEW w \in Workers, SessionOnly(w) \/ Answer(w)
      PROVE  UNCHANGED Cat!vars
  BY <1>2 DEF SessionOnly, Answer, catalogVars, Cat!vars
<1>3. ASSUME NEW w \in Workers, Dispatched(w) \/ End(w)
      PROVE  [Cat!Next]_(Cat!vars)
  <2>1. CASE UNCHANGED catalogVars
    BY <2>1 DEF catalogVars, Cat!vars
  <2>2. CASE Cat!Admit(w) \/ Cat!Show(w) \/ Cat!Fail(w)
    BY <2>2 DEF Cat!Next
  <2> QED
    BY <1>3, <2>1, <2>2 DEF Dispatched, End
<1>4. ASSUME NEW w \in Workers, TurnAway(w) \/ Deny(w) \/ Grant(w) \/ Query(w)
      PROVE  Cat!Next
  BY <1>4 DEF TurnAway, Deny, Grant, Query, Cat!Next
<1>5. CASE Idle \/ UNCHANGED shopVars
  BY <1>5 DEF Idle, shopVars, catalogVars, Cat!vars
<1> QED
  BY <1>1, <1>2, <1>3, <1>4, <1>5 DEF ShopNext

\* The shop implements its parts: every behaviour of it is one of the sessions
\* and one of the catalogue.
THEOREM PartsImplemented == ShopSpec => Spec /\ Cat!Spec
<1>1. ShopInit => Init /\ Cat!Init
  BY DEF ShopInit
<1> QED
  BY <1>1, SessionStep, CatalogStep, PTL DEF ShopSpec, Spec, Cat!Spec
-----------------------------------------------------------------------------
(* The invariant that ties the phases of a script together.                *)

\* The initial state has no script.
LEMMA ShopInitInv == ShopInit => ShopInv
<1> SUFFICES ASSUME ShopInit PROVE ShopInv
  OBVIOUS
<1>1. SessionInv
  BY InitInv DEF ShopInit
<1>2. ShopTypes
  <2>1. Cat!NoSubmission \in Cat!Submissions
    BY DEF Cat!NoSubmission, Cat!Submissions, Cat!Kinds, Cat!NoCategory,
           Cat!BlankCategory, Cat!NoContent
  <2> QED
    BY <2>1, ShopAssumption DEF ShopInit, ShopTypes, Cat!Init, Cat!PCs
<1>3. Coupled
  BY DEF ShopInit, Coupled, CoupledAt, Init, Cat!Init, NoRequest, CatalogKind,
         Controller, Method
<1> QED
  BY <1>1, <1>2, <1>3 DEF ShopInv

\* The rows of a table that no insert has touched stay among the ids handed
\* out, and an insert hands out its id.
LEMMA StatementTypes ==
  ASSUME ShopTypes, NEW w \in Workers, Cat!Statement(w)
  PROVE  /\ cpc' \in [Workers -> Cat!PCs]
         /\ form' = form
         /\ nextId' \in Nat \ {0}
         /\ products' = [i \in DOMAIN products' |-> products'[i]]
         /\ DOMAIN products' \subseteq 1 .. nextId' - 1
<1> USE DEF ShopTypes, Cat!PCs
<1>1. CASE Cat!InsertProduct(w)
  BY <1>1 DEF Cat!InsertProduct, Cat!Written
<1>2. CASE Cat!UpdateProduct(w)
  BY <1>2 DEF Cat!UpdateProduct, Cat!Written
<1>3. CASE Cat!DeleteProductById(w)
  BY <1>3 DEF Cat!DeleteProductById, Cat!Written
<1>4. CASE \/ Cat!ReadProductsByCategoryId(w)
           \/ Cat!ReadProduct(w)
           \/ Cat!ReadProductStore(w)
  BY <1>4 DEF Cat!ReadProductsByCategoryId, Cat!ReadProduct,
              Cat!ReadProductStore, Cat!Read
<1> QED
  BY <1>1, <1>2, <1>3, <1>4 DEF Cat!Statement

\* What every other step of the shop does to the variables of ShopTypes.
LEMMA TypesPreserved == ShopInv /\ [ShopNext]_shopVars => ShopTypes'
<1> SUFFICES ASSUME ShopInv, [ShopNext]_shopVars PROVE ShopTypes'
  OBVIOUS
<1> USE DEF ShopInv
<1>0. Cat!NoSubmission \in Cat!Submissions
  BY DEF Cat!NoSubmission, Cat!Submissions, Cat!Kinds, Cat!NoCategory,
         Cat!BlankCategory, Cat!NoContent
<1>1. ASSUME NEW b \in Browsers, NEW w \in Workers, NEW q \in SiteRequests,
             Send(b, w, q)
      PROVE  ShopTypes'
  <2>1. CASE CatalogKind(q) = "none"
    BY <1>1, <2>1 DEF Send, catalogVars, ShopTypes
  <2>2. CASE CatalogKind(q) # "none"
    BY <1>1, <2>2 DEF Send, Cat!Submit, ShopTypes, Cat!PCs
  <2> QED
    BY <2>1, <2>2
<1>2. ASSUME NEW w \in Workers, SessionOnly(w) \/ Answer(w)
      PROVE  ShopTypes'
  BY <1>2 DEF SessionOnly, Answer, catalogVars, history, ShopTypes, Times, NoTime
<1>3. ASSUME NEW w \in Workers, Dispatched(w)
      PROVE  ShopTypes'
  BY <1>3 DEF Dispatched, Cat!Admit, catalogVars, history, ShopTypes, Cat!PCs
<1>4. ASSUME NEW w \in Workers, TurnAway(w) \/ Deny(w)
      PROVE  ShopTypes'
  BY <1>0, <1>4 DEF TurnAway, Deny, Cat!Refuse, Cat!Leave, history, ShopTypes,
                    Cat!PCs
<1>5. ASSUME NEW w \in Workers, Grant(w)
      PROVE  ShopTypes'
  BY <1>5 DEF Grant, Cat!Admit, ShopTypes, Cat!PCs, SessionInv, TypeOK
<1>6. ASSUME NEW w \in Workers, Query(w)
      PROVE  ShopTypes'
  BY <1>6, StatementTypes DEF Query, history, ShopTypes
<1>7. ASSUME NEW w \in Workers, End(w)
      PROVE  ShopTypes'
  <2>1. CASE UNCHANGED catalogVars
    BY <1>7, <2>1 DEF End, catalogVars, history, ShopTypes
  <2>2. CASE Cat!Show(w) \/ Cat!Fail(w)
    BY <1>0, <1>7, <2>2 DEF End, Cat!Show, Cat!Fail, Cat!Leave, history,
                            ShopTypes, Cat!PCs
  <2> QED
    BY <1>7, <2>1, <2>2 DEF End
<1>8. CASE Idle \/ UNCHANGED shopVars
  BY <1>8 DEF Idle, shopVars, catalogVars, history, ShopTypes
<1> QED
  BY <1>1, <1>2, <1>3, <1>4, <1>5, <1>6, <1>7, <1>8 DEF ShopNext
-----------------------------------------------------------------------------
(* The phases of a script stay coupled.                                    *)

\* What the routing says of the requests that the proofs tell apart.
LEMMA Routing ==
  ASSUME NEW q
  PROVE  /\ IsLogin(q) => ~ IsLogout(q) /\ ~ IsProtected(q)
         /\ IsLogout(q) => ~ IsProtected(q)
         /\ IsLogin(q) => CatalogKind(q) = "list"
         /\ IsLogout(q) => CatalogKind(q) = "none"
         /\ IsProtected(q) => CatalogKind(q) # "none"
         /\ CatalogKind(q) \in {"write", "delete"} => IsProtected(q)
         /\ CatalogKind(q) = "write" => q.method # "GET"
<1>1. /\ IsLogin(q) => ~ IsLogout(q) /\ ~ IsProtected(q)
      /\ IsLogout(q) => ~ IsProtected(q)
      /\ IsLogin(q) => CatalogKind(q) = "list"
      /\ IsLogout(q) => CatalogKind(q) = "none"
      /\ IsProtected(q) => CatalogKind(q) # "none"
      /\ CatalogKind(q) \in {"write", "delete"} => IsProtected(q)
  BY DEF IsLogin, IsLogout, IsProtected, ProtectedMethods, CatalogKind, Route
<1>2. ASSUME CatalogKind(q) = "write", q.method = "GET"
      PROVE  FALSE
  <2>1. Method(q) = "addEditProduct" /\ Controller(q.ctlr) = "admin"
    BY <1>2 DEF CatalogKind
  <2>2. RenamedAction(q) = "addEditProduct"
    BY <2>1 DEF Method
  <2>3. AcceptedAction(q) # "addEditProduct"
    BY <1>2 DEF AcceptedAction, AllowList
  <2> QED
    BY <1>2, <2>2, <2>3 DEF RenamedAction, SplitActions
<1> QED
  BY <1>1, <1>2

\* A script that no variable of changes stays coupled.
LEMMA Frame ==
  ASSUME NEW v, CoupledAt(v),
         pc'[v] = pc[v], cpc'[v] = cpc[v], req'[v] = req[v], form'[v] = form[v],
         open'[v] = open[v], sess'[v] = sess[v], grantedAt'[v] = grantedAt[v]
  PROVE  CoupledAt(v)'
BY DEF CoupledAt

\* A request arrives with what it carries.
LEMMA SendCouples ==
  ASSUME ShopInv, NEW b \in Browsers, NEW w \in Workers, NEW q \in SiteRequests,
         Send(b, w, q)
  PROVE  Coupled'
<1> USE DEF ShopInv, Coupled, Send, Issue, Goto
<1>1. ASSUME NEW v \in Workers, v # w
      PROVE  CoupledAt(v)'
  <2>1. cpc'[v] = cpc[v] /\ form'[v] = form[v]
    BY <1>1 DEF catalogVars, Cat!Submit, ShopTypes
  <2> QED
    BY <1>1, <2>1, Frame DEF SessionInv, TypeOK
<1>2. CoupledAt(w)'
  <2>1. pc'[w] = "queued" /\ req'[w] = q
    BY DEF SessionInv, TypeOK
  <2>2. CASE CatalogKind(q) = "none"
    <3>1. cpc'[w] = "idle"
      BY <2>2 DEF catalogVars, CoupledAt
    <3> QED
      BY <2>1, <2>2, <3>1 DEF CoupledAt
  <2>3. CASE CatalogKind(q) # "none"
    <3>1. cpc'[w] = "asked" /\ Carries(q, form'[w])
      BY <2>3 DEF Cat!Submit, ShopTypes
    <3> QED
      BY <2>1, <3>1 DEF CoupledAt
  <2> QED
    BY <2>2, <2>3
<1> QED
  BY <1>1, <1>2

\* Every step of one script leaves the others coupled.
LEMMA OthersCoupled ==
  ASSUME ShopInv, NEW w \in Workers, NEW v \in Workers, v # w,
         \/ SessionOnly(w) \/ Dispatched(w) \/ TurnAway(w) \/ Grant(w)
         \/ Deny(w) \/ Query(w) \/ End(w) \/ Answer(w)
  PROVE  CoupledAt(v)'
<1>1. /\ pc'[v] = pc[v] /\ req'[v] = req[v] /\ open'[v] = open[v]
      /\ sess'[v] = sess[v]
  <2> USE DEF ShopInv, SessionInv, TypeOK, wire, ids, Goto
  <2>1. CASE SessionOnly(w)
    BY <2>1 DEF SessionOnly, StartNewSession, StartKnownSession, LoginVerified,
                CompleteLogin, Logout, FreshId, RegenerateId,
                AfterSuccessfulLogin, AfterSuccessfulLogout, EndSession
  <2>2. CASE Dispatched(w) \/ TurnAway(w)
    BY <2>2 DEF Dispatched, Dispatch, TurnAway, LoginRefused, LoginAborted,
                AfterSuccessfulLogout, EndSession
  <2>3. CASE Grant(w) \/ Deny(w)
    BY <2>3 DEF Grant, GuardPasses, Deny, GuardFails, EndSession
  <2>4. CASE Query(w)
    BY <2>4 DEF Query, vars
  <2>5. CASE End(w) \/ Answer(w)
    BY <2>5 DEF End, Finish, Answer, Deliver, LoseAnswer, Release
  <2> QED
    BY <2>1, <2>2, <2>3, <2>4, <2>5
<1>2. cpc'[v] = cpc[v] /\ form'[v] = form[v]
  <2> USE DEF ShopInv, ShopTypes
  <2>1. CASE UNCHANGED catalogVars
    BY <2>1 DEF catalogVars
  <2>2. CASE Cat!Admit(w) \/ Cat!Refuse(w) \/ Cat!Show(w) \/ Cat!Fail(w)
    BY <2>2 DEF Cat!Admit, Cat!Refuse, Cat!Show, Cat!Fail, Cat!Leave
  <2>3. CASE Cat!Statement(w)
    BY <2>3 DEF Cat!Statement, Cat!InsertProduct, Cat!UpdateProduct,
                Cat!DeleteProductById, Cat!Written, Cat!ReadProduct, Cat!Read,
                Cat!ReadProductsByCategoryId, Cat!ReadProductStore
  <2> QED
    BY <2>1, <2>2, <2>3 DEF SessionOnly, Dispatched, TurnAway, Grant, Deny,
                            Query, End, Answer
<1>3. grantedAt'[v] = grantedAt[v]
  BY DEF ShopInv, ShopTypes, SessionOnly, Dispatched, TurnAway, Grant, Deny,
         Query, End, Answer, history
<1> QED
  BY <1>1, <1>2, <1>3, Frame DEF ShopInv, Coupled

\* A session is opened and changed without the catalogue noticing.
LEMMA SessionOnlyCouples ==
  ASSUME ShopInv, NEW w \in Workers, SessionOnly(w)
  PROVE  CoupledAt(w)'
<1> USE DEF ShopInv, Coupled, SessionInv, TypeOK, Goto
<1>0. cpc'[w] = cpc[w] /\ form'[w] = form[w]
  BY DEF SessionOnly, catalogVars
<1>1. CASE StartNewSession(w) \/ StartKnownSession(w)
  <2>1. pc[w] = "queued" /\ pc'[w] = "opened" /\ req'[w] = req[w]
    BY <1>1 DEF StartNewSession, StartKnownSession, wire
  <2> QED
    BY <1>0, <2>1 DEF CoupledAt
<1>2. CASE LoginVerified(w) \/ CompleteLogin(w)
  <2>1. /\ pc[w] \in {"login", "verified"} /\ pc'[w] \in {"verified", "guard"}
        /\ req'[w] = req[w]
    BY <1>2 DEF LoginVerified, CompleteLogin, wire
  <2> QED
    BY <1>0, <2>1 DEF CoupledAt
<1>3. CASE Logout(w)
  <2>1. pc[w] = "logout" /\ pc'[w] = "render"
    BY <1>3 DEF Logout
  <2> QED
    BY <1>0, <2>1 DEF CoupledAt
<1> QED
  BY <1>1, <1>2, <1>3 DEF SessionOnly

\* The broker sends a protected method to the guard and a public one to its
\* statements.
LEMMA DispatchedCouples ==
  ASSUME ShopInv, NEW w \in Workers, Dispatched(w)
  PROVE  CoupledAt(w)'
<1> USE DEF ShopInv, Coupled, SessionInv, TypeOK, Goto
<1>1. pc[w] = "opened" /\ req'[w] = req[w]
  BY DEF Dispatched, Dispatch, wire
<1>2. CoupledAt(w)
  OBVIOUS
<1>3. form'[w] = form[w]
  BY DEF Dispatched, Cat!Admit, catalogVars
<1>4. cpc[w] \in {"idle", "asked"}
  BY <1>1, <1>2 DEF CoupledAt, ShopTypes, Cat!PCs
<1>5. CASE IsLogin(req[w])
  <2>1. pc'[w] = "login" /\ cpc'[w] = cpc[w]
    BY <1>5, Routing DEF Dispatched, Dispatch, catalogVars
  <2> QED
    BY <1>1, <1>2, <1>3, <1>5, <2>1, Routing DEF CoupledAt
<1>6. CASE ~ IsLogin(req[w]) /\ IsLogout(req[w])
  <2>1. pc'[w] = "logout" /\ cpc'[w] = cpc[w]
    BY <1>6, Routing DEF Dispatched, Dispatch, catalogVars
  <2>2. cpc[w] = "idle"
    <3>1. SUFFICES ASSUME cpc[w] # "idle" PROVE FALSE
      OBVIOUS
    <3>2. form[w].kind = "none"
      BY <1>2, <1>6, <3>1, Routing DEF CoupledAt, Carries
    <3> QED
      BY <3>2 DEF ShopTypes, Cat!Submissions, Cat!Kinds
  <2> QED
    BY <2>1, <2>2 DEF CoupledAt
<1>7. CASE ~ IsLogin(req[w]) /\ ~ IsLogout(req[w]) /\ IsProtected(req[w])
  <2>1. pc'[w] = "guard" /\ cpc'[w] = cpc[w]
    BY <1>7 DEF Dispatched, Dispatch, catalogVars
  <2> QED
    BY <1>1, <1>2, <1>3, <1>7, <2>1, Routing DEF CoupledAt
<1>8. CASE ~ IsLogin(req[w]) /\ ~ IsLogout(req[w]) /\ ~ IsProtected(req[w])
  <2>1. pc'[w] = "render"
    BY <1>8 DEF Dispatched, Dispatch
  <2>2. cpc'[w] \in {"idle", "admitted"}
    BY <1>4, <2>1 DEF Dispatched, Cat!Admit, catalogVars, ShopTypes
  <2> QED
    BY <1>1, <1>2, <1>3, <1>4, <1>8, <2>1, <2>2
       DEF CoupledAt, Dispatched, Cat!Admit, catalogVars
<1> QED
  BY <1>5, <1>6, <1>7, <1>8

\* The guard passes on the login it has read.
LEMMA GrantCouples ==
  ASSUME ShopInv, NEW w \in Workers, Grant(w)
  PROVE  CoupledAt(w)'
<1> USE DEF ShopInv, Coupled, SessionInv, TypeOK, Goto
<1>1. /\ pc[w] = "guard" /\ pc'[w] = "page" /\ req'[w] = req[w]
      /\ open'[w] = open[w] /\ sess'[w] = sess[w]
  BY DEF Grant, GuardPasses, wire
<1>2. cpc'[w] = "admitted" /\ form'[w] = form[w] /\ cpc[w] = "asked"
  BY DEF Grant, Cat!Admit, ShopTypes
<1>3. Carries(req[w], form[w])
  BY <1>2 DEF CoupledAt
<1>4. open[w] # NoSid
  BY <1>1 DEF PhasesOK, Unopened
<1>5. grantedAt'[w] = clock
  BY DEF Grant, ShopTypes
<1>6. sess[w].loggedIn /\ clock <= sess[w].lastLogin + MaxElapsed
  <2>1. sess[w].lastLogin \in Times \cup {NoTime}
    BY DEF Data
  <2> QED
    BY <2>1, BoundsAssumption
       DEF Grant, GuardPasses, IsLoggedIn, LastLoginIsRecent, Times, NoTime
<1> QED
  BY <1>1, <1>2, <1>3, <1>4, <1>5, <1>6 DEF CoupledAt

\* A script that is turned away, or over, has no statement left.
LEMMA LeaverCouples ==
  ASSUME ShopInv, NEW w \in Workers,
         TurnAway(w) \/ Deny(w) \/ End(w) \/ Answer(w)
  PROVE  CoupledAt(w)'
<1> USE DEF ShopInv, Coupled, SessionInv, TypeOK, ShopTypes, Goto
<1>1. CASE TurnAway(w) \/ Deny(w)
  <2>1. pc'[w] = "render"
    BY <1>1 DEF TurnAway, LoginRefused, LoginAborted, Deny, GuardFails
  <2>2. cpc'[w] = "idle"
    BY <1>1 DEF TurnAway, Deny, Cat!Refuse, Cat!Leave
  <2> QED
    BY <2>1, <2>2 DEF CoupledAt
<1>2. CASE End(w)
  <2>1. pc'[w] \in {"sentPage", "sent"}
    BY <1>2 DEF End, Finish
  <2>2. cpc'[w] = "idle"
    BY <1>2 DEF End, Cat!Show, Cat!Fail, Cat!Leave, catalogVars
  <2> QED
    BY <2>1, <2>2 DEF CoupledAt
<1>3. CASE Answer(w)
  <2>1. pc[w] \in {"sentPage", "sent"} /\ pc'[w] = "idle"
    BY <1>3 DEF Answer, Deliver, LoseAnswer
  <2>2. cpc'[w] = "idle"
    BY <1>3, <2>1 DEF Answer, catalogVars, CoupledAt
  <2> QED
    BY <2>1, <2>2 DEF CoupledAt
<1> QED
  BY <1>1, <1>2, <1>3

\* A statement runs in the page it belongs to.
LEMMA QueryCouples ==
  ASSUME ShopInv, NEW w \in Workers, Query(w)
  PROVE  CoupledAt(w)'
<1> USE DEF ShopInv, Coupled, ShopTypes
<1>1. /\ pc'[w] = pc[w] /\ req'[w] = req[w] /\ open'[w] = open[w]
      /\ sess'[w] = sess[w] /\ grantedAt'[w] = grantedAt[w]
      /\ pc[w] \in {"page", "render"}
  BY DEF Query, vars, wire, history
<1>2. /\ cpc[w] \in {"admitted", "second"} /\ cpc'[w] \in {"second", "done"}
      /\ form' = form
  BY DEF Query, Cat!Statement, Cat!InsertProduct, Cat!UpdateProduct,
         Cat!DeleteProductById, Cat!Written, Cat!ReadProduct, Cat!Read,
         Cat!ReadProductsByCategoryId, Cat!ReadProductStore
<1> QED
  BY <1>1, <1>2 DEF CoupledAt

\* Time passes, or nothing happens at all.
LEMMA IdleCouples ==
  ASSUME ShopInv, Idle \/ UNCHANGED shopVars
  PROVE  Coupled'
<1>1. UNCHANGED <<pc, req, open, sess, cpc, form, grantedAt>>
  BY DEF Idle, Tick, Quiet, vars, wire, shopVars, catalogVars, history
<1>2. ASSUME NEW v \in Workers PROVE CoupledAt(v)'
  BY <1>1, Frame DEF ShopInv, Coupled
<1> QED
  BY <1>2 DEF Coupled

\* Every step preserves the invariant.
LEMMA ShopNextInv == ShopInv /\ [ShopNext]_shopVars => ShopInv'
<1> SUFFICES ASSUME ShopInv, [ShopNext]_shopVars PROVE ShopInv'
  OBVIOUS
<1>1. SessionInv'
  BY SessionStep, NextInv DEF ShopInv
<1>2. ShopTypes'
  BY TypesPreserved
<1>3. Coupled'
  <2>1. ASSUME NEW w \in Workers,
               \/ SessionOnly(w) \/ Dispatched(w) \/ TurnAway(w) \/ Grant(w)
               \/ Deny(w) \/ Query(w) \/ End(w) \/ Answer(w)
        PROVE  Coupled'
    <3>1. CoupledAt(w)'
      BY <2>1, SessionOnlyCouples, DispatchedCouples, GrantCouples,
         LeaverCouples, QueryCouples
    <3>2. ASSUME NEW v \in Workers, v # w PROVE CoupledAt(v)'
      BY <2>1, <3>2, OthersCoupled
    <3> QED
      BY <3>1, <3>2 DEF Coupled
  <2> QED
    BY <2>1, SendCouples, IdleCouples DEF ShopNext
<1> QED
  BY <1>1, <1>2, <1>3 DEF ShopInv

\* The inductive invariant of the composition holds in every reachable state.
THEOREM ShopInvariant == ShopSpec => []ShopInv
<1> QED
  BY ShopInitInv, ShopNextInv, PTL DEF ShopSpec
-----------------------------------------------------------------------------
(* Who changes a product.                                                  *)

\* A change is a writing statement of an admitted script, and it deletes an id
\* that is in the table or writes.
LEMMA ChangeStep ==
  ASSUME ShopInv, [ShopNext]_shopVars, products' # products
  PROVE  \E w \in Workers :
            /\ Applies(w) /\ Query(w)
            /\ \/ form[w].kind = "write"
               \/ form[w].kind = "delete" /\ form[w].id \in DOMAIN products
<1>0. ASSUME NEW w \in Workers,
             \/ Cat!Admit(w) \/ Cat!Refuse(w) \/ Cat!Show(w) \/ Cat!Fail(w)
             \/ UNCHANGED catalogVars
      PROVE  products' = products
  BY <1>0 DEF Cat!Admit, Cat!Refuse, Cat!Show, Cat!Fail, catalogVars
<1>1. ASSUME NEW b \in Browsers, NEW w \in Workers, NEW q \in SiteRequests,
             Send(b, w, q)
      PROVE  products' = products
  BY <1>1 DEF Send, Cat!Submit, catalogVars
<1>2. ASSUME NEW w \in Workers,
             \/ SessionOnly(w) \/ Dispatched(w) \/ TurnAway(w) \/ Grant(w)
             \/ Deny(w) \/ End(w) \/ Answer(w)
      PROVE  products' = products
  BY <1>0, <1>2 DEF SessionOnly, Dispatched, TurnAway, Grant, Deny, End, Answer
<1>3. ~ Idle /\ ~ UNCHANGED shopVars
  BY DEF Idle, shopVars, catalogVars
<1>4. PICK w \in Workers : Query(w)
  BY <1>1, <1>2, <1>3 DEF ShopNext
<1>5. /\ cpc[w] = "admitted" /\ cpc'[w] = "second"
      /\ \/ form[w].kind = "write"
         \/ form[w].kind = "delete" /\ form[w].id \in DOMAIN products
  <2> USE <1>4 DEF ShopInv, ShopTypes
  <2>1. CASE Cat!InsertProduct(w) \/ Cat!UpdateProduct(w)
    BY <2>1 DEF Cat!InsertProduct, Cat!UpdateProduct, Cat!Written
  <2>2. CASE Cat!DeleteProductById(w)
    <3>1. /\ cpc[w] = "admitted" /\ cpc'[w] = "second"
          /\ form[w].kind = "delete"
          /\ products' = [i \in DOMAIN products \ {form[w].id} |-> products[i]]
      BY <2>2 DEF Cat!DeleteProductById, Cat!Written
    <3>2. products = [i \in DOMAIN products |-> products[i]]
      BY DEF ShopInv, ShopTypes
    <3>3. form[w].id \in DOMAIN products
      BY <3>1, <3>2
    <3> QED
      BY <3>1, <3>3
  <2>3. CASE \/ Cat!ReadProductsByCategoryId(w)
             \/ Cat!ReadProduct(w)
             \/ Cat!ReadProductStore(w)
    BY <2>3 DEF Cat!ReadProductsByCategoryId, Cat!ReadProduct,
                Cat!ReadProductStore, Cat!Read
  <2> QED
    BY <2>1, <2>2, <2>3 DEF Query, Cat!Statement
<1> QED
  BY <1>4, <1>5 DEF Applies

\* The script that changes a product serves a request for a protected method,
\* which is no GET, and is past its guard.
LEMMA ChangerIsGranted ==
  ASSUME ShopInv, [ShopNext]_shopVars, products' # products
  PROVE  \E w \in Workers :
            /\ Applies(w)
            /\ IsProtected(req[w]) /\ req[w].method # "GET"
            /\ open[w] # NoSid /\ sess[w].loggedIn
            /\ \E t \in logins[client[w]] : grantedAt[w] <= t + MaxElapsed
<1>1. PICK w \in Workers :
         /\ Applies(w) /\ Query(w)
         /\ \/ form[w].kind = "write"
            \/ form[w].kind = "delete" /\ form[w].id \in DOMAIN products
  BY ChangeStep
<1>2. /\ Carries(req[w], form[w])
      /\ CatalogKind(req[w]) = form[w].kind
      /\ CoupledAt(w)
  BY <1>1 DEF ShopInv, Coupled, CoupledAt, Applies, Carries
<1>3. IsProtected(req[w])
  BY <1>1, <1>2, Routing
<1>4. pc[w] = "page"
  BY <1>1, <1>2, <1>3 DEF CoupledAt, Applies
<1>5. /\ open[w] # NoSid /\ sess[w].loggedIn
      /\ grantedAt[w] <= sess[w].lastLogin + MaxElapsed
  BY <1>2, <1>4 DEF CoupledAt
<1>6. sess[w].lastLogin \in logins[client[w]]
  BY <1>5 DEF ShopInv, SessionInv, SessionsOwned, LoginsOwned, LoginOf
<1>7. req[w].method # "GET"
  <2>1. CASE form[w].kind = "write"
    BY <1>2, <2>1, Routing
  <2>2. CASE form[w].kind = "delete" /\ form[w].id \in DOMAIN products
    <3>1. form[w].id # Cat!Null
      BY <2>2 DEF ShopInv, ShopTypes, Cat!Null
    <3> QED
      BY <1>2, <2>2, <3>1 DEF Carries, BodyKinds
  <2> QED
    BY <1>1, <2>1, <2>2
<1> QED
  BY <1>1, <1>3, <1>5, <1>6, <1>7

\* Products change only in scripts granted on a recent login of their browser.
THEOREM ChangesNeedLogins == ShopSpec => ChangesFollowLogins
<1>1. ShopInv /\ [ShopNext]_shopVars =>
        [products' # products =>
            \E w \in Workers :
               /\ Applies(w)
               /\ open[w] # NoSid /\ sess[w].loggedIn
               /\ \E t \in logins[client[w]] :
                     grantedAt[w] <= t + MaxElapsed]_shopVars
  BY ChangerIsGranted
<1> QED
  BY <1>1, ShopInvariant, PTL DEF ShopSpec, ChangesFollowLogins

\* No GET changes a product.
THEOREM GetsAreSafe == ShopSpec => GetChangesNothing
<1>1. ShopInv /\ [ShopNext]_shopVars =>
        [products' # products =>
            \E w \in Workers : Applies(w) /\ req[w].method # "GET"]_shopVars
  BY ChangerIsGranted
<1> QED
  BY <1>1, ShopInvariant, PTL DEF ShopSpec, GetChangesNothing
-----------------------------------------------------------------------------
(* A form sent while its browser was logged out.                           *)

\* The id that such a form came with carries no login, and never will: a later
\* login of the browser moves to an id of its own.
SentOutClean == \A w \in Workers : sentOut[w] => Clean(cookie[w])

\* No step gives a login to an id that such a form came with.
LEMMA SentOutStays ==
  ASSUME ShopInv, StandingInv, SentOutClean, [ShopNext]_shopVars
  PROVE  SentOutClean'
<1> USE DEF SentOutClean
<1>0. SessionInv /\ sentOut \in [Workers -> BOOLEAN]
  BY DEF ShopInv, ShopTypes
<1>1. ASSUME NEW s, Handed(s), Clean(s) PROVE Clean(s)'
  BY <1>0, <1>1, CleanStays, SessionStep
<1>2. ASSUME NEW w \in Workers, Clean(cookie[w]), cookie'[w] = cookie[w]
      PROVE  Clean(cookie[w])'
  BY <1>0, <1>1, <1>2, InUseIsHanded DEF Clean
<1>3. ASSUME NEW b \in Browsers, NEW w \in Workers, NEW q \in SiteRequests,
             Send(b, w, q)
      PROVE  SentOutClean'
  <2>0. Issue(b, w, q)
    BY <1>3 DEF Send
  <2>1. sentOut' = [sentOut EXCEPT ![w] = standing[b] = "out"]
    BY <1>3 DEF Send
  <2>2. ASSUME NEW v \in Workers, v # w, sentOut'[v] PROVE Clean(cookie[v])'
    <3>1. cookie'[v] = cookie[v]
      BY <1>0, <2>0, <2>2 DEF Issue, SessionInv, TypeOK
    <3>2. sentOut'[v] = sentOut[v]
      BY <1>0, <2>1, <2>2
    <3> QED
      BY <1>2, <2>2, <3>1, <3>2
  <2>3. ASSUME sentOut'[w] PROVE Clean(cookie[w])'
    <3>1. standing[b] = "out"
      BY <1>0, <2>1, <2>3
    <3>2. Clean(jar[b])
      BY <3>1 DEF StandingInv, OutAt
    <3>3. cookie'[w] = jar[b] /\ UNCHANGED <<store, open, sess>>
      BY <1>0, <2>0, IssueEffect
    <3> QED
      BY <3>2, <3>3 DEF Clean
  <2> QED
    BY <2>2, <2>3
<1>4. ASSUME NEW w \in Workers,
             \/ SessionOnly(w) \/ Dispatched(w) \/ TurnAway(w) \/ Grant(w)
             \/ Deny(w) \/ Query(w) \/ End(w)
      PROVE  SentOutClean'
  <2>1. sentOut' = sentOut
    BY <1>4 DEF SessionOnly, Dispatched, TurnAway, Grant, Deny, Query, End,
                history
  <2>2. Step(w) \/ UNCHANGED vars
    BY <1>4 DEF SessionOnly, Dispatched, TurnAway, Grant, Deny, Query, End, Step
  <2>3. cookie' = cookie
    BY <1>0, <2>2, StepIsLocal DEF vars, wire
  <2> QED
    BY <1>2, <2>1, <2>3
<1>5. ASSUME NEW w \in Workers, Answer(w)
      PROVE  SentOutClean'
  <2>1. ASSUME NEW v \in Workers, sentOut'[v]
        PROVE  v # w /\ sentOut[v] /\ cookie'[v] = cookie[v]
    BY <1>0, <1>5, <2>1, AnswerEffect DEF Answer
  <2> QED
    BY <1>2, <2>1
<1>6. CASE Idle \/ UNCHANGED shopVars
  <2>1. UNCHANGED <<sentOut, cookie>>
    BY <1>6 DEF Idle, Tick, Quiet, vars, wire, shopVars, history
  <2> QED
    BY <1>2, <2>1
<1> QED
  BY <1>3, <1>4, <1>5, <1>6 DEF ShopNext

\* What was proved of the sessions holds of them in the shop.
LEMMA ShopStandings == ShopSpec => []StandingInv
<1> QED
  BY PartsImplemented, StandingInvariant, PTL

\* A form that waits with a session of its own has what its id carries.
LEMMA SentOutChangesNothing ==
  ASSUME ShopInv, StandingInv, SentOutClean, NEW w \in Workers, sentOut[w],
         IsProtected(req[w]), open[w] # NoSid
  PROVE  ~ sess[w].loggedIn
<1>1. ~ IsLogin(req[w])
  BY Routing
<1>2. OwnAt(w) /\ AnswerAt(w)
  BY DEF StandingInv
<1>3. Clean(open[w])
  BY <1>1, <1>2 DEF SentOutClean, OwnAt, OwnSid, AnswerAt
<1> QED
  BY <1>3 DEF Clean

\* A form that was sent while its browser was logged out changes no product,
\* also when the browser logs in while the form waits for the session.
THEOREM LoggedOutFormsAreSafe == ShopSpec => LoggedOutChangesNothing
<1>1. ShopInit => SentOutClean
  BY DEF ShopInit, SentOutClean
<1>2. ShopInv /\ StandingInv /\ SentOutClean /\ [ShopNext]_shopVars =>
        SentOutClean'
  BY SentOutStays
<1>3. ShopInv /\ StandingInv /\ SentOutClean /\ [ShopNext]_shopVars =>
        [products' # products =>
            \E w \in Workers : Applies(w) /\ ~ sentOut[w]]_shopVars
  BY ChangerIsGranted, SentOutChangesNothing
<1> QED
  BY <1>1, <1>2, <1>3, ShopInvariant, ShopStandings, PTL
     DEF ShopSpec, LoggedOutChangesNothing
=============================================================================
