-------------------------------- MODULE Shop --------------------------------
(***************************************************************************)
(* The shop behind its front controller: the sessions of AdminSession, the *)
(* catalogue of Catalog and the routing of Routes put together.  A script  *)
(* is one worker of both modules: what the session library decides about   *)
(* it is the outcome of the guard in front of its statements, and it keeps *)
(* its session open while they run.                                        *)
(*                                                                         *)
(* A request is a method with a ctlr and an action, and what it carries    *)
(* for the catalogue.  getDeleteInstance(), getEditProductInstance() and   *)
(* getAddEditInstance() read the body only and getProductInstance() the    *)
(* query only, so a request of the other method comes without the id.      *)
(***************************************************************************)
EXTENDS AdminSession

CONSTANTS
    Categories, FirstCategory, Contents, Owners, ShopOwner,     \* of Catalog
    MaxId, InitialIds

ASSUME ShopAssumption == /\ MaxId \in Nat
                         /\ InitialIds \in 0 .. MaxId
                         /\ ShopOwner \in Owners
                         /\ FirstCategory \in Categories

ASSUME CategoriesAssumption == Categories \cap {"no category", "blank category"} = {}

VARIABLES
    products, nextId, pages, sent, cpc, form, seen, storeNames,
    wrote, raced,   \* of Catalog
    \* History, read by no action:
    sentOut,        \* was the script's browser logged out when it asked?
    grantedAt       \* when the guard let the script pass

Cat == INSTANCE Catalog WITH pc <- cpc, req <- form, store <- storeNames,
                             MaxSubmissions <- MaxRequests

catalogVars == <<products, nextId, pages, sent, cpc, form, seen, storeNames,
                 wrote, raced>>
history     == <<sentOut, grantedAt>>
shopVars    == <<vars, catalogVars, history>>

\* Mutant of BodyKinds: the id to delete is taken from the query as well.
BodyKindsButDelete == {"editForm", "write"}

\* The view models that read the body, and those that read the query.
BodyKinds == {"editForm", "delete", "write"}
QueryKinds == {"shopView", "adminView"}

\* What the method that serves q asks of the catalogue.  The default page's
\* featured products are not among the statements of Catalog.
CatalogKind(q) ==
    LET m == Method(q) IN
    CASE Controller(q.ctlr) = "admin"
            /\ m \in {"loginPOST", "listProducts", "showAddProduct"} -> "list"
      [] Controller(q.ctlr) = "admin" /\ m = "viewProduct"     -> "adminView"
      [] Controller(q.ctlr) = "admin" /\ m = "deleteProduct"   -> "delete"
      [] Controller(q.ctlr) = "admin" /\ m = "addEditProduct"  -> "write"
      [] Controller(q.ctlr) = "admin" /\ m = "showEditProduct" -> "editForm"
      [] Controller(q.ctlr) = "home" /\ m = "listProducts"     -> "list"
      [] Controller(q.ctlr) = "home" /\ m = "viewProduct"      -> "shopView"
      [] OTHER                                                 -> "none"

\* What filter_input() finds in q of a form or link s.  The login form has no
\* category.
Carries(q, s) ==
    /\ s.kind = CatalogKind(q)
    /\ Method(q) = "loginPOST" => s.category = Cat!NoCategory
    /\ s.kind \in BodyKinds /\ q.method = "GET" => s.id = Cat!Null
    /\ s.kind \in QueryKinds /\ q.method # "GET" => s.id = Cat!Null

ShopInit == /\ Init
            /\ Cat!Init
            /\ sentOut = [w \in Workers |-> FALSE]
            /\ grantedAt = [w \in Workers |-> NoTime]
-----------------------------------------------------------------------------
\* A client follows a link or submits a form.
Send(b, w, q) ==
    /\ Issue(b, w, q)
    /\ IF CatalogKind(q) = "none"
       THEN UNCHANGED catalogVars
       ELSE \E s \in Cat!Submissions : Carries(q, s) /\ Cat!Submit(w, s)
    /\ sentOut' = [sentOut EXCEPT ![w] = standing[b] = "out"]
    /\ UNCHANGED grantedAt

\* session_start(), logout() and the part of a login that only the session sees.
SessionOnly(w) ==
    /\ \/ StartNewSession(w)
       \/ StartKnownSession(w)
       \/ LoginVerified(w)
       \/ CompleteLogin(w)
       \/ Logout(w)
    /\ UNCHANGED <<catalogVars, history>>

\* The broker runs the method.  A public one goes straight to its statements.
Dispatched(w) ==
    /\ Dispatch(w)
    /\ IF pc'[w] = "render" /\ cpc[w] = "asked"
       THEN Cat!Admit(w) ELSE UNCHANGED catalogVars
    /\ UNCHANGED history

\* A failed login: loginPOST() lists no products.
TurnAway(w) ==
    /\ LoginRefused(w) \/ LoginAborted(w)
    /\ Cat!Refuse(w)
    /\ UNCHANGED history

\* before_every_protected_page() returns, or it does not.
Grant(w) ==
    /\ GuardPasses(w)
    /\ Cat!Admit(w)
    /\ grantedAt' = [grantedAt EXCEPT ![w] = clock]
    /\ UNCHANGED sentOut

Deny(w) ==
    /\ GuardFails(w)
    /\ Cat!Refuse(w)
    /\ UNCHANGED history

\* A statement of the script, with its session open.
Query(w) ==
    /\ pc[w] \in {"page", "render"}
    /\ Cat!Statement(w)
    /\ UNCHANGED <<vars, history>>

\* The script ends: with its page, with a failed statement, or having asked
\* nothing of the catalogue.
End(w) ==
    /\ Finish(w)
    /\ IF cpc[w] = "idle" THEN UNCHANGED catalogVars
                          ELSE Cat!Show(w) \/ Cat!Fail(w)
    /\ UNCHANGED history

\* The answer arrives or is lost.
Answer(w) ==
    /\ Deliver(w) \/ LoseAnswer(w)
    /\ sentOut' = [sentOut EXCEPT ![w] = FALSE]
    /\ grantedAt' = [grantedAt EXCEPT ![w] = NoTime]
    /\ UNCHANGED catalogVars

Idle == (Tick \/ Quiet) /\ UNCHANGED <<catalogVars, history>>

ShopNext ==
    \/ \E b \in Browsers, w \in Workers, q \in SiteRequests : Send(b, w, q)
    \/ \E w \in Workers :
          \/ SessionOnly(w)
          \/ Dispatched(w)
          \/ TurnAway(w)
          \/ Grant(w)
          \/ Deny(w)
          \/ Query(w)
          \/ End(w)
          \/ Answer(w)
    \/ Idle

ShopSpec == ShopInit /\ [][ShopNext]_shopVars
-----------------------------------------------------------------------------
(* Correctness.                                                            *)

\* The statement of w that writes is executed.
Applies(w) == cpc[w] = "admitted" /\ cpc'[w] = "second"

\* A product is added, changed or deleted only by a script that the guard let
\* pass within $max_elapsed of a login of its own browser, and that still has
\* the session of that login open: a logout in another tab comes before the
\* guard or after the answer, never between the guard and the statement.
ChangesFollowLogins ==
    [][products' # products =>
          \E w \in Workers :
             /\ Applies(w)
             /\ open[w] # NoSid /\ sess[w].loggedIn
             /\ \E t \in logins[client[w]] : grantedAt[w] <= t + MaxElapsed]_shopVars

\* csrf_request_type_functions.php:2-3: "GET requests should not make changes".
\* The request type functions are never called, the allow list names
\* deleteProduct, and still no GET changes a product.
GetChangesNothing ==
    [][products' # products =>
          \E w \in Workers : Applies(w) /\ req[w].method # "GET"]_shopVars

\* A form that is sent while its browser is logged out changes nothing, also
\* when the browser logs in again while the form waits for the session.
LoggedOutChangesNothing ==
    [][products' # products =>
          \E w \in Workers : Applies(w) /\ ~ sentOut[w]]_shopVars

\* The phases of a script in the two modules agree: it has no statement to run
\* before the guard or the broker admits it, it runs every statement with its
\* session open, and a writing or reading one of the administration only after
\* the guard has passed on the login that its session still holds.
CoupledAt(w) ==
    /\ pc[w] \in {"idle", "sent", "sentPage", "logout"} => cpc[w] = "idle"
    /\ pc[w] \in {"login", "verified", "guard"} => cpc[w] = "asked"
    /\ cpc[w] = "asked" => pc[w] \in {"queued", "opened", "login", "verified", "guard"}
    /\ cpc[w] \in {"admitted", "second", "done"} => pc[w] \in {"page", "render"}
    /\ cpc[w] # "idle" => Carries(req[w], form[w])
    /\ pc[w] \in {"queued", "opened"} /\ CatalogKind(req[w]) # "none" =>
          cpc[w] = "asked"
    /\ pc[w] = "page" =>
          /\ open[w] # NoSid /\ sess[w].loggedIn
          /\ grantedAt[w] <= sess[w].lastLogin + MaxElapsed
    /\ cpc[w] # "idle" /\ pc[w] = "render" => ~ IsProtected(req[w])

Coupled == \A w \in Workers : CoupledAt(w)

\* The types of what the catalogue and the history add, as far as the
\* composition rests on them: the table only has ids that were handed out.
ShopTypes ==
    /\ cpc \in [Workers -> Cat!PCs]
    /\ form \in [Workers -> Cat!Submissions]
    /\ nextId \in Nat \ {0}
    /\ products = [i \in DOMAIN products |-> products[i]]
    /\ DOMAIN products \subseteq 1 .. nextId - 1
    /\ sentOut \in [Workers -> BOOLEAN]
    /\ grantedAt \in [Workers -> Times \cup {NoTime}]

\* The inductive invariant of the composition.
ShopInv == SessionInv /\ ShopTypes /\ Coupled
=============================================================================
