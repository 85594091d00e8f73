----------------------------- MODULE CsrfTokens -----------------------------
(***************************************************************************)
(* The anti-forgery tokens that the forms carry, on top of AdminSession.   *)
(* A view with a form makes a token, puts it into $_SESSION in the place   *)
(* of the one before, and prints it into its forms; the token stays with   *)
(* the session's data when a login regenerates the id and goes with it     *)
(* when the session ends.  No handler calls csrf_token_is_valid(): what it *)
(* would answer is what the properties are about.                          *)
(*                                                                         *)
(* A token, a fresh random text, is the number of tokens made so far.      *)
(***************************************************************************)
EXTENDS AdminSession

VARIABLES
    made,       \* tokens made so far
    kept,       \* the token in each stored session
    token,      \* the token in the $_SESSION of each script
    printed,    \* the token in the forms of the page it answers with
    \* History, read by no action:
    madeTo,     \* the browser each token was made for
    latest      \* the token a browser's newest form has, if it may rely on it

tokenVars == <<made, kept, token, printed, madeTo, latest>>
csrfVars  == <<vars, tokenVars>>

NoToken == 0
Tokens  == 1 .. MaxRequests     \* an answer makes one at most

\* A request whose method ends in a view with csrf_token_tag() or
\* create_csrf_token().
HasForm(q) ==
    \/ /\ Controller(q.ctlr) = "admin"
       /\ Method(q) \in {"loginGET", "registerGET", "viewProduct",
                         "showAddProduct", "showEditProduct"}
    \/ Controller(q.ctlr) = "home" /\ Method(q) = "viewProduct"

CsrfInit ==
    /\ Init
    /\ made = 0
    /\ kept = [s \in Sids |-> NoToken]
    /\ token = [w \in Workers |-> NoToken]
    /\ printed = [w \in Workers |-> NoToken]
    /\ madeTo = [t \in Tokens |-> Nobody]
    /\ latest = [b \in Browsers |-> NoToken]

CsrfTypes ==
    /\ made \in 0 .. MaxRequests
    /\ kept \in [Sids -> Tokens \cup {NoToken}]
    /\ token \in [Workers -> Tokens \cup {NoToken}]
    /\ printed \in [Workers -> Tokens \cup {NoToken}]
    /\ madeTo \in [Tokens -> Browsers \cup {Nobody}]
    /\ latest \in [Browsers -> Tokens \cup {NoToken}]
-----------------------------------------------------------------------------
\* Any request of a browser may replace its token or end its session.
Send(b, w, q) ==
    /\ Issue(b, w, q)
    /\ latest' = [latest EXCEPT ![b] =
                     IF HasForm(q) \/ IsLogin(q) \/ IsLogout(q) \/ IsProtected(q)
                     THEN NoToken ELSE @]
    /\ UNCHANGED <<made, kept, token, printed, madeTo>>

\* session_start().
LoadSession(w) ==
    /\ \/ StartNewSession(w) /\ token' = [token EXCEPT ![w] = NoToken]
       \/ StartKnownSession(w) /\ token' = [token EXCEPT ![w] = kept[cookie[w]]]
    /\ UNCHANGED <<made, kept, printed, madeTo, latest>>

\* Steps that leave $_SESSION's token and the stored ones alone.
PassOn(w) == /\ Dispatch(w) \/ LoginAborted(w) \/ GuardPasses(w)
             /\ UNCHANGED tokenVars

\* session_regenerate_id() stores a copy under the id it gives up.
Regenerate(w) ==
    /\ LoginVerified(w) \/ CompleteLogin(w)
    /\ kept' = [kept EXCEPT ![open[w]] = token[w]]
    /\ UNCHANGED <<made, token, printed, madeTo, latest>>

\* end_session() clears $_SESSION and destroys the stored session.
Destroy(w) ==
    /\ LoginRefused(w) \/ Logout(w) \/ GuardFails(w)
    /\ kept' = [kept EXCEPT ![open[w]] = NoToken]
    /\ token' = [token EXCEPT ![w] = NoToken]
    /\ UNCHANGED <<made, printed, madeTo, latest>>

\* Where a view with a form is reached.  An answer makes one token at most, so
\* the bound on tokens is never what stops it.
InForm(w) ==
    /\ made < MaxRequests
    /\ \/ pc[w] = "page"
       \/ pc[w] = "render" /\ ~ IsProtected(req[w])
    /\ HasForm(req[w]) /\ printed[w] = NoToken

\* Mutants of CreateToken: the token is printed and not put into $_SESSION; a
\* token is made once and kept by the server.
CreateTokenOnly(w) ==
    /\ InForm(w)
    /\ made' = made + 1
    /\ printed' = [printed EXCEPT ![w] = made + 1]
    /\ madeTo' = [madeTo EXCEPT ![made + 1] = client[w]]
    /\ UNCHANGED <<vars, kept, token, latest>>

CreateTokenOnce(w) ==
    /\ InForm(w)
    /\ made' = 1
    /\ token' = [token EXCEPT ![w] = 1]
    /\ printed' = [printed EXCEPT ![w] = 1]
    /\ madeTo' = IF made = 0 THEN [madeTo EXCEPT ![1] = client[w]] ELSE madeTo
    /\ UNCHANGED <<vars, kept, latest>>

\* create_csrf_token(), called by the view of a form.
CreateToken(w) ==
    /\ InForm(w)
    /\ made' = made + 1
    /\ token' = [token EXCEPT ![w] = made + 1]
    /\ printed' = [printed EXCEPT ![w] = made + 1]
    /\ madeTo' = [madeTo EXCEPT ![made + 1] = client[w]]
    /\ UNCHANGED <<vars, kept, latest>>

\* The script ends, before its view if the database has failed, and stores
\* $_SESSION unless the session was destroyed.
StoreSession(w) ==
    /\ Finish(w)
    /\ kept' = IF open[w] = NoSid THEN kept
                                  ELSE [kept EXCEPT ![open[w]] = token[w]]
    /\ token' = [token EXCEPT ![w] = NoToken]
    /\ UNCHANGED <<made, printed, madeTo, latest>>

\* A page with a form that no other request of the browser overlapped is its
\* newest form.  A lost one is not shown, but has replaced the token.
Receive(w) ==
    /\ \/ /\ Deliver(w)
          /\ latest' = [latest EXCEPT ![client[w]] =
                IF printed[w] # NoToken /\ overlap[w] = {} THEN printed[w] ELSE @]
       \/ LoseAnswer(w) /\ UNCHANGED latest
    /\ printed' = [printed EXCEPT ![w] = NoToken]
    /\ UNCHANGED <<made, kept, token, madeTo>>

Idle == (Tick \/ Quiet) /\ UNCHANGED tokenVars

CsrfNext ==
    \/ \E b \in Browsers, w \in Workers, q \in SiteRequests : Send(b, w, q)
    \/ \E w \in Workers :
          \/ LoadSession(w)
          \/ PassOn(w)
          \/ Regenerate(w)
          \/ Destroy(w)
          \/ CreateToken(w)
          \/ StoreSession(w)
          \/ Receive(w)
    \/ Idle

CsrfSpec == CsrfInit /\ [][CsrfNext]_csrfVars
-----------------------------------------------------------------------------
(* Correctness.                                                            *)

\* A token that a session holds was made for the owner of that session: a form
\* of another client's page would never pass csrf_token_is_valid(), whatever
\* ids were regenerated, reused after a logout or left behind.
MadeTo(t, b) == t = NoToken \/ (madeTo[t] = b /\ b \in Browsers)

TokensOwned ==
    /\ \A s \in Sids : MadeTo(kept[s], madeFor[s])
    /\ \A w \in Workers : MadeTo(token[w], client[w]) /\ MadeTo(printed[w], client[w])

\* The newest form of a browser would pass csrf_token_is_valid(): when nothing
\* overlapped the answer that brought it, the session its cookie leads to holds
\* the form's token, until the browser asks for another form, logs in or out,
\* or asks for a protected page.  Any older form of that session would fail.
LatestFormMatches ==
    \A b \in Browsers :
        latest[b] # NoToken => jar[b] # NoSid /\ kept[jar[b]] = latest[b]

\* A token that another one has replaced in a session, or that went with it,
\* never comes back to that session.
NoTokenRevived ==
    [][\A s \in Sids :
          kept'[s] # kept[s] => kept'[s] = NoToken \/ kept'[s] > kept[s]]_csrfVars

\* A script is in the phase its request leads to; one that shows a form which
\* anybody may see still has its session.
RequestPhases ==
    \A w \in Workers :
        /\ pc[w] \in {"login", "verified"} => IsLogin(req[w])
        /\ pc[w] = "logout" => IsLogout(req[w])
        /\ pc[w] = "guard" => IsLogin(req[w]) \/ IsProtected(req[w])
        /\ pc[w] = "render" /\ HasForm(req[w]) /\ ~ IsProtected(req[w]) =>
              open[w] # NoSid

\* Tokens are made in order, and a script never has an older one than the
\* session it has open.
TokensGrow ==
    /\ \A s \in Sids : kept[s] <= made
    /\ \A w \in Workers :
          /\ token[w] <= made
          /\ open[w] # NoSid => kept[open[w]] <= token[w]

\* What keeps the tokens of two browsers apart: fresh ids and unmade tokens
\* have no owner yet, and a script without a session has no token.
CsrfInv ==
    /\ SessionInv
    /\ CsrfTypes
    /\ TokensOwned
    /\ RequestPhases
    /\ TokensGrow
    /\ \A t \in Tokens : t > made => madeTo[t] = Nobody
    /\ \A s \in Sids : s > lastSid => kept[s] = NoToken
    /\ \A w \in Workers : open[w] = NoSid => token[w] = NoToken
    /\ \A w \in Workers : pc[w] = "idle" => printed[w] = NoToken
=============================================================================
