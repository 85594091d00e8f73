---------------------------- MODULE AdminSession ----------------------------
(***************************************************************************)
(* The login sessions of the site.  Browsers send requests that run as     *)
(* concurrent scripts (workers); a script loads the data of the session    *)
(* its cookie names, the login, logout and guard code of AdminController   *)
(* and sessionFunctions.php read and change that data, and the end of the  *)
(* script stores it again.                                                 *)
(*                                                                         *)
(* The store of the session engine is external: it keeps one record per    *)
(* id, lets one script at a time have an id open, and takes an id it has   *)
(* never seen as an empty session.  session_regenerate_id() without its    *)
(* argument stores the data under the old id, releases it, and continues   *)
(* under a fresh one.                                                      *)
(*                                                                         *)
(* $_SESSION is reduced to the two entries the guard reads.                *)
(***************************************************************************)
EXTENDS Integers, Routes

CONSTANTS
    Browsers,       \* clients, each with a cookie jar
    Workers,        \* scripts the web server can run at a time
    SiteRequests,   \* the requests clients send
    Nobody,         \* no client: an id not handed out, an idle script
    MaxRequests,    \* bound: how many requests are sent in all
    MaxSid,         \* bound: how many session ids there are
    MaxClock,       \* bound: the last value of the clock
    MaxElapsed      \* $max_elapsed, in units of the clock

\* A request needs at most three ids, one for a new client and two for a login.
ASSUME BoundsAssumption == /\ MaxRequests \in Nat
                           /\ MaxSid \in Nat
                           /\ MaxSid >= 3 * MaxRequests
                           /\ MaxClock \in Nat
                           /\ MaxElapsed \in Nat

ASSUME NobodyAssumption == Nobody \notin Browsers

NoSid     == 0
NoTime    == -1
NoRequest == [method |-> "none", ctlr |-> "none", action |-> "none"]

Sids  == 1 .. MaxSid
Times == 0 .. MaxClock

\* What $_SESSION holds of a login.
Data  == [loggedIn : BOOLEAN, lastLogin : Times \cup {NoTime}]
Empty == [loggedIn |-> FALSE, lastLogin |-> NoTime]

PCs == {"idle", "queued", "opened", "login", "verified", "logout", "guard",
        "page", "render", "sentPage", "sent"}

VARIABLES
    clock,      \* time()
    issued,     \* requests sent so far
    lastSid,    \* ids handed out so far
    store,      \* the stored session data, by id
    jar,        \* the id in each browser's cookie jar
    pc,         \* where each script is
    req,        \* the request it serves
    client,     \* the browser it serves
    cookie,     \* the id its request presented
    open,       \* the id it has open, and so locked
    sess,       \* its $_SESSION
    setCookie,  \* the id its response sets
    \* History, read by no action:
    madeFor,    \* the browser each id was made for
    logins,     \* the times after_successful_login() ran for each browser
    overlap,    \* kinds of requests of the same browser that overlapped
    standing    \* what the browser may rely on: "in", "out" or "unknown"

\* What only sending a request and receiving its answer change ...
wire == <<issued, jar, req, client, cookie, overlap>>
\* ... and what only opening, regenerating and closing sessions change.
ids  == <<lastSid, setCookie, madeFor>>
vars == <<clock, wire, ids, store, open, sess, pc, logins, standing>>

Kinds   == {"login", "other"}
Kind(q) == IF IsLogin(q) THEN "login" ELSE "other"

TypeOK ==
    /\ clock \in Times
    /\ issued \in 0 .. MaxRequests
    /\ lastSid \in 0 .. MaxSid
    /\ store \in [Sids -> Data]
    /\ jar \in [Browsers -> Sids \cup {NoSid}]
    /\ pc \in [Workers -> PCs]
    /\ req \in [Workers -> SiteRequests \cup {NoRequest}]
    /\ client \in [Workers -> Browsers \cup {Nobody}]
    /\ cookie \in [Workers -> Sids \cup {NoSid}]
    /\ open \in [Workers -> Sids \cup {NoSid}]
    /\ sess \in [Workers -> Data]
    /\ setCookie \in [Workers -> Sids \cup {NoSid}]
    /\ madeFor \in [Sids -> Browsers \cup {Nobody}]
    /\ logins \in [Browsers -> SUBSET Times]
    /\ overlap \in [Workers -> SUBSET Kinds]
    /\ standing \in [Browsers -> {"in", "out", "unknown"}]

Init ==
    /\ clock = 0
    /\ issued = 0
    /\ lastSid = 0
    /\ store = [s \in Sids |-> Empty]
    /\ jar = [b \in Browsers |-> NoSid]
    /\ pc = [w \in Workers |-> "idle"]
    /\ req = [w \in Workers |-> NoRequest]
    /\ client = [w \in Workers |-> Nobody]
    /\ cookie = [w \in Workers |-> NoSid]
    /\ open = [w \in Workers |-> NoSid]
    /\ sess = [w \in Workers |-> Empty]
    /\ setCookie = [w \in Workers |-> NoSid]
    /\ madeFor = [s \in Sids |-> Nobody]
    /\ logins = [b \in Browsers |-> {}]
    /\ overlap = [w \in Workers |-> {}]
    /\ standing = [b \in Browsers |-> "unknown"]
-----------------------------------------------------------------------------
(* The session engine and sessionFunctions.php.                            *)

Goto(w, from, to) == pc[w] = from /\ pc' = [pc EXCEPT ![w] = to]

\* The engine hands the client of w an id nobody has used and puts it in the
\* headers of the answer, in the place of an earlier one.
FreshId(w) ==
    /\ lastSid < MaxSid
    /\ lastSid' = lastSid + 1
    /\ madeFor' = [madeFor EXCEPT ![lastSid + 1] = client[w]]
    /\ open' = [open EXCEPT ![w] = lastSid + 1]
    /\ setCookie' = [setCookie EXCEPT ![w] = lastSid + 1]

\* session_regenerate_id(): the old id keeps the data it had.
RegenerateId(w) ==
    /\ FreshId(w)
    /\ store' = [store EXCEPT ![open[w]] = sess[w]]

\* Mutant of AfterSuccessfulLogin: it stamps nothing.
AfterSuccessfulLoginUnstamped(w) ==
    /\ RegenerateId(w)
    /\ sess' = [sess EXCEPT ![w].loggedIn = TRUE]
    /\ logins' = [logins EXCEPT ![client[w]] = @ \cup {clock}]

\* after_successful_login().
AfterSuccessfulLogin(w) ==
    /\ RegenerateId(w)
    /\ sess' = [sess EXCEPT ![w] = [loggedIn |-> TRUE, lastLogin |-> clock]]
    /\ logins' = [logins EXCEPT ![client[w]] = @ \cup {clock}]

\* end_session(): clear $_SESSION and destroy the stored session.
EndSession(w) ==
    /\ store' = [store EXCEPT ![open[w]] = Empty]
    /\ open' = [open EXCEPT ![w] = NoSid]
    /\ sess' = [sess EXCEPT ![w] = Empty]

\* after_successful_logout(), called by logout() and by a refused login.  The
\* browser may rely on being logged out unless another login overlapped.
AfterSuccessfulLogout(w) ==
    /\ EndSession(w)
    /\ standing' = [standing EXCEPT ![client[w]] =
                        IF "login" \in overlap[w] THEN "unknown" ELSE "out"]

\* Mutant of LastLoginIsRecent: any login will do.
LastLoginIsSet(d) == d.lastLogin # NoTime

\* is_logged_in() and last_login_is_recent().
IsLoggedIn(d) == d.loggedIn
LastLoginIsRecent(d) == d.lastLogin # NoTime /\ d.lastLogin + MaxElapsed >= clock
-----------------------------------------------------------------------------
(* Clients.                                                                *)

\* A browser sends a request with the cookie its jar holds now.
Issue(b, w, q) ==
    LET others == {v \in Workers : client[v] = b} IN
    /\ issued < MaxRequests
    /\ Goto(w, "idle", "queued")
    /\ issued' = issued + 1
    /\ client' = [client EXCEPT ![w] = b]
    /\ req' = [req EXCEPT ![w] = q]
    /\ cookie' = [cookie EXCEPT ![w] = jar[b]]
    /\ overlap' = [v \in Workers |->
                      IF v = w THEN {Kind(req[u]) : u \in others}
                      ELSE IF v \in others THEN overlap[v] \cup {Kind(q)}
                      ELSE overlap[v]]
    /\ standing' = [standing EXCEPT ![b] =
                        IF IsLogin(q) \/ IsLogout(q) THEN "unknown" ELSE @]
    /\ UNCHANGED <<clock, ids, jar, store, open, sess, logins>>

\* The slot of w is free again.
Release(w) ==
    /\ client' = [client EXCEPT ![w] = Nobody]
    /\ req' = [req EXCEPT ![w] = NoRequest]
    /\ cookie' = [cookie EXCEPT ![w] = NoSid]
    /\ setCookie' = [setCookie EXCEPT ![w] = NoSid]
    /\ overlap' = [overlap EXCEPT ![w] = {}]

\* The answer reaches the browser, which keeps the id it sets.  After an
\* accepted login that nothing overlapped the browser may rely on being in.
Deliver(w) ==
    /\ \/ Goto(w, "sentPage", "idle")
       \/ Goto(w, "sent", "idle")
    /\ jar' = [jar EXCEPT ![client[w]] =
                  IF setCookie[w] # NoSid THEN setCookie[w] ELSE @]
    /\ standing' = [standing EXCEPT ![client[w]] =
                  IF pc[w] = "sentPage" /\ IsLogin(req[w]) /\ overlap[w] = {}
                  THEN "in" ELSE @]
    /\ Release(w)
    /\ UNCHANGED <<clock, issued, lastSid, madeFor, store, open, sess,
                   logins>>

\* The browser has left the page: the answer is lost with its cookie.
LoseAnswer(w) ==
    /\ \/ Goto(w, "sentPage", "idle")
       \/ Goto(w, "sent", "idle")
    /\ Release(w)
    /\ UNCHANGED <<clock, issued, lastSid, madeFor, store, open, sess,
                   logins, jar, standing>>
-----------------------------------------------------------------------------
(* Scripts.                                                                *)

\* session_start() of a request without a cookie.
StartNewSession(w) ==
    /\ cookie[w] = NoSid
    /\ Goto(w, "queued", "opened")
    /\ FreshId(w)
    /\ UNCHANGED <<clock, wire, store, sess, logins, standing>>

\* Mutant of StartKnownSession: the id is not locked.
StartKnownSessionNoLock(w) ==
    /\ cookie[w] # NoSid
    /\ Goto(w, "queued", "opened")
    /\ open' = [open EXCEPT ![w] = cookie[w]]
    /\ sess' = [sess EXCEPT ![w] = store[cookie[w]]]
    /\ UNCHANGED <<clock, wire, ids, store, logins, standing>>

\* session_start() of a request with one: it waits until no script has the id
\* open and loads what is stored, nothing at all if it has been destroyed.
StartKnownSession(w) ==
    /\ cookie[w] # NoSid
    /\ \A v \in Workers : open[v] # cookie[w]
    /\ Goto(w, "queued", "opened")
    /\ open' = [open EXCEPT ![w] = cookie[w]]
    /\ sess' = [sess EXCEPT ![w] = store[cookie[w]]]
    /\ UNCHANGED <<clock, wire, ids, store, logins, standing>>

\* The broker runs the method that Routes gives.
Dispatch(w) ==
    /\ Goto(w, "opened", CASE IsLogin(req[w])     -> "login"
                           [] IsLogout(req[w])    -> "logout"
                           [] IsProtected(req[w]) -> "guard"
                           [] OTHER               -> "render")
    /\ UNCHANGED <<clock, wire, ids, store, open, sess, logins, standing>>

\* LoginVM::getInstance() finds the user and password_verify() agrees.
LoginVerified(w) ==
    /\ Goto(w, "login", "verified")
    /\ AfterSuccessfulLogin(w)
    /\ UNCHANGED <<clock, wire, standing>>

\* It finds no such user or password_verify() disagrees: loginPOST() logs out.
LoginRefused(w) ==
    /\ Goto(w, "login", "render")
    /\ AfterSuccessfulLogout(w)
    /\ UNCHANGED <<clock, wire, ids, logins>>

\* The database fails under readUser(): the script stops where it is.
LoginAborted(w) ==
    /\ Goto(w, "login", "render")
    /\ UNCHANGED <<clock, wire, ids, store, open, sess, logins, standing>>

\* loginPOST() runs after_successful_login() a second time, then listProducts().
CompleteLogin(w) ==
    /\ Goto(w, "verified", "guard")
    /\ AfterSuccessfulLogin(w)
    /\ UNCHANGED <<clock, wire, standing>>

\* Mutant of Logout: the page is shown and the session kept.
LogoutShowsPageOnly(w) ==
    /\ Goto(w, "logout", "render")
    /\ standing' = [standing EXCEPT ![client[w]] =
                        IF "login" \in overlap[w] THEN "unknown" ELSE "out"]
    /\ UNCHANGED <<clock, wire, ids, store, open, sess, logins>>

\* logout().
Logout(w) ==
    /\ Goto(w, "logout", "render")
    /\ AfterSuccessfulLogout(w)
    /\ UNCHANGED <<clock, wire, ids, logins>>

\* Mutant of GuardPasses: end_session() is called outside of the condition.
GuardPassesOnce(w) ==
    /\ IsLoggedIn(sess[w])
    /\ LastLoginIsRecent(sess[w])
    /\ Goto(w, "guard", "page")
    /\ EndSession(w)
    /\ UNCHANGED <<clock, wire, ids, logins, standing>>

\* before_every_protected_page() returns.
GuardPasses(w) ==
    /\ IsLoggedIn(sess[w])
    /\ LastLoginIsRecent(sess[w])
    /\ Goto(w, "guard", "page")
    /\ UNCHANGED <<clock, wire, ids, store, open, sess, logins, standing>>

\* Mutant of GuardFails: the page for invalid sessions checks the session.
GuardFailsAgain(w) ==
    /\ ~ (IsLoggedIn(sess[w]) /\ LastLoginIsRecent(sess[w]))
    /\ Goto(w, "guard", "guard")
    /\ EndSession(w)
    /\ UNCHANGED <<clock, wire, ids, logins, standing>>

\* It does not: the session ends and FailedAccess is shown, then exit.
GuardFails(w) ==
    /\ ~ (IsLoggedIn(sess[w]) /\ LastLoginIsRecent(sess[w]))
    /\ Goto(w, "guard", "render")
    /\ EndSession(w)
    /\ UNCHANGED <<clock, wire, ids, logins, standing>>

\* The script ends: the engine stores $_SESSION and releases the id, unless
\* the session was destroyed.
Finish(w) ==
    /\ \/ Goto(w, "page", "sentPage")
       \/ Goto(w, "render", "sent")
    /\ store' = IF open[w] = NoSid THEN store
                                   ELSE [store EXCEPT ![open[w]] = sess[w]]
    /\ open' = [open EXCEPT ![w] = NoSid]
    /\ sess' = [sess EXCEPT ![w] = Empty]
    /\ UNCHANGED <<clock, wire, ids, logins, standing>>

Step(w) ==
    \/ StartNewSession(w)
    \/ StartKnownSession(w)
    \/ Dispatch(w)
    \/ LoginVerified(w)
    \/ LoginRefused(w)
    \/ LoginAborted(w)
    \/ CompleteLogin(w)
    \/ Logout(w)
    \/ GuardPasses(w)
    \/ GuardFails(w)
    \/ Finish(w)

Tick == /\ clock < MaxClock
        /\ clock' = clock + 1
        /\ UNCHANGED <<wire, ids, store, open, sess, pc, logins, standing>>

\* Every request the bound allows has been sent and answered.
Quiet == /\ issued = MaxRequests
         /\ \A w \in Workers : pc[w] = "idle"
         /\ UNCHANGED vars

Next == \/ \E b \in Browsers, w \in Workers, q \in SiteRequests : Issue(b, w, q)
        \/ \E w \in Workers : Step(w) \/ Deliver(w) \/ LoseAnswer(w)
        \/ Tick
        \/ Quiet

Spec == Init /\ [][Next]_vars

\* The web server runs every script it has started, and an answer arrives or
\* is lost.  Clients need not send anything and the clock may stop.
Fairness == \A w \in Workers : WF_vars(Step(w) \/ Deliver(w) \/ LoseAnswer(w))

FairSpec == Spec /\ Fairness
-----------------------------------------------------------------------------
(* Correctness.                                                            *)

\* A protected page is granted only within $max_elapsed of a login accepted
\* for the same browser: an id left behind by a regeneration, a destroyed id
\* that is used again or another client's login never opens the guard.
GrantFollowsLogin ==
    [][\A w \in Workers :
          pc[w] = "guard" /\ pc'[w] = "page" =>
              \E t \in logins[client[w]] : clock <= t + MaxElapsed]_vars

\* An id belongs to the browser it was made for, wherever it is in use: in a
\* jar, in a request, under a script, in an answer.
OwnedBy(s, b) == s = NoSid \/ madeFor[s] = b

IdsOwned ==
    /\ \A b \in Browsers : OwnedBy(jar[b], b)
    /\ \A w \in Workers : /\ OwnedBy(cookie[w], client[w])
                          /\ OwnedBy(open[w], client[w])
                          /\ OwnedBy(setCookie[w], client[w])

\* A login found in a session was accepted for a request of its owner, at the
\* time the session says.
LoginOf(d, b) == d.loggedIn => b \in Browsers /\ d.lastLogin \in logins[b]

LoginsOwned ==
    /\ \A s \in Sids : LoginOf(store[s], madeFor[s])
    /\ \A w \in Workers : LoginOf(sess[w], client[w])

\* No session, stored or running, carries a login that its owner did not make:
\* ids never mix two browsers up, and no data is stored under a foreign id.
SessionsOwned == IdsOwned /\ LoginsOwned

\* The parts of the inductive invariant that the properties here rest on: ids
\* not handed out are unused, a script holds an id exactly between
\* session_start() and its end or the destruction of the session, and no two
\* scripts hold the same one.
FreshUnused == \A s \in Sids : s > lastSid => madeFor[s] = Nobody /\ store[s] = Empty

Unopened == {"idle", "queued", "sentPage", "sent"}

PhasesOK ==
    \A w \in Workers :
        /\ pc[w] = "idle" <=> client[w] = Nobody
        /\ pc[w] = "idle" => cookie[w] = NoSid /\ setCookie[w] = NoSid
        /\ pc[w] \in Unopened => open[w] = NoSid
        /\ pc[w] \notin Unopened \cup {"render"} => open[w] # NoSid
        /\ open[w] = NoSid => sess[w] = Empty

LockExclusive ==
    \A v, w \in Workers : v # w /\ open[v] = open[w] => open[v] = NoSid

\* Everything a script may assume of the sessions, at every step of every
\* interleaving.
SessionInv == TypeOK /\ FreshUnused /\ PhasesOK /\ LockExclusive /\ SessionsOwned

\* The data of a session under a running script changes only when that script
\* gives the id up: what it loaded is never stale, so what it stores never
\* undoes another tab's login, logout or expiry.
NoLostUpdate ==
    [][\A w \in Workers : \A s \in Sids :
          open[w] = s /\ store'[s] # store[s] => open'[w] # s]_vars

\* After a logout or a refused login that no other login of the browser
\* overlapped, and until it sends the next login, the id in its jar carries
\* no login, whatever its other tabs had in flight.
LogoutHolds ==
    \A b \in Browsers :
        standing[b] = "out" /\ jar[b] # NoSid => ~ store[jar[b]].loggedIn

\* After an accepted login that nothing overlapped, and until the browser
\* sends a login or a logout or $max_elapsed passes, the id in its jar carries
\* the login.
LoginHolds ==
    \A b \in Browsers :
        standing[b] = "in" /\ (\E t \in logins[b] : clock <= t + MaxElapsed) =>
            jar[b] # NoSid /\ store[jar[b]].loggedIn

\* Every request that reaches the server is answered, also when several tabs
\* wait for the same session.
EveryRequestAnswered ==
    \A w \in Workers : pc[w] = "queued" ~> pc[w] = "idle"

\* sessionFunctions.php:122, "Regenerate session ID to invalidate the old
\* one.": when a script moves to a new id, the old id carries no login.
OldIdInvalidated ==
    [][\A w \in Workers :
          open[w] # NoSid /\ open'[w] \notin {NoSid, open[w]} =>
              ~ store'[open[w]].loggedIn]_vars
=============================================================================
