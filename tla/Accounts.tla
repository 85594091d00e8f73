------------------------------ MODULE Accounts ------------------------------
(***************************************************************************)
(* The accounts of the site: registration, which sanitises, validates,     *)
(* hashes and writes a new user, and the login's look-up and verification. *)
(* Scripts of several clients interleave between their steps; no code      *)
(* changes or removes a user.                                              *)
(*                                                                         *)
(* What a form field holds is a text.  What the sanitising filter, strlen, *)
(* trim and the hash make of a text are functions and sets of texts, and   *)
(* the table compares addresses by its collation.  The table's definition  *)
(* is not in the repository: it may or may not refuse a second row with an *)
(* address it has.                                                         *)
(***************************************************************************)
EXTENDS Integers, Sequences

CONSTANTS
    Workers,        \* scripts the web server can run at a time
    Requests,       \* the registrations and logins that clients send
    Emails,         \* addresses as typed
    ValidEmails,    \* those that FILTER_VALIDATE_EMAIL takes
    Address,        \* what the table compares of an address
    Texts,          \* passwords and phone numbers as typed, and sanitised
    NoText,         \* the empty text
    Trim,           \* trim()
    Escape,         \* FILTER_SANITIZE_FULL_SPECIAL_CHARS
    Long,           \* texts of at least 8 bytes
    TenDigits,      \* texts that match /^[0-9]{10}$/
    Keys,           \* password hashes, without their salt
    Key,            \* the hash of a text: of its first 72 bytes
    MaxRequests     \* bound: how many requests are sent in all

Null == "null"

Registrations == [kind : {"register"}, email : Emails, password : Texts,
                  confirm : Texts, phone : Texts]
Logins        == [kind : {"login"}, email : Emails, password : Texts]

ASSUME AccountsAssumption ==
    /\ Requests \subseteq Registrations \cup Logins
    /\ ValidEmails \subseteq Emails
    /\ Escape \in [Texts -> Texts]
    /\ Trim \in [Texts -> Texts]
    /\ Key \in [Texts -> Keys]
    /\ DOMAIN Address = Emails
    /\ Long \cup TenDigits \cup {NoText} \subseteq Texts
    /\ Null \notin Texts \cup Emails
    /\ MaxRequests \in Nat

NoRequest == [kind |-> "none"]
NoUser    == [email |-> Null, key |-> Null]

Users == [email : Emails, key : Keys]

PCs == {"idle", "registering", "valid", "invalid", "written",
        "looking", "found", "accepted", "refused"}

VARIABLES
    unique,     \* does the table refuse a second user with an address?
    users,      \* the users table, in the order of its ids
    sent,       \* requests so far
    pc,         \* where each script is
    req,        \* the request it serves
    user,       \* what readUser() gave it
    \* History, read by no action:
    origin,     \* the registration that each user came from
    confirmed,  \* registrations whose success page was made
    before      \* what was confirmed when a login was sent

vars == <<unique, users, sent, pc, req, user, origin, confirmed, before>>

TypeOK ==
    /\ unique \in BOOLEAN
    /\ users \in Seq(Users)
    /\ sent \in 0 .. MaxRequests
    /\ pc \in [Workers -> PCs]
    /\ req \in [Workers -> Requests \cup {NoRequest}]
    /\ user \in [Workers -> Users \cup {NoUser}]
    /\ origin \in Seq(Requests)
    /\ confirmed \subseteq Requests
    /\ before \in [Workers -> SUBSET Requests]

Init ==
    /\ unique \in BOOLEAN
    /\ users = <<>>
    /\ sent = 0
    /\ pc = [w \in Workers |-> "idle"]
    /\ req = [w \in Workers |-> NoRequest]
    /\ user = [w \in Workers |-> NoUser]
    /\ origin = <<>>
    /\ confirmed = {}
    /\ before = [w \in Workers |-> {}]
-----------------------------------------------------------------------------
(* Sanitising and validating.                                              *)

\* hPOST(): a field of white space becomes null, which here the empty one does
\* too; any other is escaped, and trimmed only for the test.
HPost(t) == IF Trim[Escape[t]] = NoText THEN Null ELSE Escape[t]

\* validateUserInput(): the checks see the sanitised fields.
ValidateUserInput(q) ==
    /\ q.email \in ValidEmails
    /\ HPost(q.password) \in Long
    /\ HPost(q.password) = HPost(q.confirm)
    /\ HPost(q.phone) \in TenDigits
-----------------------------------------------------------------------------
Goto(w, from, to) == pc[w] = from /\ pc' = [pc EXCEPT ![w] = to]

Send(w, q) ==
    /\ sent < MaxRequests
    /\ Goto(w, "idle", IF q.kind = "login" THEN "looking" ELSE "registering")
    /\ sent' = sent + 1
    /\ req' = [req EXCEPT ![w] = q]
    /\ before' = [before EXCEPT ![w] = confirmed]
    /\ UNCHANGED <<unique, users, user, origin, confirmed>>

\* getInstance() and the two outcomes of its validation.
AcceptInput(w) == /\ Goto(w, "registering", "valid")
                  /\ ValidateUserInput(req[w])
                  /\ UNCHANGED <<unique, users, sent, req, user, origin, confirmed,
                                 before>>

RefuseInput(w) == /\ Goto(w, "registering", "invalid")
                  /\ ~ ValidateUserInput(req[w])
                  /\ UNCHANGED <<unique, users, sent, req, user, origin, confirmed,
                                 before>>

Taken(e) == \E i \in DOMAIN users : Address[users[i].email] = Address[e]

\* password_hash() and writeUser(): INSERT.  The user has no id.
WriteUser(w) ==
    /\ Goto(w, "valid", "written")
    /\ unique => ~ Taken(req[w].email)
    /\ users' = Append(users, [email |-> req[w].email,
                               key |-> Key[HPost(req[w].password)]])
    /\ origin' = Append(origin, req[w])
    /\ UNCHANGED <<unique, sent, req, user, confirmed, before>>

\* The script is over.
Leave(w) == /\ pc' = [pc EXCEPT ![w] = "idle"]
            /\ req' = [req EXCEPT ![w] = NoRequest]
            /\ user' = [user EXCEPT ![w] = NoUser]
            /\ before' = [before EXCEPT ![w] = {}]

\* INSERT or SELECT fails, INSERT because the address is taken or for any other
\* reason: the exception ends the script, for a login with no verdict.
WriteFails(w) == /\ pc[w] = "valid"
                 /\ Leave(w)
                 /\ UNCHANGED <<unique, users, sent, origin, confirmed>>

ReadFails(w)  == /\ pc[w] = "looking"
                 /\ Leave(w)
                 /\ UNCHANGED <<unique, users, sent, origin, confirmed>>

\* registrationSuccess.php.
Confirm(w) == /\ pc[w] = "written"
              /\ confirmed' = confirmed \cup {req[w]}
              /\ Leave(w)
              /\ UNCHANGED <<unique, users, sent, origin>>

\* Mutant of ReadUser: the address is compared as it was typed.
ReadUserAsTyped(w) ==
    /\ Goto(w, "looking", "found")
    /\ LET rows == {i \in DOMAIN users : users[i].email = req[w].email} IN
       \/ rows = {} /\ user' = user
       \/ \E i \in rows : user' = [user EXCEPT ![w] = users[i]]
    /\ UNCHANGED <<unique, users, sent, req, origin, confirmed, before>>

\* readUser(): the first row that SELECT returns, in no particular order.
ReadUser(w) ==
    /\ Goto(w, "looking", "found")
    /\ LET rows == {i \in DOMAIN users :
                       Address[users[i].email] = Address[req[w].email]} IN
       \/ rows = {} /\ user' = user
       \/ \E i \in rows : user' = [user EXCEPT ![w] = users[i]]
    /\ UNCHANGED <<unique, users, sent, req, origin, confirmed, before>>

\* Mutant of Authenticated: that the user exists is enough.
AuthenticatedIfFound(w) == user[w] # NoUser

\* authenticateUser(): password_verify() of the password as it was typed.
Authenticated(w) == user[w] # NoUser /\ Key[req[w].password] = user[w].key

Authenticate(w) ==
    /\ Goto(w, "found", IF Authenticated(w) THEN "accepted" ELSE "refused")
    /\ UNCHANGED <<unique, users, sent, req, user, origin, confirmed, before>>

\* The page of a refused registration, or what follows a login.
Answer(w) == /\ pc[w] \in {"invalid", "accepted", "refused"}
             /\ Leave(w)
             /\ UNCHANGED <<unique, users, sent, origin, confirmed>>

\* Every request the bound allows has been answered.
Quiet == /\ sent = MaxRequests
         /\ \A w \in Workers : pc[w] = "idle"
         /\ UNCHANGED vars

Next == \/ \E w \in Workers :
               \/ \E q \in Requests : Send(w, q)
               \/ AcceptInput(w)
               \/ RefuseInput(w)
               \/ WriteUser(w)
               \/ WriteFails(w)
               \/ Confirm(w)
               \/ ReadUser(w)
               \/ ReadFails(w)
               \/ Authenticate(w)
               \/ Answer(w)
        \/ Quiet

Spec == Init /\ [][Next]_vars
-----------------------------------------------------------------------------
(* Correctness.                                                            *)

SameAddress(e, f) == Address[e] = Address[f]

\* A password that the login can verify: sanitising did not change its hash.
Kept(p) == Key[HPost(p)] = Key[p]

\* A login is accepted only with the sanitised password of a registration of
\* the same address, that of its own registration unless two clash.
LoginFollowsRegistration ==
    \A w \in Workers :
        pc[w] = "accepted" =>
            \E i \in DOMAIN origin :
                /\ SameAddress(origin[i].email, req[w].email)
                /\ Key[HPost(origin[i].password)] = Key[req[w].password]

\* Who was shown the success page, with a password that sanitising keeps, is
\* not refused with it, unless the address has been registered with another
\* password too, and that only where the table takes an address twice.
RegisteredGetsIn ==
    \A w \in Workers : \A c \in before[w] :
        /\ pc[w] = "refused"
        /\ SameAddress(c.email, req[w].email)
        /\ c.password = req[w].password
        /\ Kept(c.password)
        => /\ ~ unique
           /\ \E i \in DOMAIN origin :
                 /\ SameAddress(origin[i].email, req[w].email)
                 /\ Key[HPost(origin[i].password)] # Key[c.password]

\* Who registers with a password that sanitising does not keep never gets in
\* with it where addresses are unique.
ChangedPasswordLocksOut ==
    \A w \in Workers :
        pc[w] = "accepted" /\ unique =>
            \A c \in before[w] :
                SameAddress(c.email, req[w].email)
                    /\ c.password = req[w].password => Kept(c.password)

\* The invariant behind these, in parts.  A script keeps to its request: it
\* writes only what it has validated and decides by what it has found.
ScriptsOK ==
    \A w \in Workers :
        /\ pc[w] \in {"registering", "valid", "invalid", "written"} =>
              req[w] \in Registrations
        /\ pc[w] \in {"looking", "found", "accepted", "refused"} =>
              req[w] \in Logins
        /\ pc[w] \notin {"found", "accepted", "refused"} => user[w] = NoUser
        /\ pc[w] \in {"valid", "written"} => ValidateUserInput(req[w])
        /\ pc[w] = "accepted" => Authenticated(w)
        /\ pc[w] = "refused" => ~ Authenticated(w)

\* A user is what its registration makes of it, and no address has two users
\* where the table forbids it.
UsersOK ==
    /\ DOMAIN users = DOMAIN origin
    /\ \A i \in DOMAIN users :
          /\ origin[i] \in Registrations
          /\ ValidateUserInput(origin[i])
          /\ users[i] = [email |-> origin[i].email,
                         key |-> Key[HPost(origin[i].password)]]
    /\ unique => \A i, j \in DOMAIN users :
                     SameAddress(users[i].email, users[j].email) => i = j

\* A confirmed registration has its user, whatever else is written.
ConfirmedOK ==
    /\ \A c \in confirmed : \E i \in DOMAIN origin : origin[i] = c
    /\ \A w \in Workers :
          /\ before[w] \subseteq confirmed
          /\ pc[w] = "written" => \E i \in DOMAIN origin : origin[i] = req[w]

\* What a login found is a user of its address, and it found one if any had been
\* confirmed before it was sent.
FoundOK ==
    \A w \in Workers :
        pc[w] \in {"found", "accepted", "refused"} =>
            IF user[w] = NoUser
            THEN \A c \in before[w] : ~ SameAddress(c.email, req[w].email)
            ELSE \E i \in DOMAIN users :
                    /\ users[i] = user[w]
                    /\ SameAddress(users[i].email, req[w].email)

AccountsInv == TypeOK /\ ScriptsOK /\ UsersOK /\ ConfirmedOK /\ FoundOK

\* RegisterVM.php:69, "Password must be at least 8 characters long.": the
\* password of a user was that long when it was typed.
PasswordsAreLong == \A i \in DOMAIN origin : origin[i].password \in Long
=============================================================================
