--------------------------- MODULE AccountsProofs ---------------------------
(***************************************************************************)
(* What Accounts promises for any scripts, requests, texts and addresses:  *)
(* AccountsInv is inductive, and a login is decided by the registration of *)
(* its address alone.                                                      *)
(***************************************************************************)
EXTENDS Accounts, TLAPS

\* A request is one of the two kinds, and its kind says which.
LEMMA KindOfRequest ==
  ASSUME NEW q \in Requests
  PROVE  /\ q.kind = "login" => q \in Logins
         /\ q.kind # "login" => q \in Registrations
BY AccountsAssumption DEF Registrations, Logins

\* A user of the table is never mistaken for none.
LEMMA UserIsSomeone ==
  ASSUME TypeOK, NEW i \in DOMAIN users
  PROVE  users[i] \in Users /\ users[i] # NoUser
<1>1. users[i] \in Users
  BY DEF TypeOK
<1> QED
  BY <1>1, AccountsAssumption DEF Users, NoUser

\* The table is empty and no script runs.
LEMMA InitInv == Init => AccountsInv
<1> SUFFICES ASSUME Init PROVE AccountsInv
  OBVIOUS
<1> USE DEF Init
<1>1. TypeOK
  BY AccountsAssumption DEF TypeOK, PCs
<1>2. ScriptsOK
  BY DEF ScriptsOK
<1>3. UsersOK
  BY DEF UsersOK
<1>4. ConfirmedOK /\ FoundOK
  BY DEF ConfirmedOK, FoundOK
<1> QED
  BY <1>1, <1>2, <1>3, <1>4 DEF AccountsInv
-----------------------------------------------------------------------------
(* Each kind of step preserves the invariant.                              *)

\* A script takes a request: it is of the kind that the script goes on with.
LEMMA SendPreserves ==
  ASSUME AccountsInv, NEW w \in Workers, NEW q \in Requests, Send(w, q)
  PROVE  AccountsInv'
<1> USE DEF AccountsInv
<1>1. TypeOK'
  BY AccountsAssumption DEF TypeOK, Send, Goto, PCs
<1>2. ScriptsOK'
  BY KindOfRequest DEF TypeOK, ScriptsOK, Send, Goto, Authenticated
<1>3. UsersOK'
  BY DEF UsersOK, Send
<1>4. ConfirmedOK'
  BY DEF TypeOK, ConfirmedOK, Send, Goto
<1>5. FoundOK'
  BY DEF TypeOK, FoundOK, Send, Goto
<1> QED
  BY <1>1, <1>2, <1>3, <1>4, <1>5

\* The verdict on a registration: only a valid one goes on.
LEMMA InputPreserves ==
  ASSUME AccountsInv, NEW w \in Workers, AcceptInput(w) \/ RefuseInput(w)
  PROVE  AccountsInv'
<1> USE DEF AccountsInv, AcceptInput, RefuseInput
<1>1. TypeOK'
  BY DEF TypeOK, Goto, PCs
<1>2. ScriptsOK'
  BY DEF TypeOK, ScriptsOK, Goto, Authenticated
<1>3. UsersOK'
  BY DEF UsersOK
<1>4. ConfirmedOK'
  BY DEF TypeOK, ConfirmedOK, Goto
<1>5. FoundOK'
  BY DEF TypeOK, FoundOK, Goto
<1> QED
  BY <1>1, <1>2, <1>3, <1>4, <1>5

\* A new user: its row is what its registration says, and where addresses are
\* unique no user had its address.
LEMMA WritePreserves ==
  ASSUME AccountsInv, NEW w \in Workers, WriteUser(w)
  PROVE  AccountsInv'
<1> DEFINE row == [email |-> req[w].email, key |-> Key[HPost(req[w].password)]]
<1> USE DEF AccountsInv, WriteUser
<1>1. req[w] \in Registrations /\ ValidateUserInput(req[w]) /\ req[w] \in Requests
  BY DEF TypeOK, ScriptsOK, Goto, Registrations, NoRequest
<1>2. row \in Users
  <2>1. HPost(req[w].password) \in Texts
    BY <1>1, AccountsAssumption DEF ValidateUserInput
  <2> QED
    BY <1>1, <2>1, AccountsAssumption DEF Users, Registrations
<1>3. /\ users' = Append(users, row) /\ origin' = Append(origin, req[w])
      /\ users \in Seq(Users) /\ origin \in Seq(Requests)
      /\ Len(users) = Len(origin)
  BY DEF TypeOK, UsersOK
<1>4. /\ DOMAIN users' = DOMAIN users \cup {Len(users) + 1}
      /\ DOMAIN origin' = DOMAIN users'
      /\ Len(users) + 1 \notin DOMAIN users
      /\ users'[Len(users) + 1] = row
      /\ origin'[Len(users) + 1] = req[w]
      /\ \A i \in DOMAIN users : users'[i] = users[i] /\ origin'[i] = origin[i]
  BY <1>1, <1>2, <1>3
<1>5. TypeOK'
  BY <1>1, <1>2, <1>3 DEF TypeOK, Goto, PCs
<1>6. ScriptsOK'
  BY DEF TypeOK, ScriptsOK, Goto, Authenticated
<1>7. UsersOK'
  <2>1. \A i \in DOMAIN users' :
           /\ origin'[i] \in Registrations
           /\ ValidateUserInput(origin'[i])
           /\ users'[i] = [email |-> origin'[i].email,
                           key |-> Key[HPost(origin'[i].password)]]
    BY <1>1, <1>4 DEF UsersOK
  <2>2. ASSUME unique'
        PROVE  \A i, j \in DOMAIN users' :
                  SameAddress(users'[i].email, users'[j].email) => i = j
    BY <1>4, <2>2 DEF UsersOK, Taken, SameAddress
  <2> QED
    BY <1>4, <2>1, <2>2 DEF UsersOK, ValidateUserInput, HPost, SameAddress
<1>8. ConfirmedOK'
  <2>1. \A c : (\E i \in DOMAIN origin : origin[i] = c) =>
                  \E i \in DOMAIN origin' : origin'[i] = c
    BY <1>4 DEF UsersOK
  <2>2. \E i \in DOMAIN origin' : origin'[i] = req[w]
    BY <1>4
  <2> QED
    BY <2>1, <2>2 DEF TypeOK, ConfirmedOK, Goto
<1>9. FoundOK'
  <2> SUFFICES ASSUME NEW v \in Workers,
                      pc'[v] \in {"found", "accepted", "refused"},
                      user[v] # NoUser
               PROVE  \E i \in DOMAIN users' :
                         /\ users'[i] = user[v]
                         /\ SameAddress(users'[i].email, req[v].email)
    BY DEF TypeOK, FoundOK, Goto, SameAddress
  <2>1. pc[v] \in {"found", "accepted", "refused"}
    BY DEF TypeOK, Goto
  <2>2. PICK i \in DOMAIN users : /\ users[i] = user[v]
                                  /\ SameAddress(users[i].email, req[v].email)
    BY <2>1 DEF FoundOK
  <2> QED
    BY <1>4, <2>2
<1> QED
  BY <1>5, <1>6, <1>7, <1>8, <1>9

\* A script ends, and what it was about to confirm is in the table.
LEMMA LeavePreserves ==
  ASSUME AccountsInv, NEW w \in Workers,
         WriteFails(w) \/ ReadFails(w) \/ Confirm(w) \/ Answer(w)
  PROVE  AccountsInv'
<1> USE DEF AccountsInv, WriteFails, ReadFails, Confirm, Answer, Leave
<1>1. TypeOK'
  <2>1. pc[w] = "written" => req[w] \in Requests
    BY DEF TypeOK, ScriptsOK, Registrations, NoRequest
  <2> QED
    BY <2>1 DEF TypeOK, PCs
<1>2. ScriptsOK'
  BY DEF TypeOK, ScriptsOK, Authenticated
<1>3. UsersOK'
  BY DEF UsersOK
<1>4. ConfirmedOK'
  BY DEF TypeOK, ConfirmedOK
<1>5. FoundOK'
  BY DEF TypeOK, FoundOK
<1> QED
  BY <1>1, <1>2, <1>3, <1>4, <1>5

\* A login reads: a confirmed registration of its address has a row to find.
LEMMA ReadPreserves ==
  ASSUME AccountsInv, NEW w \in Workers, ReadUser(w)
  PROVE  AccountsInv'
<1> DEFINE rows == {i \in DOMAIN users :
                       Address[users[i].email] = Address[req[w].email]}
<1> USE DEF AccountsInv, ReadUser
<1>1. \/ rows = {} /\ user' = user
      \/ \E i \in rows : user' = [user EXCEPT ![w] = users[i]]
  OBVIOUS
<1>2. user[w] = NoUser
  BY DEF ScriptsOK, Goto
<1>3. TypeOK'
  BY <1>1, UserIsSomeone DEF TypeOK, Goto, PCs
<1>4. ScriptsOK'
  BY <1>1 DEF TypeOK, ScriptsOK, Goto, Authenticated
<1>5. UsersOK'
  BY DEF UsersOK
<1>6. ConfirmedOK'
  BY DEF TypeOK, ConfirmedOK, Goto
<1>7. FoundOK'
  <2>1. CASE rows = {} /\ user' = user
    <3>1. \A c \in before[w] : ~ SameAddress(c.email, req[w].email)
      BY <2>1 DEF ConfirmedOK, UsersOK, SameAddress
    <3> QED
      BY <1>2, <2>1, <3>1 DEF TypeOK, FoundOK, Goto
  <2>2. CASE \E i \in rows : user' = [user EXCEPT ![w] = users[i]]
    <3>1. PICK i \in rows : user' = [user EXCEPT ![w] = users[i]]
      BY <2>2
    <3>2. users[i] # NoUser /\ user'[w] = users[i]
      BY <3>1, UserIsSomeone DEF TypeOK
    <3> QED
      BY <3>1, <3>2 DEF TypeOK, FoundOK, Goto, SameAddress
  <2> QED
    BY <1>1, <2>1, <2>2
<1> QED
  BY <1>3, <1>4, <1>5, <1>6, <1>7

\* The verdict on a login is about what it found.
LEMMA AuthenticatePreserves ==
  ASSUME AccountsInv, NEW w \in Workers, Authenticate(w)
  PROVE  AccountsInv'
<1> USE DEF AccountsInv, Authenticate
<1>1. TypeOK'
  BY DEF TypeOK, Goto, PCs
<1>2. ScriptsOK'
  BY DEF TypeOK, ScriptsOK, Goto, Authenticated
<1>3. UsersOK'
  BY DEF UsersOK
<1>4. ConfirmedOK'
  BY DEF TypeOK, ConfirmedOK, Goto
<1>5. FoundOK'
  BY DEF TypeOK, FoundOK, Goto
<1> QED
  BY <1>1, <1>2, <1>3, <1>4, <1>5

\* No step at all.
LEMMA StutterPreserves == AccountsInv /\ UNCHANGED vars => AccountsInv'
BY DEF AccountsInv, TypeOK, ScriptsOK, UsersOK, ConfirmedOK, FoundOK, vars,
       Authenticated, ValidateUserInput, HPost, SameAddress

\* Every step preserves the invariant.
LEMMA NextInv == AccountsInv /\ [Next]_vars => AccountsInv'
<1> SUFFICES ASSUME AccountsInv, [Next]_vars PROVE AccountsInv'
  OBVIOUS
<1>1. ASSUME NEW w \in Workers, NEW q \in Requests, Send(w, q) PROVE AccountsInv'
  BY <1>1, SendPreserves
<1>2. ASSUME NEW w \in Workers, AcceptInput(w) \/ RefuseInput(w) PROVE AccountsInv'
  BY <1>2, InputPreserves
<1>3. ASSUME NEW w \in Workers, WriteUser(w) PROVE AccountsInv'
  BY <1>3, WritePreserves
<1>4. ASSUME NEW w \in Workers,
             WriteFails(w) \/ ReadFails(w) \/ Confirm(w) \/ Answer(w)
      PROVE  AccountsInv'
  BY <1>4, LeavePreserves
<1>5. ASSUME NEW w \in Workers, ReadUser(w) PROVE AccountsInv'
  BY <1>5, ReadPreserves
<1>6. ASSUME NEW w \in Workers, Authenticate(w) PROVE AccountsInv'
  BY <1>6, AuthenticatePreserves
<1>7. CASE Quiet \/ UNCHANGED vars
  BY <1>7, StutterPreserves DEF Quiet
<1> QED
  BY <1>1, <1>2, <1>3, <1>4, <1>5, <1>6, <1>7 DEF Next
-----------------------------------------------------------------------------
(* The theorems.                                                           *)

\* Every reachable state keeps the invariant: users are what registrations of
\* RegisterVM made of them, and scripts decide by what they found.
THEOREM AccountsInvariant == Spec => []AccountsInv
<1> QED
  BY InitInv, NextInv, PTL DEF Spec

\* The variables have their types.
THEOREM TypeCorrect == Spec => []TypeOK
<1>1. AccountsInv => TypeOK
  BY DEF AccountsInv
<1> QED
  BY <1>1, AccountsInvariant, PTL

\* An accepted login has the sanitised password of a registration of its
\* address.
THEOREM LoginsFollowRegistrations == Spec => []LoginFollowsRegistration
<1>1. AccountsInv => LoginFollowsRegistration
  <2> SUFFICES ASSUME AccountsInv, NEW w \in Workers, pc[w] = "accepted"
               PROVE  \E i \in DOMAIN origin :
                         /\ SameAddress(origin[i].email, req[w].email)
                         /\ Key[HPost(origin[i].password)] = Key[req[w].password]
    BY DEF LoginFollowsRegistration
  <2> USE DEF AccountsInv
  <2>1. Authenticated(w)
    BY DEF ScriptsOK
  <2>2. PICK i \in DOMAIN users : /\ users[i] = user[w]
                                  /\ SameAddress(users[i].email, req[w].email)
    BY <2>1 DEF FoundOK, Authenticated
  <2>3. i \in DOMAIN origin /\ users[i].email = origin[i].email
        /\ users[i].key = Key[HPost(origin[i].password)]
    BY DEF UsersOK
  <2> QED
    BY <2>1, <2>2, <2>3 DEF Authenticated
<1> QED
  BY <1>1, AccountsInvariant, PTL

\* Where addresses are unique, a confirmed registration is what a login of its
\* address finds.
LEMMA OneRegistration ==
  ASSUME AccountsInv, unique, NEW w \in Workers, NEW c \in before[w],
         SameAddress(c.email, req[w].email), user[w] # NoUser,
         pc[w] \in {"accepted", "refused"}
  PROVE  user[w].key = Key[HPost(c.password)]
<1> USE DEF AccountsInv
<1>1. PICK i \in DOMAIN users : /\ users[i] = user[w]
                                /\ SameAddress(users[i].email, req[w].email)
  BY DEF FoundOK
<1>2. PICK j \in DOMAIN origin : origin[j] = c
  BY DEF ConfirmedOK
<1>3. j \in DOMAIN users /\ users[j].email = c.email
      /\ users[j].key = Key[HPost(c.password)]
  BY <1>2 DEF UsersOK
<1>4. i = j
  BY <1>1, <1>3 DEF UsersOK, SameAddress
<1> QED
  BY <1>1, <1>3, <1>4

\* Who was shown the success page gets in with the password, if sanitising
\* keeps it and the address has no other one.
THEOREM RegisteredGetIn == Spec => []RegisteredGetsIn
<1>1. AccountsInv => RegisteredGetsIn
  <2> SUFFICES ASSUME AccountsInv, NEW w \in Workers, NEW c \in before[w],
                      pc[w] = "refused",
                      SameAddress(c.email, req[w].email),
                      c.password = req[w].password, Kept(c.password)
               PROVE  /\ ~ unique
                      /\ \E i \in DOMAIN origin :
                            /\ SameAddress(origin[i].email, req[w].email)
                            /\ Key[HPost(origin[i].password)] # Key[c.password]
    BY DEF RegisteredGetsIn
  <2> USE DEF AccountsInv
  <2>1. ~ Authenticated(w) /\ user[w] # NoUser
    BY DEF ScriptsOK, FoundOK
  <2>2. user[w].key # Key[c.password]
    BY <2>1 DEF Authenticated
  <2>3. ~ unique
    BY <2>1, <2>2, OneRegistration DEF Kept
  <2>4. PICK i \in DOMAIN users : /\ users[i] = user[w]
                                  /\ SameAddress(users[i].email, req[w].email)
    BY <2>1 DEF FoundOK
  <2>5. i \in DOMAIN origin /\ users[i].email = origin[i].email
        /\ users[i].key = Key[HPost(origin[i].password)]
    BY DEF UsersOK
  <2> QED
    BY <2>2, <2>3, <2>4, <2>5
<1> QED
  BY <1>1, AccountsInvariant, PTL

\* Who registers with a password that sanitising changes stays out.
THEOREM ChangedPasswordsLockOut == Spec => []ChangedPasswordLocksOut
<1>1. AccountsInv => ChangedPasswordLocksOut
  <2> SUFFICES ASSUME AccountsInv, NEW w \in Workers, NEW c \in before[w],
                      pc[w] = "accepted", unique,
                      SameAddress(c.email, req[w].email),
                      c.password = req[w].password
               PROVE  Kept(c.password)
    BY DEF ChangedPasswordLocksOut
  <2>1. Authenticated(w)
    BY DEF AccountsInv, ScriptsOK
  <2>2. user[w].key = Key[HPost(c.password)]
    BY <2>1, OneRegistration DEF Authenticated
  <2> QED
    BY <2>1, <2>2 DEF Authenticated, Kept
<1> QED
  BY <1>1, AccountsInvariant, PTL
=============================================================================
