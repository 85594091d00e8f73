---------------------------- MODULE ListingProofs ----------------------------
(***************************************************************************)
(* What Upload and Listing promise for any number of products, pages,      *)
(* files and uploads.  Upload: UploadInv is inductive, what is stored      *)
(* passed the checks, an answer and its page's button agree, a product     *)
(* posted has its file unless its page could not know that it has not, and *)
(* no later upload replaces a file.  Listing: the edit pages leave the     *)
(* uploads as Upload has them, a listed image is the one its form's page   *)
(* uploaded or one that overlapped with it, an image goes only to a form   *)
(* whose page had chosen none, and a text that nobody typed changes only   *)
(* by printing and quoting.                                                *)
(***************************************************************************)
EXTENDS Listing, TLAPS

USE UploadAssumption

\* The stored files are a function from clean names to uploads.
LEMMA FilesType ==
  ASSUME TypeOK
  PROVE  /\ DOMAIN files \subseteq CleanNames
         /\ files \in [DOMAIN files -> Uploads]
BY DEF TypeOK

\* A page that has chosen a file has its last upload among the uploads.
LEMMA LastUpload ==
  ASSUME TypeOK, NEW t \in Tabs, chosen[t] > 0
  PROVE  <<t, chosen[t]>> \in Uploads
BY DEF TypeOK, Uploads

\* The pages of posted products have been left: a step that leaves their files and
\* shows them no error leaves PostedUnrefused as it is.
LEMMA PostedKept ==
  ASSUME UploadInv, UNCHANGED posted, open' \subseteq open,
         \A s \in Tabs \ open :
            /\ chosen'[s] = chosen[s] /\ inOrder'[s] = inOrder[s]
            /\ chosen[s] > 0 => LET u == <<s, chosen[s]>> IN
                                /\ name'[u] = name[u]
                                /\ phase'[u] = "gotError" => phase[u] = "gotError"
  PROVE  PostedUnrefused'
<1> SUFFICES ASSUME NEW p \in posted
             PROVE  /\ p.tab \notin open'
                    /\ p.image = Chosen(p.tab)'
                    /\ inOrder'[p.tab] /\ chosen'[p.tab] > 0
                          => phase'[<<p.tab, chosen'[p.tab]>>] # "gotError"
  BY DEF PostedUnrefused, LastOf
<1> PICK s : s = p.tab
  OBVIOUS
<1>1. s \in Tabs \ open /\ p.image = Chosen(s) /\ chosen[s] \in Nat
  BY DEF UploadInv, TypeOK, PostedUnrefused
<1>2. inOrder[s] /\ chosen[s] > 0 => phase[<<s, chosen[s]>>] # "gotError"
  BY DEF UploadInv, PostedUnrefused, LastOf
<1>3. Chosen(s)' = Chosen(s)
  BY <1>1 DEF Chosen
<1>4. Chosen(p.tab)' = Chosen(s)'
  BY DEF Chosen
<1> QED
  BY <1>1, <1>2, <1>3, <1>4

\* Nothing has been sent at first.
LEMMA InitInv == Init => UploadInv
<1> SUFFICES ASSUME Init PROVE UploadInv
  OBVIOUS
<1> USE DEF Init
<1>1. TypeOK
  <2>1. \E S \in SUBSET CleanNames : files \in [S -> Uploads]
    <3>1. files \in [{} -> Uploads]
      OBVIOUS
    <3> QED
      BY <3>1
  <2>2. /\ phase \in [Uploads -> Phases]
        /\ name \in [Uploads -> RawNames \cup {NoFile}]
        /\ chosen \in [Tabs -> 0 .. MaxChoices]
        /\ known \in [Uploads -> SUBSET CleanNames]
    BY DEF Phases
  <2>3. /\ valid \in [Uploads -> BOOLEAN]
        /\ enabled \in [Tabs -> BOOLEAN]
        /\ inOrder \in [Tabs -> BOOLEAN]
    BY Zenon
  <2> QED
    BY <2>1, <2>2, <2>3 DEF TypeOK
<1>2. UploadPhases
  BY DEF UploadPhases, Uploads, Passed, Moved
<1>3. KnownStored /\ OneDue
  BY DEF KnownStored, OneDue, Settled, Uploads
<1>4. OnlyValidStored /\ ButtonFollowsAnswer /\ PostedUnrefused
  BY DEF OnlyValidStored, ButtonFollowsAnswer, PostedUnrefused
<1> QED
  BY <1>1, <1>2, <1>3, <1>4 DEF UploadInv
-----------------------------------------------------------------------------
(* Each kind of step preserves the invariant.                              *)

\* Choosing a file starts the next upload of the page.
LEMMA ChoosePreserves ==
  ASSUME UploadInv, NEW t \in Tabs, NEW n \in RawNames \cup {NoFile},
         NEW ok \in BOOLEAN, Choose(t, n, ok)
  PROVE  UploadInv'
<1> DEFINE u == <<t, chosen[t] + 1>>
<1> USE DEF UploadInv
<1>1. /\ u \in Uploads
      /\ phase' = [phase EXCEPT ![u] = "sent"]
      /\ name' = [name EXCEPT ![u] = n]
      /\ valid' = [valid EXCEPT ![u] = ok]
      /\ chosen' = [chosen EXCEPT ![t] = @ + 1]
      /\ known' = [known EXCEPT ![u] = DOMAIN files]
      /\ UNCHANGED <<enabled, posted, open, files>>
      /\ ok => n # NoFile
  BY DEF TypeOK, Choose, Uploads
<1>2. phase[u] = "none"
  BY <1>1 DEF UploadPhases, Uploads, TypeOK
<1>3. TypeOK'
  <2>1. inOrder' \in [Tabs -> BOOLEAN]
    BY DEF TypeOK, Choose
  <2>2. chosen' \in [Tabs -> 0 .. MaxChoices]
    BY <1>1 DEF TypeOK, Uploads
  <2>3. known' \in [Uploads -> SUBSET CleanNames]
    BY <1>1, FilesType DEF TypeOK
  <2> QED
    BY <1>1, <2>1, <2>2, <2>3 DEF TypeOK, Phases
<1>4. \A v \in Uploads : v # u => /\ phase'[v] = phase[v]
                                  /\ name'[v] = name[v]
                                  /\ valid'[v] = valid[v]
                                  /\ known'[v] = known[v]
  BY <1>1 DEF TypeOK
<1>5. /\ phase'[u] = "sent" /\ name'[u] = n
      /\ valid'[u] = ok /\ known'[u] = DOMAIN files
  BY <1>1 DEF TypeOK
<1>6. UploadPhases'
  <2> SUFFICES ASSUME NEW v \in Uploads
               PROVE  /\ phase'[v] = "none" <=> v[2] > chosen'[v[1]]
                      /\ valid'[v] => name'[v] # NoFile
                      /\ phase'[v] \in Passed => valid'[v]
                      /\ phase'[v] \in Moved => Stored(v)'
    BY DEF UploadPhases, Passed, Moved
  <2>1. CASE v = u
    BY <2>1, <1>1, <1>5 DEF TypeOK, Uploads, Passed, Moved
  <2>2. CASE v # u
    <3>1. phase'[v] = "none" <=> v[2] > chosen'[v[1]]
      <4>1. v = <<v[1], v[2]>> /\ v[1] \in Tabs /\ v[2] \in Nat
        BY DEF Uploads
      <4>2. chosen'[v[1]] = IF v[1] = t THEN chosen[t] + 1 ELSE chosen[v[1]]
        BY <1>1, <4>1 DEF TypeOK
      <4>3. v[1] = t => v[2] # chosen[t] + 1
        BY <2>2, <4>1
      <4>4. phase[v] = "none" <=> v[2] > chosen[v[1]]
        BY DEF UploadPhases
      <4>5. chosen[t] \in Nat /\ chosen[v[1]] \in Nat
        BY <4>1 DEF TypeOK
      <4> QED
        BY <2>2, <1>4, <4>1, <4>2, <4>3, <4>4, <4>5
    <3> QED
      BY <2>2, <3>1, <1>1, <1>4 DEF UploadPhases, Stored
  <2> QED
    BY <2>1, <2>2
<1>7. KnownStored'
  BY <1>1, <1>4, <1>5 DEF KnownStored
<1>8. OneDue'
  <2> SUFFICES ASSUME NEW v \in Uploads, inOrder'[v[1]], v[2] < chosen'[v[1]]
               PROVE  phase'[v] \in Settled
    BY DEF OneDue, Settled
  <2>1. v # u
    BY <1>1 DEF TypeOK, Uploads
  <2>2. CASE v[1] = t
    <3>1. v = <<t, v[2]>> /\ v[2] \in 1 .. chosen[t]
      BY <2>1, <2>2, <1>1 DEF TypeOK, Uploads
    <3> QED
      BY <2>1, <2>2, <3>1, <1>4 DEF Choose, TypeOK
  <2>3. CASE v[1] # t
    BY <2>1, <2>3, <1>1, <1>4 DEF Choose, OneDue, TypeOK, Uploads
  <2> QED
    BY <2>2, <2>3
<1>9. \A x \in DOMAIN files' : /\ phase'[files'[x]] # "none"
                               /\ files'[x] \in Uploads \ {u}
                               /\ files'[x] = files[x]
  BY <1>1, <1>2, <1>4, FilesType
<1>10. OnlyValidStored'
  BY <1>1, <1>4, <1>9 DEF OnlyValidStored
<1>11. ButtonFollowsAnswer'
  <2> SUFFICES ASSUME NEW s \in open, chosen'[s] > 0, inOrder'[s]
               PROVE  LET v == <<s, chosen'[s]>> IN
                      /\ phase'[v] = "gotError" => ~ enabled[s]
                      /\ phase'[v] \in {"gotOk", "gotNotStored"} => enabled[s]
    BY <1>1 DEF ButtonFollowsAnswer
  <2>1. CASE s = t
    BY <2>1, <1>1, <1>5 DEF TypeOK
  <2>2. CASE s # t
    <3>1. s \in Tabs /\ chosen'[s] = chosen[s] /\ inOrder[s]
      BY <2>2, <1>1 DEF Choose, TypeOK
    <3>2. <<s, chosen[s]>> \in Uploads /\ <<s, chosen[s]>> # u
      BY <2>2, <3>1, LastUpload
    <3> QED
      BY <3>1, <3>2, <1>4 DEF ButtonFollowsAnswer
  <2> QED
    BY <2>1, <2>2
<1>12. PostedUnrefused'
  <2>1. ASSUME NEW s \in Tabs \ open
        PROVE  /\ chosen'[s] = chosen[s] /\ inOrder'[s] = inOrder[s]
               /\ <<s, chosen[s]>> # u
    BY DEF Choose, TypeOK
  <2> HIDE DEF u
  <2> QED
    BY <1>1, <1>4, <2>1, LastUpload, PostedKept DEF TypeOK
<1> QED
  BY <1>3, <1>6, <1>7, <1>8, <1>9, <1>10, <1>11, <1>12

\* An upload that only changes its phase, from one that is neither settled nor
\* new, keeps the invariant when the new phase agrees with what is stored.
LEMMA MovePreserves ==
  ASSUME UploadInv, NEW u \in Uploads, NEW to \in Phases \ {"none"},
         phase[u] \notin Settled,
         phase' = [phase EXCEPT ![u] = to],
         UNCHANGED <<page, files>>,
         to \notin {"gotOk", "gotNotStored", "gotError"},
         to \in Passed => valid[u],
         to \in Moved => Stored(u),
         to = "checked" => ~ Stored(u)
  PROVE  UploadInv'
<1> USE DEF UploadInv, page
<1>1. TypeOK'
  BY DEF TypeOK
<1>2. \A v \in Uploads : v # u => phase'[v] = phase[v]
  BY DEF TypeOK
<1>3. phase'[u] = to
  BY DEF TypeOK
<1>4. UploadPhases'
  BY <1>2, <1>3 DEF UploadPhases, Stored, Settled
<1>5. KnownStored'
  BY <1>2, <1>3 DEF KnownStored, Stored
<1>6. OneDue'
  BY <1>2 DEF OneDue
<1>7. \A n \in DOMAIN files' : phase'[files'[n]] # "none"
  BY <1>2, <1>3, FilesType
<1>8. OnlyValidStored' /\ PostedUnrefused'
  <2>1. \A v \in Uploads : phase'[v] = "gotError" => phase[v] = "gotError"
    BY <1>2, <1>3
  <2> QED
    BY <2>1, LastUpload, PostedKept DEF OnlyValidStored
<1>9. ButtonFollowsAnswer'
  <2> SUFFICES ASSUME NEW s \in open, chosen[s] > 0, inOrder[s]
               PROVE  LET v == <<s, chosen[s]>> IN
                      /\ phase'[v] = "gotError" => ~ enabled[s]
                      /\ phase'[v] \in {"gotOk", "gotNotStored"} => enabled[s]
    BY DEF ButtonFollowsAnswer
  <2>1. <<s, chosen[s]>> \in Uploads
    BY LastUpload DEF TypeOK
  <2> QED
    BY <2>1, <1>2, <1>3 DEF ButtonFollowsAnswer
<1> QED
  BY <1>1, <1>4, <1>5, <1>6, <1>7, <1>8, <1>9

\* The steps of the script that store nothing.
LEMMA ScriptPreserves ==
  ASSUME UploadInv, NEW u \in Uploads,
         \/ RejectFile(u) \/ RefuseName(u) \/ AcceptName(u)
         \/ MoveFails(u) \/ Chmod(u) \/ ChmodFails(u) \/ Lose(u)
  PROVE  UploadInv'
<1> USE DEF Move, Settled, Phases
<1> DEFINE Keeps(to) ==
      /\ phase' = [phase EXCEPT ![u] = to] /\ UNCHANGED <<page, files>>
      /\ to \in Passed => valid[u]
      /\ to \in Moved => Stored(u)
      /\ to = "checked" => ~ Stored(u)
      /\ phase[u] \notin Settled
<1>1. UploadPhases
  BY DEF UploadInv
<1>2. \E to \in {"error", "checked", "ok", "okNotStored", "lost"} : Keeps(to)
  <2>1. CASE RejectFile(u) \/ RefuseName(u) \/ ChmodFails(u)
    <3>1. Keeps("error")
      BY <2>1 DEF RejectFile, RefuseName, ChmodFails, Passed, Moved
    <3> QED
      BY <3>1
  <2>2. CASE AcceptName(u)
    <3>1. Keeps("checked")
      BY <2>2 DEF AcceptName, Passed, Moved
    <3> QED
      BY <3>1
  <2>3. CASE MoveFails(u)
    <3>1. Keeps("okNotStored")
      BY <2>3, <1>1 DEF MoveFails, UploadPhases, Passed, Moved
    <3> QED
      BY <3>1
  <2>4. CASE Chmod(u)
    <3>1. Keeps("ok")
      BY <2>4, <1>1 DEF Chmod, UploadPhases, Passed, Moved
    <3> QED
      BY <3>1
  <2>5. CASE Lose(u)
    <3>1. Keeps("lost")
      BY <2>5 DEF Lose, Passed, Moved
    <3> QED
      BY <3>1
  <2> QED
    BY <2>1, <2>2, <2>3, <2>4, <2>5
<1> QED
  BY <1>2, MovePreserves

\* Moving a file puts it in place under its clean name.
LEMMA MoveFilePreserves ==
  ASSUME UploadInv, NEW u \in Uploads, MoveFile(u)
  PROVE  UploadInv'
<1> DEFINE n == Sanitize[name[u]]
<1> USE DEF UploadInv, MoveFile, Move, page
<1>1. /\ phase[u] = "checked" /\ valid[u] /\ name[u] \in RawNames
      /\ n \in CleanNames /\ n \notin known[u]
  BY DEF UploadPhases, KnownStored, Passed, TypeOK
<1>2. /\ DOMAIN files' = DOMAIN files \cup {n}
      /\ files'[n] = u
      /\ \A x \in DOMAIN files' : x # n => x \in DOMAIN files /\ files'[x] = files[x]
  OBVIOUS
<1>3. phase'[u] = "moved" /\ \A v \in Uploads : v # u => phase'[v] = phase[v]
  BY DEF TypeOK
<1>4. TypeOK'
  <2>1. files' \in [DOMAIN files \cup {n} -> Uploads]
    BY FilesType
  <2>2. \E S \in SUBSET CleanNames : files' \in [S -> Uploads]
    BY <2>1, <1>1, FilesType
  <2>3. phase' \in [Uploads -> Phases]
    BY DEF TypeOK, Phases
  <2> QED
    BY <2>2, <2>3 DEF TypeOK
<1>5. UploadPhases'
  BY <1>1, <1>2, <1>3 DEF UploadPhases, Stored, Passed, Moved
<1>6. KnownStored'
  BY <1>2, <1>3 DEF KnownStored
<1>7. OneDue'
  BY <1>1, <1>3 DEF OneDue, Settled
<1>8. \A x \in DOMAIN files' : phase'[files'[x]] # "none"
  BY <1>2, <1>3, FilesType
<1>9. OnlyValidStored'
  <2>1. name[u] # NoFile
    BY <1>1 DEF UploadPhases
  <2> QED
    BY <2>1, <1>1, <1>2 DEF OnlyValidStored
<1>10. ButtonFollowsAnswer'
  <2> SUFFICES ASSUME NEW s \in open, chosen[s] > 0, inOrder[s]
               PROVE  LET v == <<s, chosen[s]>> IN
                      /\ phase'[v] = "gotError" => ~ enabled[s]
                      /\ phase'[v] \in {"gotOk", "gotNotStored"} => enabled[s]
    BY DEF ButtonFollowsAnswer
  <2>1. <<s, chosen[s]>> \in Uploads
    BY LastUpload DEF TypeOK
  <2> QED
    BY <2>1, <1>3 DEF ButtonFollowsAnswer
<1>11. PostedUnrefused'
  <2>1. \A v \in Uploads : phase'[v] = "gotError" => phase[v] = "gotError"
    BY <1>3
  <2> QED
    BY <2>1, LastUpload, PostedKept
<1> QED
  BY <1>4, <1>5, <1>6, <1>7, <1>8, <1>9, <1>10, <1>11

\* An answer sets the button of its page: when the page kept to the order, it is
\* the answer to its last choice.
LEMMA ArrivePreserves ==
  ASSUME UploadInv, NEW u \in Uploads, Arrive(u)
  PROVE  UploadInv'
<1> USE DEF UploadInv, Arrive, Move
<1> DEFINE to == phase'[u]
<1>1. /\ phase[u] \in {"ok", "okNotStored", "error"}
      /\ to \in {"gotOk", "gotNotStored", "gotError"}
      /\ to = "gotError" <=> phase[u] = "error"
      /\ to = "gotOk" <=> phase[u] = "ok"
      /\ \A v \in Uploads : v # u => phase'[v] = phase[v]
      /\ phase' \in [Uploads -> Phases]
  BY DEF TypeOK, Phases
<1>2. u[1] \in Tabs /\ u[2] \in Nat /\ u = <<u[1], u[2]>>
  BY DEF Uploads
<1>3. TypeOK'
  <2>1. (phase[u] # "error") \in BOOLEAN
    OBVIOUS
  <2> QED
    BY <1>1, <1>2, <2>1 DEF TypeOK
<1>4. UploadPhases'
  BY <1>1 DEF UploadPhases, Stored, Passed, Moved
<1>5. KnownStored'
  BY <1>1 DEF KnownStored
<1>6. OneDue'
  BY <1>1 DEF OneDue, Settled
<1>7. \A n \in DOMAIN files' : phase'[files'[n]] # "none"
  BY <1>1, FilesType
<1>8. OnlyValidStored' /\ PostedUnrefused'
  <2>1. \A s \in Tabs \ open : <<s, chosen[s]>> # u
    BY <1>2
  <2>2. \A s \in Tabs \ open : chosen[s] > 0 =>
           phase'[<<s, chosen[s]>>] = phase[<<s, chosen[s]>>]
    BY <1>1, <2>1, LastUpload
  <2> QED
    BY <2>2, PostedKept DEF OnlyValidStored
<1>9. ButtonFollowsAnswer'
  <2> SUFFICES ASSUME NEW s \in open, chosen[s] > 0, inOrder[s]
               PROVE  LET v == <<s, chosen[s]>> IN
                      /\ phase'[v] = "gotError" => ~ enabled'[s]
                      /\ phase'[v] \in {"gotOk", "gotNotStored"} => enabled'[s]
    BY DEF ButtonFollowsAnswer
  <2>1. s \in Tabs /\ <<s, chosen[s]>> \in Uploads
    BY LastUpload DEF TypeOK
  <2>2. CASE u = <<s, chosen[s]>>
    <3>1. enabled'[s] = (phase[u] # "error")
      BY <2>1, <2>2 DEF TypeOK
    <3> QED
      BY <2>2, <3>1, <1>1
  <2>3. CASE u # <<s, chosen[s]>> /\ u[1] = s
    <3>1. u[2] > chosen[s]
      <4>1. ~ (u[2] < chosen[s])
        BY <2>3, <1>1 DEF OneDue, Settled
      <4> QED
        BY <2>1, <2>3, <4>1, <1>2 DEF TypeOK
    <3> QED
      BY <2>3, <3>1, <1>1 DEF UploadPhases
  <2>4. CASE u[1] # s
    <3>1. enabled'[s] = enabled[s]
      BY <2>1, <2>4 DEF TypeOK
    <3> QED
      BY <2>1, <2>4, <3>1, <1>1 DEF ButtonFollowsAnswer
  <2> QED
    BY <2>2, <2>3, <2>4
<1> QED
  BY <1>3, <1>4, <1>5, <1>6, <1>7, <1>8, <1>9

\* A page is left, with or without posting its product.
LEMMA LeavePreserves ==
  ASSUME UploadInv, NEW t \in Tabs, Submit(t) \/ LeavePage(t)
  PROVE  UploadInv'
<1> USE DEF UploadInv
<1>1. /\ UNCHANGED <<phase, chosen, enabled, known, inOrder, name, valid, files>>
      /\ open' = open \ {t} /\ t \in open
  BY DEF Submit, LeavePage
<1> PICK q : q = [tab |-> t, image |-> Chosen(t)]
  OBVIOUS
<1>2. /\ posted' \subseteq posted \cup {q}
      /\ q.tab = t /\ q.image = Chosen(t)
      /\ q \in posted' => q \in posted \/ enabled[t]
  BY DEF Submit, LeavePage
<1>3. TypeOK'
  <2>1. Chosen(t) \in RawNames \cup {NoFile}
    BY LastUpload DEF Chosen, TypeOK
  <2>2. q \in [tab : Tabs, image : RawNames \cup {NoFile}]
    BY <2>1
  <2> QED
    BY <1>1, <1>2, <2>2 DEF TypeOK
<1>4. UploadPhases' /\ KnownStored' /\ OneDue' /\ OnlyValidStored'
  BY <1>1 DEF UploadPhases, KnownStored, OneDue, OnlyValidStored, Stored
<1>5. ButtonFollowsAnswer'
  BY <1>1 DEF ButtonFollowsAnswer
<1>6. PostedUnrefused'
  <2>1. ASSUME NEW p \in posted
        PROVE  /\ p.tab \notin open' /\ p.image = Chosen(p.tab)'
               /\ inOrder[p.tab] /\ chosen[p.tab] > 0
                     => phase[<<p.tab, chosen[p.tab]>>] # "gotError"
    BY <1>1 DEF PostedUnrefused, Chosen, LastOf
  <2>2. inOrder[t] /\ chosen[t] > 0 /\ enabled[t] => phase[<<t, chosen[t]>>] # "gotError"
    BY <1>1 DEF ButtonFollowsAnswer
  <2>3. q.tab \notin open' /\ q.image = Chosen(q.tab)'
    BY <1>1, <1>2 DEF Chosen
  <2> QED
    BY <1>1, <1>2, <2>1, <2>2, <2>3 DEF PostedUnrefused, LastOf
<1> QED
  BY <1>1, <1>3, <1>4, <1>5, <1>6

\* Nothing happens.
LEMMA StutterPreserves ==
  ASSUME UploadInv, UNCHANGED vars
  PROVE  UploadInv'
BY DEF UploadInv, TypeOK, UploadPhases, KnownStored, OneDue, OnlyValidStored,
       ButtonFollowsAnswer, PostedUnrefused, LastOf, Chosen, Stored, vars

\* Every step of the uploads preserves their invariant.
LEMMA NextPreserves ==
  ASSUME UploadInv, [Next]_vars
  PROVE  UploadInv'
<1>1. CASE \E t \in Tabs : Submit(t) \/ LeavePage(t)
  BY <1>1, LeavePreserves
<1>2. CASE \E t \in Tabs, n \in RawNames \cup {NoFile}, ok \in BOOLEAN : Choose(t, n, ok)
  BY <1>2, ChoosePreserves
<1>3. ASSUME NEW u \in Uploads, Arrive(u) \/ Lose(u) \/ UploadFile(u)
      PROVE  UploadInv'
  BY <1>3, ArrivePreserves, ScriptPreserves, MoveFilePreserves DEF UploadFile
<1>4. CASE Quiet \/ UNCHANGED vars
  BY <1>4, StutterPreserves DEF Quiet
<1> QED
  BY <1>1, <1>2, <1>3, <1>4 DEF Next
-----------------------------------------------------------------------------
(* The theorems.                                                           *)

\* The last upload of p's page, when the page cannot be excused, has its file in
\* place under the name that p carries.
PostedIsMoved(p) ==
  LET u == LastOf(p.tab) IN
  u \in Uploads /\ phase[u] \in Moved /\ name[u] = p.image

\* So it is with every product that was posted with an image.
LEMMA PostedMoved ==
  ASSUME UploadInv, NEW p \in posted, p.image # NoFile, inOrder[p.tab],
         phase[LastOf(p.tab)] \notin Unheard
  PROVE  PostedIsMoved(p)
<1> PICK t : t = p.tab
  OBVIOUS
<1>1. t \in Tabs /\ p.image = Chosen(t) /\ chosen[t] \in Nat
  BY DEF UploadInv, TypeOK, PostedUnrefused
<1>2. chosen[t] > 0 /\ p.image = name[<<t, chosen[t]>>]
  BY <1>1 DEF Chosen
<1>3. <<t, chosen[t]>> \in Uploads
  BY <1>1, <1>2, LastUpload DEF UploadInv
<1>4. /\ phase[<<t, chosen[t]>>] \in Phases
      /\ phase[<<t, chosen[t]>>] # "none"
      /\ phase[<<t, chosen[t]>>] # "gotError"
  BY <1>1, <1>2, <1>3 DEF UploadInv, TypeOK, UploadPhases, PostedUnrefused, LastOf
<1> QED
  BY <1>2, <1>3, <1>4 DEF PostedIsMoved, LastOf, Moved, Unheard, Phases

\* The invariant of the uploads holds in every state: what the pages and the
\* scripts of upload_file() keep between them.
THEOREM UploadInvariant == Spec => []UploadInv
BY InitInv, NextPreserves, PTL DEF Spec

\* Type correctness of Upload.
THEOREM TypeCorrect == Spec => []TypeOK
<1>1. UploadInv => TypeOK
  BY DEF UploadInv
<1> QED
  BY <1>1, UploadInvariant, PTL

\* upload_file() stores nothing that fails a check, and nothing under a name
\* that is not its own.
THEOREM StoredAreValid == Spec => []OnlyValidStored
<1>1. UploadInv => OnlyValidStored
  BY DEF UploadInv
<1> QED
  BY <1>1, UploadInvariant, PTL

\* The Submit button of a page that waits for its answers says what the answer
\* to its last choice said.
THEOREM ButtonsFollowAnswers == Spec => []ButtonFollowsAnswer
<1>1. UploadInv => ButtonFollowsAnswer
  BY DEF UploadInv
<1> QED
  BY <1>1, UploadInvariant, PTL

\* However its upload, its page and the other pages' go on, a posted product has
\* its file in place, or its page could not know that it has not: it never showed
\* the error.
THEOREM MissingImagesAreExplained == Spec => []MissingImagesExplained
<1>1. ASSUME UploadInv PROVE MissingImagesExplained
  <2> SUFFICES ASSUME NEW p \in posted, p.image # NoFile, inOrder[p.tab],
                      phase[LastOf(p.tab)] \notin Unheard
               PROVE  Sanitize[p.image] \in DOMAIN files
    BY DEF MissingImagesExplained
  <2>1. PostedIsMoved(p)
    BY <1>1, PostedMoved
  <2> QED
    BY <1>1, <2>1 DEF PostedIsMoved, UploadInv, UploadPhases, Stored
<1> QED
  BY <1>1, UploadInvariant, PTL

\* The step that FilesKept is about.
LEMMA FilesKeptStep ==
  ASSUME UploadInv, [Next]_vars
  PROVE  \A n \in DOMAIN files :
            /\ n \in DOMAIN files'
            /\ files'[n] # files[n] => n \notin known[files'[n]]
<1>1. CASE UNCHANGED files
  BY <1>1
<1>2. ASSUME NEW u \in Uploads, MoveFile(u)
      PROVE  \A n \in DOMAIN files :
                /\ n \in DOMAIN files'
                /\ files'[n] # files[n] => n \notin known[files'[n]]
  BY <1>2 DEF MoveFile, Move, UploadInv, KnownStored
<1>3. UNCHANGED files \/ \E u \in Uploads : MoveFile(u)
  BY DEF Next, vars, Submit, LeavePage, Choose, Arrive, Lose, UploadFile,
         RejectFile, RefuseName, AcceptName, MoveFails, Chmod, ChmodFails, Quiet
<1> QED
  BY <1>1, <1>2, <1>3

\* What an upload that has been sent knew of the stored names stays what it knew.
LEMMA KnownKeptStep ==
  ASSUME UploadInv, [Next]_vars, NEW u \in Uploads, phase[u] # "none"
  PROVE  known'[u] = known[u]
<1>1. CASE UNCHANGED known
  BY <1>1
<1>2. ASSUME NEW t \in Tabs, NEW n \in RawNames \cup {NoFile}, NEW ok \in BOOLEAN,
             Choose(t, n, ok)
      PROVE  known'[u] = known[u]
  <2>1. u = <<u[1], u[2]>> /\ u[2] <= chosen[u[1]]
    BY DEF UploadInv, UploadPhases, Uploads, TypeOK
  <2>2. u # <<t, chosen[t] + 1>>
    BY <2>1 DEF UploadInv, TypeOK
  <2> QED
    BY <1>2, <2>2 DEF Choose, UploadInv, TypeOK
<1>3. \/ UNCHANGED known
      \/ \E t \in Tabs, n \in RawNames \cup {NoFile}, ok \in BOOLEAN : Choose(t, n, ok)
  BY DEF Next, vars, Submit, LeavePage, Arrive, Lose, UploadFile, MoveFile, page,
         RejectFile, RefuseName, AcceptName, MoveFails, Chmod, ChmodFails, Quiet
<1> QED
  BY <1>1, <1>2, <1>3

\* file_exists() protects every stored file from the uploads sent after it, and
\* nothing removes one.
THEOREM FilesKept == Spec => KeptFromLaterUploads
<1>1. ASSUME UploadInv, [Next]_vars
      PROVE  [\A n \in DOMAIN files :
                /\ n \in DOMAIN files'
                /\ files'[n] # files[n] => n \notin known[files'[n]]]_vars
  BY <1>1, FilesKeptStep
<1> QED
  BY <1>1, UploadInvariant, PTL DEF Spec, KeptFromLaterUploads
-----------------------------------------------------------------------------
(* The edit pages.                                                         *)

USE ListingAssumption

\* Every step of a page with a form is a step of the uploads or leaves them alone.
LEMMA UploadsStep ==
  ASSUME [ListingNext]_listingVars
  PROVE  [Next]_vars
BY DEF ListingNext, listingVars, OpenForm, Type, ChooseFile, SubmitForm, LeaveForm,
       UploadStep, ApplyForm, UpdateFails, Done, Next

\* The edit pages implement Upload: whatever the products table goes through, the
\* uploads behave as Upload says.
THEOREM UploadsImplemented == ListingSpec => Spec
<1>1. ListingInit => Init
  BY DEF ListingInit
<1> QED
  BY <1>1, UploadsStep, PTL DEF ListingSpec, Spec
-----------------------------------------------------------------------------
\* A stored name stays stored, with the file that an upload brought or one that
\* overlapped with it.
LEMMA FromOrBeforeKept ==
  ASSUME UploadInv, [Next]_vars, NEW n, NEW u, FromOrBefore(n, u)
  PROVE  FromOrBefore(n, u)'
<1>1. n \in DOMAIN files' /\ (files'[n] # files[n] => n \notin known[files'[n]])
  BY FilesKeptStep DEF FromOrBefore
<1>2. CASE files'[n] = files[n]
  <2>1. files[n] \in Uploads /\ phase[files[n]] # "none"
    BY FilesType DEF UploadInv, FromOrBefore
  <2> QED
    BY <1>1, <1>2, <2>1, KnownKeptStep DEF FromOrBefore
<1>3. CASE files'[n] # files[n]
  <2>1. files'[n] \in Uploads /\ phase'[files'[n]] # "none"
    <3>1. UploadInv'
      BY NextPreserves
    <3> QED
      BY <1>1, <3>1 DEF UploadInv, TypeOK
  <2>2. PICK v \in Uploads : MoveFile(v)
    BY <1>3 DEF Next, vars, Submit, LeavePage, Choose, Arrive, Lose, UploadFile,
                RejectFile, RefuseName, AcceptName, MoveFails, Chmod, ChmodFails,
                Quiet
  <2>3. known' = known
    BY <2>2 DEF MoveFile, page
  <2> QED
    BY <1>1, <1>3, <2>3 DEF FromOrBefore
<1> QED
  BY <1>2, <1>3

\* A file's name is chosen once.
LEMMA NameKeptStep ==
  ASSUME UploadInv, [Next]_vars, NEW u \in Uploads, phase[u] # "none"
  PROVE  name'[u] = name[u]
<1>1. CASE UNCHANGED name
  BY <1>1
<1>2. ASSUME NEW t \in Tabs, NEW n \in RawNames \cup {NoFile}, NEW ok \in BOOLEAN,
             Choose(t, n, ok)
      PROVE  name'[u] = name[u]
  <2>1. u = <<u[1], u[2]>> /\ u[2] <= chosen[u[1]]
    BY DEF UploadInv, UploadPhases, Uploads, TypeOK
  <2>2. u # <<t, chosen[t] + 1>>
    BY <2>1 DEF UploadInv, TypeOK
  <2> QED
    BY <1>2, <2>2 DEF Choose, UploadInv, TypeOK
<1>3. \/ UNCHANGED name
      \/ \E t \in Tabs, n \in RawNames \cup {NoFile}, ok \in BOOLEAN : Choose(t, n, ok)
  BY DEF Next, vars, Submit, LeavePage, Arrive, Lose, UploadFile, MoveFile, page,
         RejectFile, RefuseName, AcceptName, MoveFails, Chmod, ChmodFails, Quiet
<1> QED
  BY <1>1, <1>2, <1>3

\* Only moving a file gets an upload among those whose file is in place.
LEMMA MovedStep ==
  ASSUME UploadInv, [Next]_vars, NEW u \in Uploads,
         phase[u] \notin Moved, phase'[u] \in Moved
  PROVE  MoveFile(u)
<1> USE DEF UploadInv, TypeOK, Move, Moved
<1>1. ASSUME NEW t \in Tabs, NEW n \in RawNames \cup {NoFile}, NEW ok \in BOOLEAN,
             Choose(t, n, ok)
      PROVE  FALSE
  BY <1>1 DEF Choose
<1>2. ASSUME NEW v \in Uploads, Arrive(v) \/ Lose(v)
      PROVE  FALSE
  <2>1. v = u
    BY <1>2 DEF Arrive, Lose
  <2> QED
    BY <1>2, <2>1 DEF Arrive, Lose
<1>3. ASSUME NEW v \in Uploads, UploadFile(v)
      PROVE  MoveFile(u)
  <2>1. v = u
    BY <1>3 DEF UploadFile, RejectFile, RefuseName, AcceptName, MoveFile, MoveFails,
                Chmod, ChmodFails
  <2> QED
    BY <1>3, <2>1 DEF UploadFile, RejectFile, RefuseName, AcceptName, MoveFails,
                      Chmod, ChmodFails
<1>4. CASE UNCHANGED phase
  BY <1>4
<1>5. \/ UNCHANGED phase
      \/ \E t \in Tabs, n \in RawNames \cup {NoFile}, ok \in BOOLEAN : Choose(t, n, ok)
      \/ \E v \in Uploads : Arrive(v) \/ Lose(v) \/ UploadFile(v)
  BY DEF Next, vars, Submit, LeavePage, Quiet
<1> QED
  BY <1>1, <1>2, <1>3, <1>4, <1>5

\* The files in place stay what MovedInPlace says.
LEMMA MovedInPlaceStep ==
  ASSUME UploadInv, MovedInPlace, [Next]_vars
  PROVE  MovedInPlace'
<1> SUFFICES ASSUME NEW u \in Uploads, phase'[u] \in Moved
             PROVE  FromOrBefore(Sanitize[name[u]], u)'
  BY DEF MovedInPlace, Moved
<1>1. CASE phase[u] \in Moved
  <2> PICK n : n = Sanitize[name[u]]
    OBVIOUS
  <2>1. FromOrBefore(n, u)'
    BY <1>1, FromOrBeforeKept DEF MovedInPlace
  <2>2. name'[u] = name[u]
    BY <1>1, NameKeptStep DEF Moved
  <2> QED
    BY <2>1, <2>2 DEF FromOrBefore
<1>2. CASE phase[u] \notin Moved
  <2>1. MoveFile(u)
    BY <1>2, MovedStep
  <2> QED
    BY <2>1 DEF MoveFile, page, FromOrBefore
<1> QED
  BY <1>1, <1>2

-----------------------------------------------------------------------------
(* The invariant.                                                          *)

\* No form has been submitted at first.
LEMMA ListingInitInv == ListingInit => ListingInv
<1> SUFFICES ASSUME ListingInit PROVE ListingInv
  OBVIOUS
<1> USE DEF ListingInit
<1>1. UploadInv
  BY InitInv
<1>2. ListingTypes
  <2>1. fields \in [{} -> Fields] /\ last \in [{} -> Forms]
    OBVIOUS
  <2>2. row \in [Products -> Rows]
    BY DEF Rows, Images
  <2> QED
    BY <2>1, <2>2 DEF ListingTypes
<1>3. FieldsAsPrinted /\ MovedInPlace /\ FormsPosted /\ ImageFromForm
  BY DEF FieldsAsPrinted, MovedInPlace, FormsPosted, ImageFromForm, Init, Moved, Uploads
<1> QED
  BY <1>1, <1>2, <1>3 DEF ListingInv

\* A form is posted when it is submitted, and stays so.
LEMMA FormsPostedStep ==
  ASSUME ListingInv, [ListingNext]_listingVars
  PROVE  FormsPosted'
<1> DEFINE Posted(f) == [tab |-> f.tab, image |-> f.image] \in posted
<1>1. posted \subseteq posted'
  BY DEF ListingNext, listingVars, vars, OpenForm, Type, ChooseFile, SubmitForm,
         LeaveForm, UploadStep, ApplyForm, UpdateFails, Done, Choose, Submit,
         LeavePage, Arrive, Lose, UploadFile, RejectFile, RefuseName, AcceptName,
         MoveFile, MoveFails, Chmod, ChmodFails, Quiet, page
<1>2. /\ \A f \in underway : Posted(f)'
      /\ \A p \in DOMAIN last : [tab |-> last[p].tab, image |-> last[p].image] \in posted'
  BY <1>1 DEF ListingInv, FormsPosted
<1>3. ASSUME NEW t \in Tabs, SubmitForm(t), NEW f \in underway' \ underway
      PROVE  Posted(f)'
  BY <1>3 DEF SubmitForm, Submit
<1>4. ASSUME NEW f \in underway, ApplyForm(f)
      PROVE  /\ underway' \subseteq underway
             /\ \A p \in DOMAIN last' :
                   \/ last'[p] = f
                   \/ p \in DOMAIN last /\ last'[p] = last[p]
  <2> PICK c : c = f.fields.product
    OBVIOUS
  <2>1. underway' \subseteq underway /\ last' = With(last, c, f)
    BY <1>4 DEF ApplyForm
  <2> QED
    BY <2>1 DEF With
<1>5. \/ UNCHANGED last /\ underway' \subseteq underway
      \/ UNCHANGED last /\ \E t \in Tabs : SubmitForm(t)
      \/ \E f \in underway : ApplyForm(f)
  BY DEF ListingNext, listingVars, OpenForm, Type, ChooseFile, SubmitForm, LeaveForm,
         UploadStep, UpdateFails, Done, listing
<1>6. \A f \in underway' : Posted(f)'
  BY <1>2, <1>3, <1>4, <1>5
<1>7. ASSUME NEW p \in DOMAIN last'
      PROVE  [tab |-> last'[p].tab, image |-> last'[p].image] \in posted'
  BY <1>2, <1>4, <1>5
<1> QED
  BY <1>6, <1>7 DEF FormsPosted

\* Printing, typing and submitting keep what FieldsAsPrinted says of the forms.
LEMMA FieldsAsPrintedStep ==
  ASSUME ListingInv, [ListingNext]_listingVars
  PROVE  FieldsAsPrinted'
<1> USE DEF ListingInv, FieldsAsPrinted
<1>1. ASSUME NEW t \in Tabs, NEW p \in Products, OpenForm(t, p)
      PROVE  FieldsAsPrinted'
  BY <1>1 DEF OpenForm, With
<1>2. ASSUME NEW t \in Tabs, NEW x \in Texts, Type(t, x)
      PROVE  FieldsAsPrinted'
  <2>1. /\ DOMAIN fields' = DOMAIN fields /\ fields'[t].read = Typed
        /\ \A s \in DOMAIN fields : s # t => fields'[s] = fields[s]
    BY <1>2 DEF Type, ListingTypes, Fields
  <2> QED
    BY <1>2, <2>1 DEF Type
<1>3. ASSUME NEW t \in Tabs, SubmitForm(t)
      PROVE  FieldsAsPrinted'
  <2>1. /\ UNCHANGED fields /\ t \in DOMAIN fields
        /\ \A f \in underway' : f \in underway \/ f.fields = fields[t]
    BY <1>3 DEF SubmitForm
  <2> QED
    BY <2>1
<1>4. CASE UNCHANGED fields /\ underway' \subseteq underway
  BY <1>4
<1> QED
  BY <1>1, <1>2, <1>3, <1>4
     DEF ListingNext, listingVars, ChooseFile, LeaveForm, UploadStep, ApplyForm,
         UpdateFails, Done, listing

\* Opening a form and typing keep the types of the forms.
LEMMA FieldsType ==
  ASSUME ListingInv, NEW t \in Tabs,
         (\E p \in Products : OpenForm(t, p)) \/ (\E x \in Texts : Type(t, x))
  PROVE  \E S \in SUBSET Tabs : fields' \in [S -> Fields]
<1> USE DEF ListingInv
<1>1. ASSUME NEW p \in Products, OpenForm(t, p)
      PROVE  fields' \in [DOMAIN fields \cup {t} -> Fields]
  BY <1>1 DEF OpenForm, With, ListingTypes, Fields, Rows
<1>2. ASSUME NEW x \in Texts, Type(t, x)
      PROVE  fields' \in [DOMAIN fields -> Fields]
  <2>1. fields \in [DOMAIN fields -> Fields]
    BY DEF ListingTypes
  <2>2. fields' = [fields EXCEPT ![t] = [@ EXCEPT !.text = x, !.read = Typed]]
    BY <1>2 DEF Type
  <2>3. [fields[t] EXCEPT !.text = x, !.read = Typed] \in Fields
    <3> PICK g \in Fields : g = fields[t]
      BY <1>2, <2>1 DEF Type
    <3>1. [g EXCEPT !.text = x] \in Fields
      BY DEF Fields
    <3> PICK h \in Fields : h = [g EXCEPT !.text = x]
      BY <3>1
    <3>2. [h EXCEPT !.read = Typed] \in Fields
      BY DEF Fields
    <3> QED
      BY <3>2
  <2> QED
    BY <2>1, <2>2, <2>3
<1>3. DOMAIN fields \in SUBSET Tabs /\ DOMAIN fields \cup {t} \in SUBSET Tabs
  BY DEF ListingTypes
<1> QED
  BY <1>1, <1>2, <1>3

\* Every step of the edit pages preserves the invariant.
LEMMA ListingStep ==
  ASSUME ListingInv, [ListingNext]_listingVars
  PROVE  ListingInv'
<1> USE DEF ListingInv
<1>1. UploadInv' /\ FieldsAsPrinted' /\ MovedInPlace' /\ FormsPosted' /\ open' \subseteq open
  <2>1. open' \subseteq open
    BY UploadsStep DEF Next, vars, Submit, LeavePage, Choose, Arrive, Lose, UploadFile,
         RejectFile, RefuseName, AcceptName, MoveFile, MoveFails, Chmod, ChmodFails,
         Quiet, page
  <2> QED
    BY <2>1, UploadsStep, NextPreserves, FieldsAsPrintedStep, MovedInPlaceStep,
       FormsPostedStep
<1>2. /\ \A f \in underway : f \in Forms /\ f.tab \notin open'
      /\ \A p \in DOMAIN last : p \in Products /\ last[p] \in Forms
  BY <1>1 DEF ListingTypes
<1>3. CASE UNCHANGED <<row, last>> /\ underway' \subseteq underway /\
           (UNCHANGED fields \/ \E t \in Tabs :
              \/ \E p \in Products : OpenForm(t, p)
              \/ \E x \in Texts : Type(t, x))
  <2>1. \E S \in SUBSET Tabs : fields' \in [S -> Fields]
    BY <1>3, FieldsType DEF ListingTypes
  <2>2. ListingTypes'
    BY <1>2, <1>3, <2>1 DEF ListingTypes
  <2>3. ImageFromForm'
    BY <1>3 DEF ImageFromForm, Quotable
  <2> QED
    BY <1>1, <2>2, <2>3
<1>4. ASSUME NEW t \in Tabs, SubmitForm(t)
      PROVE  ListingInv'
  <2> PICK f : f = [tab |-> t, fields |-> fields[t], image |-> Chosen(t)]
    OBVIOUS
  <2>1. /\ underway' = underway \cup {f} /\ t \notin open'
        /\ UNCHANGED <<row, fields, last>> /\ t \in DOMAIN fields
    BY <1>4 DEF SubmitForm, Submit
  <2>2. f \in Forms /\ f.tab = t
    <3>1. Chosen(t) \in Images
      BY LastUpload DEF Chosen, Images, UploadInv, TypeOK
    <3>2. fields[t] \in Fields
      BY <2>1 DEF ListingTypes
    <3> QED
      BY <3>1, <3>2 DEF Forms
  <2>3. ListingTypes'
    BY <1>2, <2>1, <2>2 DEF ListingTypes
  <2>4. ImageFromForm'
    BY <2>1 DEF ImageFromForm, Quotable
  <2> QED
    BY <1>1, <2>3, <2>4
<1>5. ASSUME NEW f \in underway, ApplyForm(f)
      PROVE  ListingInv'
  <2> DEFINE p == f.fields.product
  <2>1. /\ p \in Products /\ f \in Forms
        /\ Literal[f.fields.text] \in Texts /\ Literal[f.image] \in Images
    BY <1>2, <1>5 DEF Forms, Fields, ApplyForm, Quotable, Images
  <2>2. /\ row' \in [Products -> Rows]
        /\ row'[p].image = Literal[f.image]
        /\ \A q \in Products : q # p => row'[q] = row[q]
    BY <1>5, <2>1 DEF ApplyForm, ListingTypes, Rows
  <2>3. /\ last' \in [DOMAIN last \cup {p} -> Forms]
        /\ last'[p] = f
        /\ \A q \in DOMAIN last : q # p => last'[q] = last[q]
    BY <1>2, <1>5, <2>1 DEF ApplyForm, With
  <2>4. UNCHANGED fields /\ underway' \subseteq underway /\ Quotable(f)
    BY <1>5 DEF ApplyForm
  <2>5. ListingTypes'
    <3>1. DOMAIN last \cup {p} \in SUBSET Products
      BY <1>2, <2>1
    <3>2. \E S \in SUBSET Products : last' \in [S -> Forms]
      BY <2>3, <3>1
    <3> QED
      BY <1>2, <2>2, <2>4, <3>2 DEF ListingTypes
  <2>6. ASSUME NEW q \in DOMAIN last'
        PROVE  Quotable(last'[q]) /\ row'[q].image = Literal[last'[q].image]
    <3>1. CASE q = p
      BY <3>1, <2>2, <2>3, <2>4
    <3>2. CASE q # p
      BY <3>2, <1>2, <2>2, <2>3, <2>6 DEF ImageFromForm
    <3> QED
      BY <3>1, <3>2
  <2>7. ImageFromForm'
    BY <2>6 DEF ImageFromForm, Quotable
  <2> QED
    BY <1>1, <2>5, <2>7
<1> QED
  BY <1>3, <1>4, <1>5
     DEF ListingNext, listingVars, OpenForm, Type, ChooseFile, LeaveForm, UploadStep,
         UpdateFails, Done, listing

\* The invariant of the edit pages holds in every state.
THEOREM ListingInvariant == ListingSpec => []ListingInv
BY ListingInitInv, ListingStep, PTL DEF ListingSpec

\* A form of a page has its file, or its page could not know that it has not.
LEMMA PostedIsBacked ==
  ASSUME UploadInv, MovedInPlace, NEW f \in Forms,
         [tab |-> f.tab, image |-> f.image] \in posted
  PROVE  Backed(f)
<1> PICK p : p = [tab |-> f.tab, image |-> f.image]
  OBVIOUS
<1> SUFFICES ASSUME p.image # NoFile, inOrder[p.tab],
                    phase[LastOf(p.tab)] \notin Unheard
             PROVE  FromOrBefore(Sanitize[p.image], LastOf(p.tab))
  BY DEF Backed
<1>1. PostedIsMoved(p)
  BY PostedMoved
<1> QED
  BY <1>1 DEF PostedIsMoved, MovedInPlace

\* A product that a form has changed shows the image the form named, as the
\* database read it, and a form has its file, or its page could not know that it has
\* not: however late the form comes and whatever is uploaded meanwhile, nothing but
\* an overlapping upload can have replaced it.
THEOREM ListedImagesAreOwn == ListingSpec => []ListedImageIsOwn
<1>1. ASSUME ListingInv PROVE ListedImageIsOwn
  <2> SUFFICES ASSUME NEW p \in DOMAIN last
               PROVE  row[p].image = Literal[last[p].image] /\ Backed(last[p])
    BY DEF ListedImageIsOwn
  <2>1. last[p] \in Forms
    BY <1>1 DEF ListingInv, ListingTypes
  <2>2. Backed(last[p])
    BY <1>1, <2>1, PostedIsBacked DEF ListingInv, FormsPosted
  <2> QED
    BY <1>1, <2>2 DEF ListingInv, ImageFromForm
<1> QED
  BY <1>1, ListingInvariant, PTL

\* A form that nobody typed in, applied before any other form of its product, changes
\* the text of the product by what printing it and quoting it do, and nothing else.
THEOREM UntouchedTextsRoundTrip == ListingSpec => UntouchedTextRoundTrips
<1> DEFINE Kept(p) ==
      LET fresh == last'[p].fields IN
      /\ p \in DOMAIN last => last[p] # last'[p]
      /\ fresh.read = row[p].text
      => row'[p].text = Literal[Printed[row[p].text]]
<1>1. ASSUME ListingInv, [ListingNext]_listingVars
      PROVE  \A p \in DOMAIN last' : Kept(p)
  <2>1. CASE UNCHANGED last
    BY <2>1
  <2>2. ASSUME NEW f \in underway, ApplyForm(f), NEW p \in DOMAIN last'
        PROVE  Kept(p)
    <3> USE <1>1 DEF ListingInv
    <3>1. /\ f \in Forms /\ f.fields.product \in Products
          /\ f.fields.read # Typed => f.fields.text = Printed[f.fields.read]
      BY DEF ListingTypes, Forms, Fields, FieldsAsPrinted
    <3>2. CASE p = f.fields.product
      <4>1. last'[p] = f /\ row'[p].text = Literal[f.fields.text]
        BY <2>2, <3>1, <3>2 DEF ApplyForm, With, ListingTypes
      <4>2. row[p].text # Typed
        BY <3>1, <3>2 DEF ListingTypes, Rows
      <4> QED
        BY <3>1, <4>1, <4>2
    <3>3. CASE p # f.fields.product
      BY <2>2, <3>3 DEF ApplyForm, With
    <3> QED
      BY <3>2, <3>3
  <2>3. UNCHANGED last \/ \E f \in underway : ApplyForm(f)
    BY <1>1 DEF ListingNext, listingVars, OpenForm, Type, ChooseFile, SubmitForm,
                LeaveForm, UploadStep, UpdateFails, Done, listing
  <2> QED
    BY <2>1, <2>2, <2>3
<1>2. ASSUME ListingInv, [ListingNext]_listingVars
      PROVE  [\A p \in DOMAIN last' : Kept(p)]_listingVars
  BY <1>1, <1>2
<1> QED
  BY <1>2, ListingInvariant, PTL DEF ListingSpec, UntouchedTextRoundTrips

\* A product's image changes only to what a form of its own page names, and goes
\* only when that page had no file chosen.
THEOREM ImagesFollowChoice == ListingSpec => ImageFollowsChoice
<1> DEFINE Follows(p) ==
      row'[p].image # row[p].image =>
         \E f \in underway :
            /\ f.fields.product = p
            /\ row'[p].image = NoFile =>
                  \/ chosen[f.tab] = 0
                  \/ name[<<f.tab, chosen[f.tab]>>] = NoFile
<1>1. ASSUME ListingInv, [ListingNext]_listingVars, NEW p \in Products
      PROVE  Follows(p)
  <2>1. CASE UNCHANGED row
    BY <2>1
  <2>2. ASSUME NEW f \in underway, ApplyForm(f), row'[p].image # row[p].image
        PROVE  /\ f.fields.product = p
               /\ row'[p].image = NoFile =>
                     \/ chosen[f.tab] = 0
                     \/ name[<<f.tab, chosen[f.tab]>>] = NoFile
    <3>1. row \in [Products -> Rows] /\ f \in Forms
      BY <1>1 DEF ListingInv, ListingTypes
    <3>2. /\ f.fields.product = p /\ row'[p].image = Literal[f.image]
          /\ f.image \in DOMAIN Literal /\ f.image \in RawNames \cup {NoFile}
      BY <2>2, <3>1 DEF ApplyForm, Quotable, Forms, Images
    <3>3. f.image = Chosen(f.tab)
      BY <1>1 DEF ListingInv, FormsPosted, UploadInv, PostedUnrefused, Chosen
    <3> QED
      BY <3>2, <3>3 DEF Chosen
  <2>3. UNCHANGED row \/ \E f \in underway : ApplyForm(f)
    BY <1>1 DEF ListingNext, listingVars, OpenForm, Type, ChooseFile, SubmitForm,
                LeaveForm, UploadStep, UpdateFails, Done, listing
  <2> QED
    BY <2>1, <2>2, <2>3
<1>2. ASSUME ListingInv, [ListingNext]_listingVars
      PROVE  [\A p \in Products : Follows(p)]_listingVars
  BY <1>1, <1>2
<1> QED
  BY <1>2, ListingInvariant, PTL DEF ListingSpec, ImageFollowsChoice
=============================================================================
