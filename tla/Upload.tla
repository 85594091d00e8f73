------------------------------- MODULE Upload -------------------------------
(***************************************************************************)
(* The image upload of the Add Product and Edit Product pages.  Choosing a *)
(* file makes the page send it at once to FileUploadFunction.php, which    *)
(* checks it, looks whether its name is taken, moves it to its place and   *)
(* answers; the answer enables or disables the page's Submit button.       *)
(* Nothing makes an upload wait for another: the calls of one page and of  *)
(* several pages overlap in the script and their answers arrive in any     *)
(* order.                                                                  *)
(*                                                                         *)
(* The contents of a file are the upload it came with, and "valid" stands  *)
(* for the checks on error code, size, type, extension and contents.       *)
(***************************************************************************)
EXTENDS Integers, FiniteSets

CONSTANTS
    Tabs,           \* open pages with the form
    RawNames,       \* names that clients' files have
    CleanNames,     \* names that sanitize_file_name() returns
    Sanitize,       \* what it returns for each raw name
    MaxChoices,     \* bound: how often a page's file is chosen
    MaxUploads      \* bound: how often files are chosen on all pages

ASSUME UploadAssumption == /\ MaxChoices \in Nat
                           /\ MaxUploads \in Nat
                           /\ Sanitize \in [RawNames -> CleanNames]

Uploads == Tabs \X (1 .. MaxChoices)

\* How far an upload is.  An answer is "ok" unless its text has "Error: ".
Phases == {"none", "sent", "checked", "moved",      \* the script
           "ok", "okNotStored", "error",            \* the answer, on its way
           "gotOk", "gotNotStored", "gotError",     \* ... and arrived
           "lost"}                                  \* ... or not

Settled == {"none", "gotOk", "gotNotStored", "gotError", "lost"}

NoFile == "no file"

VARIABLES
    phase,      \* of each upload
    name,       \* its file name
    valid,      \* whether the file passes the checks on its contents
    chosen,     \* how often each page's file has been chosen
    enabled,    \* is the page's Submit button enabled?
    posted,     \* products submitted: their page and the image name they were given
    open,       \* pages not left yet
    files,      \* picturesuploaded: the upload each stored name came with
    \* History, read by no action:
    known,      \* the names stored when each upload was sent
    inOrder     \* has a page only chosen a file when no answer was due?

vars == <<phase, name, valid, chosen, enabled, posted, open, files, known, inOrder>>
page == <<chosen, enabled, posted, open, known, inOrder, name, valid>>

TypeOK ==
    /\ phase \in [Uploads -> Phases]
    /\ name \in [Uploads -> RawNames \cup {NoFile}]
    /\ valid \in [Uploads -> BOOLEAN]
    /\ chosen \in [Tabs -> 0 .. MaxChoices]
    /\ enabled \in [Tabs -> BOOLEAN]
    /\ posted \subseteq [tab : Tabs, image : RawNames \cup {NoFile}]
    /\ open \subseteq Tabs
    /\ \E S \in SUBSET CleanNames : files \in [S -> Uploads]
    /\ known \in [Uploads -> SUBSET CleanNames]
    /\ inOrder \in [Tabs -> BOOLEAN]

Init ==
    /\ phase = [u \in Uploads |-> "none"]
    /\ name = [u \in Uploads |-> NoFile]
    /\ valid = [u \in Uploads |-> FALSE]
    /\ chosen = [t \in Tabs |-> 0]
    /\ enabled = [t \in Tabs |-> TRUE]
    /\ posted = {}
    /\ open = Tabs
    /\ files = [n \in {} |-> <<>>]
    /\ known = [u \in Uploads |-> {}]
    /\ inOrder = [t \in Tabs |-> TRUE]
-----------------------------------------------------------------------------
(* The page.                                                               *)

\* onchange="processFileUpload()": the page sends the form with the file just
\* chosen and goes on.
Choose(t, n, ok) ==
    LET u == <<t, chosen[t] + 1>> IN
    /\ t \in open
    /\ chosen[t] < MaxChoices
    /\ Cardinality({v \in Uploads : phase[v] # "none"}) < MaxUploads
    /\ ok => n # NoFile
    /\ chosen' = [chosen EXCEPT ![t] = @ + 1]
    /\ phase' = [phase EXCEPT ![u] = "sent"]
    /\ name' = [name EXCEPT ![u] = n]
    /\ valid' = [valid EXCEPT ![u] = ok]
    /\ known' = [known EXCEPT ![u] = DOMAIN files]
    /\ inOrder' = [inOrder EXCEPT ![t] =
                      @ /\ \A i \in 1 .. chosen[t] : phase[<<t, i>>] \in Settled]
    /\ UNCHANGED <<enabled, posted, open, files>>

Move(u, from, to) == phase[u] = from /\ phase' = [phase EXCEPT ![u] = to]

\* Mutant of Arrive: an error leaves the button as it is.
ArriveOnlyEnables(u) ==
    /\ u[1] \in open
    /\ \/ Move(u, "ok", "gotOk")
       \/ Move(u, "okNotStored", "gotNotStored")
       \/ Move(u, "error", "gotError")
    /\ enabled' = [enabled EXCEPT ![u[1]] = @ \/ phase[u] # "error"]
    /\ UNCHANGED <<chosen, posted, open, known, inOrder, name, valid, files>>

\* success: the answer of any upload of the page sets the button.
Arrive(u) ==
    /\ u[1] \in open
    /\ \/ Move(u, "ok", "gotOk")
       \/ Move(u, "okNotStored", "gotNotStored")
       \/ Move(u, "error", "gotError")
    /\ enabled' = [enabled EXCEPT ![u[1]] = phase[u] # "error"]
    /\ UNCHANGED <<chosen, posted, open, known, inOrder, name, valid, files>>

\* The call fails or its page has gone: there is no error handler.
Lose(u) ==
    /\ phase[u] \in {"ok", "okNotStored", "error"}
    /\ phase' = [phase EXCEPT ![u] = "lost"]
    /\ UNCHANGED <<page, files>>

\* The file the page's form holds now.
Chosen(t) == IF chosen[t] = 0 THEN NoFile ELSE name[<<t, chosen[t]>>]

\* The Submit button: the form, which is not multipart, posts the raw name.
Submit(t) ==
    /\ t \in open
    /\ enabled[t]
    /\ posted' = posted \cup {[tab |-> t, image |-> Chosen(t)]}
    /\ open' = open \ {t}
    /\ UNCHANGED <<phase, chosen, enabled, known, inOrder, name, valid, files>>
-----------------------------------------------------------------------------
(* upload_file().                                                          *)

Stored(u) == Sanitize[name[u]] \in DOMAIN files

\* One of the checks on the file itself fails; no file fails the first.
RejectFile(u) ==
    /\ ~ valid[u]
    /\ Move(u, "sent", "error")
    /\ UNCHANGED <<page, files>>

\* file_exists(): the name is taken.
RefuseName(u) ==
    /\ valid[u] /\ Stored(u)
    /\ Move(u, "sent", "error")
    /\ UNCHANGED <<page, files>>

\* Mutant of AcceptName: file_exists() is not asked.
AcceptAnyName(u) ==
    /\ valid[u]
    /\ Move(u, "sent", "checked")
    /\ UNCHANGED <<page, files>>

\* It is free.
AcceptName(u) ==
    /\ valid[u] /\ ~ Stored(u)
    /\ Move(u, "sent", "checked")
    /\ UNCHANGED <<page, files>>

\* Mutant of MoveFile: the file stays where PHP put it.
MoveFileForgotten(u) == Move(u, "checked", "moved") /\ UNCHANGED <<page, files>>

\* move_uploaded_file(), which replaces a file that has come meanwhile.
MoveFile(u) ==
    /\ Move(u, "checked", "moved")
    /\ files' = [n \in DOMAIN files \cup {Sanitize[name[u]]} |->
                    IF n = Sanitize[name[u]] THEN u ELSE files[n]]
    /\ UNCHANGED page

\* It fails: the branch has no else, so the answer is a success all the same.
MoveFails(u) == Move(u, "checked", "okNotStored") /\ UNCHANGED <<page, files>>

\* chmod() ends the script well, or with an error after the file is in place.
Chmod(u)      == Move(u, "moved", "ok") /\ UNCHANGED <<page, files>>
ChmodFails(u) == Move(u, "moved", "error") /\ UNCHANGED <<page, files>>

UploadFile(u) == \/ RejectFile(u)
                 \/ RefuseName(u)
                 \/ AcceptName(u)
                 \/ MoveFile(u)
                 \/ MoveFails(u)
                 \/ Chmod(u)
                 \/ ChmodFails(u)

\* Every page has been left and every upload settled.
Quiet == /\ open = {}
         /\ \A u \in Uploads : phase[u] \in Settled
         /\ UNCHANGED vars

\* A client leaves a page without submitting.
LeavePage(t) ==
    /\ t \in open
    /\ open' = open \ {t}
    /\ UNCHANGED <<phase, chosen, enabled, posted, known, inOrder, name, valid, files>>

Next == \/ \E t \in Tabs : \/ Submit(t)
                           \/ LeavePage(t)
                           \/ \E n \in RawNames \cup {NoFile}, ok \in BOOLEAN :
                                 Choose(t, n, ok)
        \/ \E u \in Uploads : Arrive(u) \/ Lose(u) \/ UploadFile(u)
        \/ Quiet

Spec == Init /\ [][Next]_vars
-----------------------------------------------------------------------------
(* Correctness.                                                            *)

\* A stored file never goes away, and an upload that was sent when it was
\* already there never replaces it: the check of file_exists() protects every
\* file from later uploads, though not from overlapping ones.
KeptFromLaterUploads ==
    [][\A n \in DOMAIN files :
          /\ n \in DOMAIN files'
          /\ files'[n] # files[n] => n \notin known[files'[n]]]_vars

\* What is stored passed every check and is stored under its own name.
OnlyValidStored ==
    \A n \in DOMAIN files :
        LET u == files[n] IN
        valid[u] /\ name[u] # NoFile /\ Sanitize[name[u]] = n

\* When the page never chose a file while an answer was due, and the answer to
\* the last choice has arrived, the button says what that answer said.
ButtonFollowsAnswer ==
    \A t \in open :
        chosen[t] > 0 /\ inOrder[t] =>
            LET u == <<t, chosen[t]>> IN
            /\ phase[u] = "gotError" => ~ enabled[t]
            /\ phase[u] \in {"gotOk", "gotNotStored"} => enabled[t]

\* What a page cannot know of its upload: that the script has not stored the file
\* yet, or never will because the move failed, or that it refused the file and the
\* page was left, or lost the answer, before it heard so.
Unheard == {"sent", "checked", "okNotStored", "gotNotStored", "error", "lost"}

\* The upload a page's form names.
LastOf(t) == <<t, chosen[t]>>

\* A product posted with an image has its file, under the name that
\* sanitize_file_name() makes of the product's: for good if its upload has stored
\* it, in time or after the product was posted.  It has none only for a reason its
\* page cannot know of, or because answers of the page overlapped; never after an
\* error that the page has shown.
MissingImagesExplained ==
    \A p \in posted :
        p.image # NoFile /\ inOrder[p.tab] =>
            \/ Sanitize[p.image] \in DOMAIN files
            \/ phase[LastOf(p.tab)] \in Unheard

-----------------------------------------------------------------------------
(* The inductive invariant.                                                *)

\* Uploads an answer or a stored file can come from, and those that have their
\* file in place.
Passed == {"checked", "moved", "ok", "okNotStored", "gotOk", "gotNotStored"}
Moved  == {"moved", "ok", "gotOk"}

\* An upload's phase and its page's count agree; what has passed the checks is
\* valid, and a moved file is in place under its name.
UploadPhases ==
    \A u \in Uploads :
        /\ phase[u] = "none" <=> u[2] > chosen[u[1]]
        /\ valid[u] => name[u] # NoFile
        /\ phase[u] \in Passed => valid[u]
        /\ phase[u] \in Moved => Stored(u)

\* Nothing was known that is not stored, and a checked upload did not know its
\* own name.
KnownStored ==
    \A u \in Uploads :
        /\ known[u] \subseteq DOMAIN files
        /\ phase[u] = "checked" => Sanitize[name[u]] \notin known[u]

\* Only the last upload of a page that kept to the order can be unanswered.
OneDue ==
    \A u \in Uploads :
        inOrder[u[1]] /\ u[2] < chosen[u[1]] => phase[u] \in Settled

\* A posted product names the last file of its page, which had not shown an error
\* about it.
PostedUnrefused ==
    \A p \in posted :
        /\ p.tab \notin open
        /\ p.image = Chosen(p.tab)
        /\ inOrder[p.tab] /\ chosen[p.tab] > 0 => phase[LastOf(p.tab)] # "gotError"

\* What the steps of all pages and scripts keep: the parts above and the
\* properties they carry.
UploadInv ==
    /\ TypeOK
    /\ UploadPhases
    /\ KnownStored
    /\ OneDue
    /\ \A n \in DOMAIN files : phase[files[n]] # "none"
    /\ OnlyValidStored
    /\ ButtonFollowsAnswer
    /\ PostedUnrefused
-----------------------------------------------------------------------------
\* FileUploadFunction.php:138-145 refuses a name that is taken, "if destination
\* file exists it will be over-written", "to prevent conflicts": no upload
\* replaces a stored file.
NeverOverwritten ==
    [][\A n \in DOMAIN files : files'[n] = files[n]]_vars
=============================================================================
