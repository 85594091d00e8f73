------------------------------- MODULE Listing -------------------------------
(***************************************************************************)
(* The edit pages of the products together with the uploads of their       *)
(* images.  A page prints the fields of a product into its form; the form  *)
(* posts them back with the name of the file chosen, and the UPDATE        *)
(* replaces every field by what the form posted, whatever has happened to  *)
(* the product or to the file in the meantime.                             *)
(*                                                                         *)
(* One text stands for the name, the prices and the description.  Neither  *)
(* the page nor the UPDATE escapes it.  A browser reads back a text with a *)
(* quotation mark in a value="..." cut short, which is the function        *)
(* Printed; the database reads the quoted text with its backslashes and    *)
(* doubled apostrophes taken away, and no statement at all when the quotes *)
(* no longer match, which is the function Literal and its domain.  The     *)
(* names of files go the same way.  Texts that are SQL themselves are left *)
(* out.  The file input is never filled: a page starts without a file.     *)
(***************************************************************************)
EXTENDS Upload

CONSTANTS
    Products,   \* products there are
    Texts,      \* what their text fields can hold
    Printed,    \* what a browser reads back of a text printed into a form
    Literal     \* what the database reads of a text or a name put between quotes

Images == RawNames \cup {NoFile}
Typed  == "typed by the client"

\* The functions have the types of what they are applied to, an empty string stays
\* empty, and no other name becomes empty.
ASSUME ListingAssumption ==
    /\ Printed \in [Texts -> Texts]
    /\ DOMAIN Literal \subseteq Texts \cup Images
    /\ \A x \in DOMAIN Literal \cap Texts : Literal[x] \in Texts
    /\ \A x \in DOMAIN Literal \cap RawNames : Literal[x] \in RawNames
    /\ NoFile \in DOMAIN Literal /\ Literal[NoFile] = NoFile
    /\ NoFile \notin RawNames
    /\ Typed \notin Texts

Rows   == [text : Texts, image : Images]

\* What a page's form holds besides the file, and the text that was printed into it
\* if nobody has typed since.
Fields == [product : Products, text : Texts, read : Texts \cup {Typed}]
Forms  == [tab : Tabs, fields : Fields, image : Images]

VARIABLES
    row,        \* the products table
    fields,     \* the form of each page that has loaded
    underway,   \* forms submitted and not yet applied
    \* History, read by no action:
    last        \* the form each product changed was last changed by

listing     == <<row, fields, underway, last>>
listingVars == <<vars, listing>>

\* The types, and that a form is underway only when its page has been left.
ListingTypes ==
    /\ row \in [Products -> Rows]
    /\ \E S \in SUBSET Tabs : fields \in [S -> Fields]
    /\ underway \subseteq {f \in Forms : f.tab \notin open}
    /\ \E S \in SUBSET Products : last \in [S -> Forms]

ListingInit ==
    /\ Init
    /\ row \in [Products -> [text : Texts, image : {NoFile}]]
    /\ fields = [t \in {} |-> {}]
    /\ underway = {}
    /\ last = [p \in {} |-> {}]
-----------------------------------------------------------------------------
With(f, x, v) == [y \in DOMAIN f \cup {x} |-> IF y = x THEN v ELSE f[y]]

\* Mutant of OpenForm: the form comes with a default text, as the login form
\* does, and not with the product's.
OpenFormDefault(t, p) ==
    /\ t \in open \ DOMAIN fields
    /\ \E x \in Texts :
          fields' = With(fields, t, [product |-> p, text |-> x,
                                     read |-> row[p].text])
    /\ UNCHANGED <<vars, row, underway, last>>

\* showEditProduct(): the page of product p.
OpenForm(t, p) ==
    /\ t \in open \ DOMAIN fields
    /\ fields' = With(fields, t, [product |-> p, text |-> Printed[row[p].text],
                                  read |-> row[p].text])
    /\ UNCHANGED <<vars, row, underway, last>>

\* The client types into the form.
Type(t, x) ==
    /\ t \in open \cap DOMAIN fields
    /\ fields' = [fields EXCEPT ![t].text = x, ![t].read = Typed]
    /\ UNCHANGED <<vars, row, underway, last>>

ChooseFile(t, n, ok) ==
    /\ t \in DOMAIN fields
    /\ Choose(t, n, ok)
    /\ UNCHANGED listing

\* The uploads of all pages go on.
UploadStep(u) == (Arrive(u) \/ Lose(u) \/ UploadFile(u)) /\ UNCHANGED listing

\* The Submit button.
SubmitForm(t) ==
    /\ t \in DOMAIN fields
    /\ Submit(t)
    /\ underway' = underway \cup
         {[tab |-> t, fields |-> fields[t], image |-> Chosen(t)]}
    /\ UNCHANGED <<row, fields, last>>

LeaveForm(t) == LeavePage(t) /\ UNCHANGED listing

\* Does the UPDATE with the fields of form f keep its quotes matched?
Quotable(f) == {f.fields.text, f.image} \subseteq DOMAIN Literal

\* Mutant of ApplyForm: the image is left out unless its upload has gone well.
ApplyFormBlindly(f) ==
    LET p == f.fields.product IN
    /\ Quotable(f)
    /\ row' = [row EXCEPT ![p] =
                  [text |-> Literal[f.fields.text],
                   image |-> IF chosen[f.tab] > 0 /\ phase[LastOf(f.tab)] = "gotOk"
                             THEN Literal[f.image] ELSE NoFile]]
    /\ underway' = underway \ {f}
    /\ last' = With(last, p, f)
    /\ UNCHANGED <<vars, fields>>

\* The UPDATE of writeProduct(): every field is put between quotes as it is.
ApplyForm(f) ==
    LET p == f.fields.product IN
    /\ Quotable(f)
    /\ row' = [row EXCEPT ![p] = [text  |-> Literal[f.fields.text],
                                  image |-> Literal[f.image]]]
    /\ underway' = underway \ {f}
    /\ last' = With(last, p, f)
    /\ UNCHANGED <<vars, fields>>

\* The statement does not parse, and the error ends addEditProduct().
UpdateFails(f) ==
    /\ ~ Quotable(f)
    /\ underway' = underway \ {f}
    /\ UNCHANGED <<vars, row, fields, last>>

\* Forms that are lost or refused by the guard are never applied.
Done == Quiet /\ UNCHANGED listing

ListingNext ==
    \/ \E t \in Tabs :
          \/ \E p \in Products : OpenForm(t, p)
          \/ \E x \in Texts : Type(t, x)
          \/ \E n \in RawNames \cup {NoFile}, ok \in BOOLEAN : ChooseFile(t, n, ok)
          \/ SubmitForm(t)
          \/ LeaveForm(t)
    \/ \E u \in Uploads : UploadStep(u)
    \/ \E f \in underway : ApplyForm(f) \/ UpdateFails(f)
    \/ Done

ListingSpec == ListingInit /\ [][ListingNext]_listingVars
-----------------------------------------------------------------------------
(* Correctness.                                                            *)

\* The file called n is the one that upload u brought, or one that was sent
\* before there was a file of that name.
FromOrBefore(n, u) ==
    /\ n \in DOMAIN files
    /\ files[n] = u \/ n \notin known[files[n]]

\* The file a form names is there, or its page could not know that it is not.
Backed(f) ==
    f.image # NoFile /\ inOrder[f.tab] =>
        \/ FromOrBefore(Sanitize[f.image], LastOf(f.tab))
        \/ phase[LastOf(f.tab)] \in Unheard

\* A product that a form has changed shows the image the form named, as the
\* database read it; however late the form was applied, the stored file of that
\* name is the one its page uploaded, unless its page could not know that it has
\* none or had overlapping answers, and only an upload sent before that file was
\* stored can have replaced it.
ListedImageIsOwn ==
    \A p \in DOMAIN last :
        row[p].image = Literal[last[p].image] /\ Backed(last[p])

\* A form whose text nobody touched, and that no other form came before since its
\* page read the product, changes the text by what printing and quoting do to it
\* and by nothing else: it leaves a text as it was that has no quotation mark,
\* apostrophe or backslash.
UntouchedTextRoundTrips ==
    [][\A p \in DOMAIN last' :
          LET fresh == last'[p].fields IN
          /\ p \in DOMAIN last => last[p] # last'[p]
          /\ fresh.read = row[p].text
          => row'[p].text = Literal[Printed[row[p].text]]]_listingVars

\* A product loses or changes its image only to a form of its own page, and
\* loses it only to one that was sent without a file: no refused, lost or late
\* upload takes an image away.
ImageFollowsChoice ==
    [][\A p \in Products :
          row'[p].image # row[p].image =>
              \E f \in underway :
                 /\ f.fields.product = p
                 /\ row'[p].image = NoFile =>
                       \/ chosen[f.tab] = 0
                       \/ name[<<f.tab, chosen[f.tab]>>] = NoFile]_listingVars
-----------------------------------------------------------------------------
(* The inductive invariant.                                                *)

MovedInPlace ==
    \A u \in Uploads :
        phase[u] \in Moved => FromOrBefore(Sanitize[name[u]], u)

\* A form that nobody typed in has what printing made of the text it read.
FieldsAsPrinted ==
    LET AsPrinted(x) == x.read # Typed => x.text = Printed[x.read] IN
    /\ \A t \in DOMAIN fields : AsPrinted(fields[t])
    /\ \A f \in underway : AsPrinted(f.fields)

\* The forms on their way and the forms applied are products that Upload has as
\* posted.
FormsPosted ==
    LET Posted(f) == [tab |-> f.tab, image |-> f.image] \in posted IN
    /\ \A f \in underway : Posted(f)
    /\ \A p \in DOMAIN last : Posted(last[p])

\* A form applied was one that the database could read, and left its image.
ImageFromForm ==
    \A p \in DOMAIN last : Quotable(last[p]) /\ row[p].image = Literal[last[p].image]

\* What the steps of all pages, scripts and forms keep: that a form has its file
\* follows from what Upload keeps of the products posted.
ListingInv ==
    /\ UploadInv
    /\ ListingTypes
    /\ FieldsAsPrinted
    /\ MovedInPlace
    /\ FormsPosted
    /\ ImageFromForm
=============================================================================
