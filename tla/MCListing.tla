----------------------------- MODULE MCListing -----------------------------
(***************************************************************************)
(* Instances of Listing: two products, two tabs, one clean file name and   *)
(* one that is cleaned to it, and the texts that the way from the database *)
(* to a form and back changes: by the page, by the database, or not at all *)
(* because its UPDATE fails.                                               *)
(***************************************************************************)
EXTENDS Listing, TLC

CleanShirt == "myshirt.png"
RawShirt   == "my shirt.png"

MCCleanNames == {CleanShirt}
MCRawNames   == {CleanShirt, RawShirt}
MCSanitize   == [n \in MCRawNames |-> CleanShirt]

\* The page cuts Cut at its quotation mark, the database eats the backslash of
\* Slash, and the last one of Open takes the closing quote of the UPDATE.
Plain == "Shirt 12"
Cut   == "Shirt 12\" wide"
Slash == "Shirt\\ 12"
Open  == "Shirt 12\\"

MCTexts   == {Plain, Cut, Slash, Open}
MCPrinted == [x \in MCTexts |-> IF x = Cut THEN Plain ELSE x]
MCLiteral == [x \in (MCTexts \ {Open}) \cup MCRawNames \cup {NoFile} |->
                 IF x = Slash THEN Plain ELSE x]

\* One product has a text that printing cuts and one a text that the database
\* changes; the others get there by forms.
MCInit ==
    /\ ListingInit
    /\ \E p \in Products : row[p].text = Cut /\ \A q \in Products \ {p} : row[q].text = Slash
MCSpec == MCInit /\ [][ListingNext]_listingVars

Symmetry == Permutations(Tabs) \cup Permutations(Products)
=============================================================================
