------------------------------ MODULE MCUpload ------------------------------
(***************************************************************************)
(* Instances of Upload: two clean names, and one that sanitize_file_name() *)
(* turns into the first of them ("my shirt.png" into "myshirt.png").       *)
(***************************************************************************)
EXTENDS Upload, TLC

CleanShirt == "myshirt.png"
RawShirt   == "my shirt.png"
Cap        == "cap.png"

MCCleanNames == {CleanShirt, Cap}
MCRawNames   == {CleanShirt, RawShirt, Cap}
MCSanitize   == [n \in MCRawNames |-> IF n = RawShirt THEN CleanShirt ELSE n]

Symmetry == Permutations(Tabs)
=============================================================================
