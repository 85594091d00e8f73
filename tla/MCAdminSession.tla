--------------------------- MODULE MCAdminSession ---------------------------
(***************************************************************************)
(* Instances of AdminSession: the requests that the site's own login form, *)
(* admin header and pages send, one for each way the session is used.      *)
(***************************************************************************)
EXTENDS AdminSession, TLC

Req(method, ctlr, action) ==
    [method |-> method, ctlr |-> ctlr, action |-> action]

LoginForm    == Req("POST", "admin", "login")
LogoutLink   == Req("GET", "admin", "logout")
ProductsLink == Req("GET", "admin", "listProducts")
HomePage     == Req("GET", "none", "none")

MCSiteRequests == {LoginForm, LogoutLink, ProductsLink, HomePage}

Symmetry == Permutations(Browsers) \cup Permutations(Workers)
=============================================================================
