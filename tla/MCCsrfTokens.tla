---------------------------- MODULE MCCsrfTokens ----------------------------
(***************************************************************************)
(* Instances of CsrfTokens: pages with a form, one public and one          *)
(* protected, the login, the logout and a page without a form.             *)
(***************************************************************************)
EXTENDS CsrfTokens, TLC

Req(method, ctlr, action) ==
    [method |-> method, ctlr |-> ctlr, action |-> action]

LoginPage   == Req("GET", "admin", "login")
LoginForm   == Req("POST", "admin", "login")
LogoutLink  == Req("GET", "admin", "logout")
ProductPage == Req("GET", "admin", "viewProduct")
HomePage    == Req("GET", "none", "none")

MCSiteRequests == {LoginPage, LoginForm, LogoutLink, ProductPage, HomePage}

Symmetry == Permutations(Browsers) \cup Permutations(Workers)
=============================================================================
