------------------------------- MODULE MCShop -------------------------------
(***************************************************************************)
(* Instances of Shop: the requests about products that the site's pages    *)
(* send, and the same requests sent with the other method.                 *)
(***************************************************************************)
EXTENDS Shop, TLC

Req(method, ctlr, action) ==
    [method |-> method, ctlr |-> ctlr, action |-> action]

LoginForm  == Req("POST", "admin", "login")
LogoutLink == Req("GET", "admin", "logout")
ShopPage   == Req("GET", "home", "viewProduct")

\* Forms that change products, the same as links, and the pages before them.
ChangeForms == {Req("POST", "admin", a) : a \in {"deleteProduct", "addProduct"}}
ChangeLinks == {Req("GET", "admin", a) : a \in {"deleteProduct", "addProduct"}}
FormPages   == {Req("GET", "admin", "viewProduct"),
                Req("POST", "admin", "showEditProduct")}

\* Everything.
MCAllRequests == {LoginForm, LogoutLink, ShopPage}
                 \cup ChangeForms \cup ChangeLinks \cup FormPages

BrowserSymmetry == Permutations(Browsers) \cup Permutations(Workers)
=============================================================================
