------------------------------- MODULE Routes -------------------------------
(***************************************************************************)
(* The routing of one request: how index.php turns a method, a controller  *)
(* name and an action name into the controller method that runs.  Only     *)
(* constant-level operators, so that the modules about sessions and about  *)
(* the catalogue route their requests exactly as the broker does.          *)
(*                                                                         *)
(* A request carries one ctlr and one action: for a GET those of the query *)
(* string, for any other method those of the POST body (the broker reads   *)
(* one source or the other, never both).  "none" is a missing or blank     *)
(* parameter, "other" any name the code does not mention.                  *)
(***************************************************************************)

\* AllowList::$allowList: the actions a GET request may name.
AllowList == {"listProducts", "viewProduct", "login", "addProduct",
              "register", "deleteProduct", "logout", "editProduct"}

\* The class index.php instantiates for a ctlr parameter.
Controller(ctlr) ==
    IF ctlr \in {"admin", "home", "cart"} THEN ctlr ELSE "default"

\* Methods every controller inherits from DefaultController.
InheritedMethods == {"__construct", "run", "index"}

\* The methods of each controller class, inherited ones included.
ControllerMethods ==
    [c \in {"admin", "home", "cart", "default"} |->
        InheritedMethods \cup
        CASE c = "admin" -> {"loginGET", "loginPOST", "logout", "registerGET",
                             "registerPOST", "listProducts", "viewProduct",
                             "deleteProduct", "showAddProduct",
                             "addEditProduct", "showEditProduct"}
          [] c = "home"  -> {"invalidForm", "listProducts", "viewProduct"}
          [] c = "cart"  -> {"add"}
          [] OTHER       -> {}]

\* The action index.php keeps.  A GET may only name an allowed action; any
\* other method is read from the POST body without a list.
AcceptedAction(q) ==
    IF q.method = "GET" /\ q.action \notin AllowList THEN "none" ELSE q.action

\* The names that AdminController splits into a page and a form handler.
SplitActions ==
    [login      |-> [page |-> "loginGET",       form |-> "loginPOST"],
     register   |-> [page |-> "registerGET",    form |-> "registerPOST"],
     addProduct |-> [page |-> "showAddProduct", form |-> "addEditProduct"]]

\* case 'admin': a shared name becomes its page for a GET and its form
\* handler otherwise.
RenamedAction(q) ==
    LET a == AcceptedAction(q) IN
    IF q.ctlr = "admin" /\ a \in DOMAIN SplitActions
    THEN IF q.method = "GET" THEN SplitActions[a].page ELSE SplitActions[a].form
    ELSE a

\* DefaultController::run: an action without a method falls back to index.
Method(q) ==
    IF RenamedAction(q) \in ControllerMethods[Controller(q.ctlr)]
    THEN RenamedAction(q)
    ELSE "index"

\* The controller and method that serve request q.
Route(q) == [controller |-> Controller(q.ctlr), method |-> Method(q)]

\* Mutant of ProtectedMethods: deleteProduct() does not call the guard.
ProtectedMethodsButDelete == {"listProducts", "viewProduct", "showAddProduct",
                              "addEditProduct", "showEditProduct"}

\* The AdminController methods that start with before_every_protected_page().
ProtectedMethods == {"listProducts", "viewProduct", "deleteProduct",
                     "showAddProduct", "addEditProduct", "showEditProduct"}

\* Does q end in a method that checks the login before anything else?
IsProtected(q) == /\ Controller(q.ctlr) = "admin"
                  /\ Method(q) \in ProtectedMethods

\* Does q end in the login form's handler, or in logout()?
IsLogin(q)  == Route(q) = [controller |-> "admin", method |-> "loginPOST"]
IsLogout(q) == Route(q) = [controller |-> "admin", method |-> "logout"]
=============================================================================
