------------------------------- MODULE Catalog -------------------------------
(***************************************************************************)
(* The product catalogue: the scripts that list, show, add, change and     *)
(* delete products, one action per SQL statement that reads or writes the  *)
(* products table.  No statement is inside a transaction and sessions of   *)
(* different clients do not wait for each other, so the statements of      *)
(* concurrent scripts interleave.                                          *)
(*                                                                         *)
(* A submission comes from a page that some script has shown.  Pages stay  *)
(* open: a form may be sent late, after the product has changed or gone,   *)
(* and, as a refresh of a POST answer sends it again, more than once.      *)
(*                                                                         *)
(* Every method of AdminController first runs the guard of AdminSession;   *)
(* here it admits a script or refuses it.  Nothing writes the categories,  *)
(* so their queries (readCategories of every view model, readCategory) are *)
(* not steps.                                                              *)
(***************************************************************************)
EXTENDS Integers

CONSTANTS
    Workers,        \* scripts the web server can run at a time
    Categories,     \* product categories
    FirstCategory,  \* category 1, listed when a request names none
    Contents,       \* what the form sends besides the category
    Owners,         \* users that own products
    ShopOwner,      \* user 1, the owner that the form handler writes
    MaxId,          \* bound: the last product id
    InitialIds,     \* ids the table has handed out before
    MaxSubmissions  \* bound: how many requests are sent in all

\* filter_input() of a field that is missing, and of one that is empty.  MySQL
\* compares the empty string with an id as it would compare 0.
Null  == -1
Blank == 0

NoCategory    == "no category"
BlankCategory == "blank category"
NoContent     == "no content"

ASSUME CatalogAssumption == /\ MaxId \in Nat
                            /\ MaxSubmissions \in Nat
                            /\ InitialIds \in 0 .. MaxId
                            /\ ShopOwner \in Owners
                            /\ FirstCategory \in Categories
                            /\ Categories \cap {NoCategory, BlankCategory} = {}

Ids  == 1 .. MaxId
Rows == [category : Categories, owner : Owners, content : Contents]

Kinds == {"list", "shopView", "adminView", "editForm", "delete", "write"}

\* The page that only HomeController shows.  "list" stands for listProducts of
\* both controllers, every other kind belongs to AdminController.
PublicKinds == {"shopView"}

Submissions == [kind     : Kinds,
                id       : Ids \cup {Null, Blank},
                category : Categories \cup {NoCategory, BlankCategory},
                content  : Contents \cup {NoContent}]

\* Pages with forms about one product: adminProductView and editProduct.
Pages == [kind : {"adminView", "editForm"},
          id : Ids \cup {Blank}, category : Categories \cup {BlankCategory}]

NoSubmission == [kind |-> "list", id |-> Null, category |-> NoCategory,
                 content |-> NoContent]

VARIABLES
    products,   \* the products table, a function from the ids in use
    nextId,     \* its AUTO_INCREMENT counter
    pages,      \* the pages with forms that clients have been shown
    sent,       \* submissions so far
    pc,         \* where each script is
    req,        \* the submission it serves
    seen,       \* id and row of the products its view model has read
    store,      \* the owners its view model has read a store name of
    \* History, read by no action:
    wrote,      \* the ids and rows the script wrote
    raced       \* has another script written since its last statement?

vars == <<products, nextId, pages, sent, pc, req, seen, store, wrote, raced>>

\* After the only statement, or the first or the second of two.
PCs == {"idle", "asked", "admitted", "second", "done"}

TypeOK ==
    /\ nextId \in 1 .. MaxId + 1
    /\ \E S \in SUBSET Ids : products \in [S -> Rows]
    /\ pages \subseteq Pages
    /\ sent \in 0 .. MaxSubmissions
    /\ pc \in [Workers -> PCs]
    /\ req \in [Workers -> Submissions]
    /\ seen \in [Workers -> SUBSET (Ids \X Rows)]
    /\ store \in [Workers -> SUBSET Owners]
    /\ wrote \in [Workers -> SUBSET (Ids \X Rows)]
    /\ raced \in [Workers -> BOOLEAN]

Init ==
    /\ nextId = InitialIds + 1
    /\ \E S \in SUBSET (1 .. InitialIds) : products \in [S -> Rows]
    /\ \E shown \in SUBSET ((1 .. InitialIds) \X Categories) :
          pages = {p \in Pages : <<p.id, p.category>> \in shown}
    /\ sent = 0
    /\ pc = [w \in Workers |-> "idle"]
    /\ req = [w \in Workers |-> NoSubmission]
    /\ seen = [w \in Workers |-> {}]
    /\ store = [w \in Workers |-> {}]
    /\ wrote = [w \in Workers |-> {}]
    /\ raced = [w \in Workers |-> FALSE]
-----------------------------------------------------------------------------
(* What a client can send.                                                 *)

\* The category links, the links to a product that a list has shown, the form
\* of the Add Product page, the forms of the pages shown so far, and requests
\* that lack the product id their view model reads: a form sent as a GET, a link
\* sent as a POST.  The links of the menu name no category, nor does a login.
Offered(q) ==
    \/ /\ q.kind = "list" /\ q.id = Null
       /\ q.category \in Categories \cup {NoCategory} /\ q.content = NoContent
    \/ /\ q.kind \in {"shopView", "adminView"} /\ q.id \in 1 .. nextId - 1
       /\ q.category = NoCategory /\ q.content = NoContent
    \/ /\ q.kind = "write" /\ q.id = Null
       /\ q.category \in Categories /\ q.content \in Contents
    \/ \E p \in pages :
          /\ p.kind = "adminView" /\ q.kind \in {"editForm", "delete"}
          /\ q.id = p.id /\ q.category = p.category /\ q.content = NoContent
    \/ \E p \in pages :
          /\ p.kind = "editForm" /\ q.kind = "write" /\ q.id = p.id
          /\ q.category \in Categories /\ q.content \in Contents
    \/ /\ q.kind \in {"shopView", "adminView", "editForm", "delete"}
       /\ q.id = Null /\ q.content = NoContent
       /\ q.category = NoCategory \/ (q.kind = "delete" /\ q.category \in Categories)

Submit(w, q) ==
    /\ pc[w] = "idle"
    /\ sent < MaxSubmissions
    /\ Offered(q)
    /\ sent' = sent + 1
    /\ pc' = [pc EXCEPT ![w] = "asked"]
    /\ req' = [req EXCEPT ![w] = q]
    /\ UNCHANGED <<products, nextId, pages, seen, store, wrote, raced>>

\* The script is over and what it read is forgotten.
Leave(w) ==
    /\ pc' = [pc EXCEPT ![w] = "idle"]
    /\ req' = [req EXCEPT ![w] = NoSubmission]
    /\ seen' = [seen EXCEPT ![w] = {}]
    /\ store' = [store EXCEPT ![w] = {}]
    /\ wrote' = [wrote EXCEPT ![w] = {}]
    /\ raced' = [raced EXCEPT ![w] = FALSE]

\* before_every_protected_page() shows FailedAccess and exits.
Refuse(w) ==
    /\ pc[w] = "asked"
    /\ req[w].kind \notin PublicKinds
    /\ Leave(w)
    /\ UNCHANGED <<products, nextId, pages, sent>>

\* It returns, or the method is public and does not call it.
Admit(w) ==
    /\ pc[w] = "asked"
    /\ pc' = [pc EXCEPT ![w] = "admitted"]
    /\ UNCHANGED <<products, nextId, pages, sent, req, seen, store, wrote, raced>>
-----------------------------------------------------------------------------
(* The statements of ProductDAM.                                           *)

\* Scripts that have written or read, and not yet answered, are now raced.
Race(w) == raced' = [v \in Workers |->
                        IF v # w /\ pc[v] \in {"second", "done"} THEN TRUE
                                                                 ELSE raced[v]]

\* What a script goes on to after a writing statement: to list the category.
Written(w, pairs) ==
    /\ pc' = [pc EXCEPT ![w] = "second"]
    /\ wrote' = [wrote EXCEPT ![w] = pairs]
    /\ Race(w)
    /\ UNCHANGED <<pages, sent, req, seen, store>>

\* The product of a submitted form, as getAddEditInstance() builds it.  The
\* contents are some that both statements write as they are: Listing has those
\* that the UPDATE, which is put together from them, changes or fails on.
RowOf(q) == [category |-> q.category, owner |-> ShopOwner,
             content |-> q.content]

\* Mutant of InsertProduct: an id handed out before is used again.
InsertProductReusesId(w) ==
    /\ pc[w] = "admitted"
    /\ req[w].kind = "write"
    /\ req[w].id = Null
    /\ \E free \in (1 .. nextId) \ DOMAIN products :
          /\ free \in Ids
          /\ products' = [i \in DOMAIN products \cup {free} |->
                             IF i = free THEN RowOf(req[w]) ELSE products[i]]
          /\ nextId' = IF free = nextId THEN nextId + 1 ELSE nextId
          /\ Written(w, {<<free, RowOf(req[w])>>})

\* writeProduct() of a product without an id: INSERT.
InsertProduct(w) ==
    /\ pc[w] = "admitted"
    /\ req[w].kind = "write"
    /\ req[w].id = Null
    /\ nextId <= MaxId
    /\ products' = [i \in DOMAIN products \cup {nextId} |->
                       IF i = nextId THEN RowOf(req[w]) ELSE products[i]]
    /\ nextId' = nextId + 1
    /\ Written(w, {<<nextId, RowOf(req[w])>>})

\* Mutant of UpdateProduct: the statement is tried again although it succeeded.
UpdateProductAgain(w) ==
    /\ pc[w] = "admitted"
    /\ req[w].kind = "write"
    /\ req[w].id # Null
    /\ products' = [i \in DOMAIN products |->
                       IF i = req[w].id THEN RowOf(req[w]) ELSE products[i]]
    /\ UNCHANGED <<nextId, pages, sent, pc, req, seen, store, wrote, raced>>

\* writeProduct() of a product with one: UPDATE, of no row when the product has
\* gone or the form had no product.
UpdateProduct(w) ==
    /\ pc[w] = "admitted"
    /\ req[w].kind = "write"
    /\ req[w].id # Null
    /\ products' = [i \in DOMAIN products |->
                       IF i = req[w].id THEN RowOf(req[w]) ELSE products[i]]
    /\ Written(w, IF req[w].id \in DOMAIN products
                  THEN {<<req[w].id, RowOf(req[w])>>} ELSE {})
    /\ UNCHANGED nextId

\* Mutant of DeleteProductById: the statement is not executed.
DeleteProductByIdPrepares(w) ==
    /\ pc[w] = "admitted"
    /\ req[w].kind = "delete"
    /\ Written(w, {})
    /\ UNCHANGED <<products, nextId>>

\* deleteProductById().
DeleteProductById(w) ==
    /\ pc[w] = "admitted"
    /\ req[w].kind = "delete"
    /\ products' = [i \in DOMAIN products \ {req[w].id} |-> products[i]]
    /\ Written(w, {})
    /\ UNCHANGED nextId

\* A reading statement.
Read(w, pairs, owners, next) ==
    /\ pc' = [pc EXCEPT ![w] = next]
    /\ seen' = [seen EXCEPT ![w] = pairs]
    /\ store' = [store EXCEPT ![w] = owners]
    /\ UNCHANGED <<products, nextId, pages, sent, req, wrote, raced>>

Pairs(S) == {<<i, products[i]>> : i \in S}

\* The category that getCategoryInstance() lists for q.  A missing categoryId
\* finds no category to list after a write (CategoryDAM::readCategory), so it is
\* looked up again in the query and is then 1; an empty one names no category.
Listed(q) == IF q.category = NoCategory THEN FirstCategory ELSE q.category

\* Mutant of ReadProductsByCategoryId: the list stops one id early.
ReadProductsStopsEarly(w) ==
    /\ \/ pc[w] = "admitted" /\ req[w].kind = "list"
       \/ pc[w] = "second" /\ req[w].kind \in {"write", "delete"}
    /\ Read(w, Pairs({i \in DOMAIN products :
                         /\ products[i].category = Listed(req[w])
                         /\ i < nextId - 1}), {}, "done")

\* readProductsByCategoryId(), of a listing or after a write or a delete.
ReadProductsByCategoryId(w) ==
    /\ \/ pc[w] = "admitted" /\ req[w].kind = "list"
       \/ pc[w] = "second" /\ req[w].kind \in {"write", "delete"}
    /\ Read(w, Pairs({i \in DOMAIN products :
                         products[i].category = Listed(req[w])}), {}, "done")

\* readProduct(), for a page or for the edit form.
ReadProduct(w) ==
    /\ pc[w] = "admitted"
    /\ req[w].kind \in {"shopView", "adminView", "editForm"}
    /\ Read(w, Pairs(DOMAIN products \cap {req[w].id}), {},
            IF req[w].kind = "editForm" THEN "done" ELSE "second")

\* Mutant of ReadProductStore: every product is the shop's.
ReadShopStore(w) ==
    /\ pc[w] = "second"
    /\ req[w].kind \in {"shopView", "adminView"}
    /\ Read(w, seen[w], {ShopOwner}, "done")

\* readProductStore(), a second query about the product of a page.
ReadProductStore(w) ==
    /\ pc[w] = "second"
    /\ req[w].kind \in {"shopView", "adminView"}
    /\ Read(w, seen[w],
            {products[i].owner : i \in DOMAIN products \cap {req[w].id}}, "done")

\* The page is shown.  A page about a product that was not found is shown all
\* the same, with empty fields.
Show(w) ==
    /\ pc[w] = "done"
    /\ pages' = pages \cup
         (IF req[w].kind \in {"adminView", "editForm"}
          THEN IF seen[w] = {}
               THEN {[kind |-> req[w].kind, id |-> Blank,
                      category |-> BlankCategory]}
               ELSE {[kind |-> req[w].kind, id |-> pair[1],
                      category |-> pair[2].category] : pair \in seen[w]}
          ELSE {})
    /\ Leave(w)
    /\ UNCHANGED <<products, nextId, sent>>

\* The database fails under the next statement: the exception, which nothing
\* catches, ends the script; what it has written stays.
Fail(w) ==
    /\ pc[w] \in {"admitted", "second"}
    /\ Leave(w)
    /\ UNCHANGED <<products, nextId, pages, sent>>

Statement(w) ==
    \/ InsertProduct(w)
    \/ UpdateProduct(w)
    \/ DeleteProductById(w)
    \/ ReadProductsByCategoryId(w)
    \/ ReadProduct(w)
    \/ ReadProductStore(w)

\* Every submission the bound allows has been answered.
Quiet == /\ sent = MaxSubmissions
         /\ \A w \in Workers : pc[w] = "idle"
         /\ UNCHANGED vars

Next == \/ \E w \in Workers :
               \/ \E q \in Submissions : Submit(w, q)
               \/ Refuse(w)
               \/ Admit(w)
               \/ Statement(w)
               \/ Show(w)
               \/ Fail(w)
        \/ Quiet

Spec == Init /\ [][Next]_vars
-----------------------------------------------------------------------------
(* Correctness.                                                            *)

\* The id of a product that was deleted is never a product's id again: no late
\* form, no second submission and no insert brings it back.
NeverResurrected ==
    [][\A i \in 1 .. nextId - 1 :
          i \notin DOMAIN products => i \notin DOMAIN products']_vars

\* The list shown after an addition or a change contains what was written,
\* unless another script wrote in between.
WriterSeesWrite ==
    \A w \in Workers :
        pc[w] = "done" /\ req[w].kind = "write" /\ ~ raced[w] =>
            wrote[w] \subseteq seen[w]

\* The list shown after a delete never contains the product, whatever other
\* scripts wrote in between.
DeleterSeesGone ==
    \A w \in Workers :
        pc[w] = "done" /\ req[w].kind = "delete" =>
            \A pair \in seen[w] : pair[1] # req[w].id

\* The inductive invariant behind NeverResurrected and DeleterSeesGone: no row,
\* page, submission or answer names an id that has not been handed out, a
\* submitted form is complete, and a deleted product stays out of the table as
\* long as its deleter runs.
CatalogInv ==
    /\ TypeOK
    /\ DOMAIN products \subseteq 1 .. nextId - 1
    /\ \A p \in pages : p.id < nextId
    /\ \A w \in Workers :
          /\ req[w].id < nextId
          /\ \A pair \in seen[w] : pair[1] < nextId
          /\ req[w].kind = "write" =>
                req[w].category \in Categories /\ req[w].content \in Contents
          /\ req[w].kind = "delete" /\ pc[w] \in {"second", "done"} =>
                req[w].id \notin DOMAIN products
    /\ DeleterSeesGone

\* A page names the store of the product it shows, unless another script wrote
\* between its two queries.
PageAgrees ==
    \A w \in Workers :
        pc[w] = "done" /\ req[w].kind \in {"shopView", "adminView"}
           /\ ~ raced[w] =>
               store[w] = {pair[2].owner : pair \in seen[w]}

\* What the scripts do is what CatalogStore allows: each request takes effect
\* at most once, in one step between its arrival and its answer.
Store == INSTANCE CatalogStore WITH
            phase <- [w \in Workers |->
                         CASE pc[w] = "idle" -> "free"
                           [] pc[w] # "idle" /\ req[w].kind \in {"write", "delete"}
                              /\ pc[w] \in {"second", "done"} -> "applied"
                           [] OTHER -> "asked"]

ImplementsStore == Store!Spec
-----------------------------------------------------------------------------
\* ProductDAM.php:106-109 on writeProduct(): "If the product is not in the
\* database, the object is added."
MissingIsAdded ==
    [][\A w \in Workers :
          pc[w] = "admitted" /\ req[w].kind = "write"
             /\ req[w].id \notin DOMAIN products /\ pc'[w] = "second" =>
                 \E i \in DOMAIN products' \ DOMAIN products :
                    products'[i] = RowOf(req[w])]_vars
=============================================================================
