---------------------------- MODULE CatalogProofs ----------------------------
(***************************************************************************)
(* What Catalog promises for any number of scripts, products and           *)
(* submissions: CatalogInv is inductive, a deleted id never returns, and   *)
(* the scripts implement CatalogStore.                                     *)
(***************************************************************************)
EXTENDS Catalog, TLAPS

\* The table is a function from the ids in use to rows.
LEMMA TableType ==
  ASSUME TypeOK
  PROVE  /\ DOMAIN products \subseteq Ids
         /\ products \in [DOMAIN products -> Rows]
BY DEF TypeOK

\* It is its own restriction to its domain.
LEMMA TableIsFunction ==
  ASSUME TypeOK
  PROVE  products = [i \in DOMAIN products |-> products[i]]
BY DEF TypeOK

\* What a step of script w that ends it leaves behind.
LEMMA LeaveType ==
  ASSUME TypeOK, NEW w \in Workers, Leave(w)
  PROVE  /\ pc' \in [Workers -> PCs]
         /\ req' \in [Workers -> Submissions]
         /\ seen' \in [Workers -> SUBSET (Ids \X Rows)]
         /\ store' \in [Workers -> SUBSET Owners]
         /\ wrote' \in [Workers -> SUBSET (Ids \X Rows)]
         /\ raced' \in [Workers -> BOOLEAN]
<1>1. NoSubmission \in Submissions
  BY DEF NoSubmission, Submissions, Kinds, NoCategory, BlankCategory, NoContent
<1> QED
  BY <1>1 DEF TypeOK, Leave, PCs

\* The initial table has ids up to InitialIds and there are no scripts.
LEMMA InitInv == Init => CatalogInv
<1> SUFFICES ASSUME Init PROVE CatalogInv
  OBVIOUS
<1> USE CatalogAssumption DEF Init
<1>1. TypeOK
  <2>1. NoSubmission \in Submissions
    BY DEF NoSubmission, Submissions, Kinds, NoCategory, BlankCategory, NoContent
  <2>2. \E S \in SUBSET Ids : products \in [S -> Rows]
    BY DEF Ids
  <2>3. pages \subseteq Pages
    OBVIOUS
  <2> QED
    BY <2>1, <2>2, <2>3 DEF TypeOK, PCs
<1>2. DOMAIN products \subseteq 1 .. nextId - 1
  OBVIOUS
<1>3. \A p \in pages : p.id < nextId
  OBVIOUS
<1>4. /\ \A w \in Workers : req[w].id < nextId /\ req[w].kind = "list"
      /\ DeleterSeesGone
  BY DEF NoSubmission, Null, DeleterSeesGone
<1> QED
  BY <1>1, <1>2, <1>3, <1>4 DEF CatalogInv
-----------------------------------------------------------------------------
(* Each kind of step preserves the invariant.                              *)

\* A submission names ids of open pages or of listed products only.
LEMMA SubmitPreserves ==
  ASSUME CatalogInv, NEW w \in Workers, NEW q \in Submissions, Submit(w, q)
  PROVE  CatalogInv'
<1> USE DEF CatalogInv, Submit
<1>1. TypeOK'
  <2>1. sent' \in 0 .. MaxSubmissions /\ pc' \in [Workers -> PCs]
    BY CatalogAssumption DEF TypeOK, PCs
  <2> QED
    BY <2>1 DEF TypeOK
<1>2. /\ q.id < nextId
      /\ q.kind = "write" => q.category \in Categories /\ q.content \in Contents
  BY DEF Offered, TypeOK, Ids, Null
<1>3. DeleterSeesGone'
  BY DEF DeleterSeesGone, TypeOK
<1> QED
  BY <1>1, <1>2, <1>3 DEF TypeOK

\* Steps that change neither the table nor what a script has read.
LEMMA AdmitPreserves ==
  ASSUME CatalogInv, NEW w \in Workers, Admit(w)
  PROVE  CatalogInv'
<1> USE DEF CatalogInv, Admit
<1>1. TypeOK'
  BY DEF TypeOK, PCs
<1>2. DeleterSeesGone'
  BY DEF DeleterSeesGone, TypeOK
<1> QED
  BY <1>1, <1>2 DEF TypeOK

\* A script that ends without a page.
LEMMA StopPreserves ==
  ASSUME CatalogInv, NEW w \in Workers, Refuse(w) \/ Fail(w)
  PROVE  CatalogInv'
<1> USE DEF CatalogInv
<1>1. Leave(w) /\ UNCHANGED <<products, nextId, pages, sent>>
  BY DEF Refuse, Fail
<1>2. TypeOK'
  BY <1>1, LeaveType DEF TypeOK
<1>3. /\ req' = [req EXCEPT ![w] = NoSubmission]
      /\ seen' = [seen EXCEPT ![w] = {}]
      /\ pc' = [pc EXCEPT ![w] = "idle"]
  BY <1>1 DEF Leave
<1>4. NoSubmission.id < nextId /\ NoSubmission.kind = "list"
  BY DEF NoSubmission, Null, TypeOK
<1>5. DeleterSeesGone'
  BY <1>3 DEF DeleterSeesGone, TypeOK
<1> QED
  BY <1>1, <1>2, <1>3, <1>4, <1>5 DEF TypeOK

\* A script that shows its page: the page is about a product that was read.
LEMMA ShowPreserves ==
  ASSUME CatalogInv, NEW w \in Workers, Show(w)
  PROVE  CatalogInv'
<1> USE DEF CatalogInv
<1>1. Leave(w) /\ UNCHANGED <<products, nextId, sent>>
  BY DEF Show
<1>2. \A p \in pages' : p \in Pages /\ p.id < nextId
  <2>1. \A p \in pages : p \in Pages /\ p.id < nextId
    BY DEF TypeOK
  <2>2. CASE pages' = pages
    BY <2>1, <2>2
  <2>3. CASE /\ req[w].kind \in {"adminView", "editForm"}
             /\ pages' = pages \cup {[kind |-> req[w].kind, id |-> Blank,
                                      category |-> BlankCategory]}
    BY <2>1, <2>3 DEF Pages, Blank, TypeOK
  <2>4. CASE /\ req[w].kind \in {"adminView", "editForm"}
             /\ pages' = pages \cup
                  {[kind |-> req[w].kind, id |-> pair[1],
                    category |-> pair[2].category] : pair \in seen[w]}
    <3>1. \A pair \in seen[w] :
             /\ pair[1] \in Ids /\ pair[1] < nextId
             /\ pair[2].category \in Categories
      BY DEF TypeOK, Rows
    <3> QED
      BY <2>1, <2>4, <3>1 DEF Pages
  <2> QED
    BY <2>2, <2>3, <2>4 DEF Show
<1>3. TypeOK'
  BY <1>1, <1>2, LeaveType DEF TypeOK
<1>4. /\ req' = [req EXCEPT ![w] = NoSubmission]
      /\ seen' = [seen EXCEPT ![w] = {}]
      /\ pc' = [pc EXCEPT ![w] = "idle"]
  BY <1>1 DEF Leave
<1>5. NoSubmission.id < nextId /\ NoSubmission.kind = "list"
  BY DEF NoSubmission, Null, TypeOK
<1>6. DeleterSeesGone'
  BY <1>4 DEF DeleterSeesGone, TypeOK
<1> QED
  BY <1>1, <1>2, <1>3, <1>4, <1>5, <1>6 DEF TypeOK

\* What a reading statement returns are rows of the table.
LEMMA ReadPreserves ==
  ASSUME CatalogInv, NEW w \in Workers,
         ReadProductsByCategoryId(w) \/ ReadProduct(w) \/ ReadProductStore(w)
  PROVE  CatalogInv'
<1> USE DEF CatalogInv
<1>1. PICK pairs \in SUBSET (Ids \X Rows), owners \in SUBSET Owners,
           next \in {"second", "done"} :
        /\ pairs \subseteq Pairs(DOMAIN products) \/ pairs = seen[w]
        /\ req[w].kind = "delete" => pairs \subseteq Pairs(DOMAIN products)
        /\ req[w].kind = "delete" => pc[w] = "second"
        /\ Read(w, pairs, owners, next)
  <2>1. ASSUME NEW S \in SUBSET DOMAIN products
        PROVE  Pairs(S) \in SUBSET (Ids \X Rows) /\ Pairs(S) \subseteq Pairs(DOMAIN products)
    BY TableType DEF Pairs
  <2>2. CASE ReadProductsByCategoryId(w)
    <3> DEFINE S == {i \in DOMAIN products :
                        products[i].category = Listed(req[w])}
    <3>1. Read(w, Pairs(S), {}, "done")
      BY <2>2 DEF ReadProductsByCategoryId
    <3>2. req[w].kind = "delete" => pc[w] = "second"
      BY <2>2 DEF ReadProductsByCategoryId
    <3>3. S \in SUBSET DOMAIN products
      OBVIOUS
    <3> HIDE DEF S
    <3> QED
      BY <2>1, <3>1, <3>2, <3>3
  <2>3. CASE ReadProduct(w)
    <3> DEFINE S == DOMAIN products \cap {req[w].id}
    <3>1. \E next \in {"second", "done"} : Read(w, Pairs(S), {}, next)
      BY <2>3 DEF ReadProduct
    <3>2. req[w].kind # "delete" /\ S \in SUBSET DOMAIN products
      BY <2>3 DEF ReadProduct
    <3> HIDE DEF S
    <3> QED
      BY <2>1, <3>1, <3>2
  <2>4. CASE ReadProductStore(w)
    <3> DEFINE owners == {products[i].owner : i \in DOMAIN products \cap {req[w].id}}
    <3>1. Read(w, seen[w], owners, "done") /\ req[w].kind # "delete"
      BY <2>4 DEF ReadProductStore
    <3>2. owners \in SUBSET Owners
      BY TableType DEF Rows
    <3>3. seen[w] \in SUBSET (Ids \X Rows)
      BY DEF TypeOK
    <3> HIDE DEF owners
    <3> QED
      BY <3>1, <3>2, <3>3
  <2> QED
    BY <2>2, <2>3, <2>4
<1>2. /\ pc' = [pc EXCEPT ![w] = next]
      /\ seen' = [seen EXCEPT ![w] = pairs]
      /\ store' = [store EXCEPT ![w] = owners]
      /\ UNCHANGED <<products, nextId, pages, sent, req, wrote, raced>>
  BY <1>1 DEF Read
<1>3. TypeOK'
  BY <1>1, <1>2 DEF TypeOK, PCs
<1>4. \A pair \in pairs : pair[1] < nextId
  <2>1. \A pair \in Pairs(DOMAIN products) : pair[1] \in 1 .. nextId - 1
    BY DEF Pairs
  <2> QED
    BY <1>1, <2>1 DEF TypeOK
<1>5. req[w].kind = "delete" => \A pair \in pairs : pair[1] # req[w].id
  <2>1. \A pair \in Pairs(DOMAIN products) : pair[1] \in DOMAIN products
    BY DEF Pairs
  <2> QED
    BY <1>1, <2>1
<1>6. DeleterSeesGone'
  BY <1>2, <1>5 DEF DeleterSeesGone, TypeOK
<1>7. \A v \in Workers : req[v].kind = "delete" /\ pc'[v] \in {"second", "done"}
                          => req[v].id \notin DOMAIN products
  BY <1>1, <1>2 DEF TypeOK
<1> QED
  BY <1>2, <1>3, <1>4, <1>6, <1>7 DEF TypeOK

\* The row of a submitted form is a row of the table.
LEMMA RowType ==
  ASSUME CatalogInv, NEW w \in Workers, req[w].kind = "write"
  PROVE  RowOf(req[w]) \in Rows
BY CatalogAssumption DEF CatalogInv, RowOf, Rows

\* A writing statement: the new table uses no id that is not handed out, loses
\* no row that an earlier deletion had not removed, and brings none back.
LEMMA WritePreserves ==
  ASSUME CatalogInv, NEW w \in Workers,
         InsertProduct(w) \/ UpdateProduct(w) \/ DeleteProductById(w)
  PROVE  CatalogInv'
<1> USE DEF CatalogInv
<1>1. /\ nextId' \in 1 .. MaxId + 1 /\ nextId <= nextId'
      /\ \E S \in SUBSET Ids : products' \in [S -> Rows]
      /\ DOMAIN products' \subseteq 1 .. nextId' - 1
      /\ DOMAIN products' \subseteq DOMAIN products \cup {nextId}
      /\ req[w].kind = "delete" => req[w].id \notin DOMAIN products'
  <2>1. CASE InsertProduct(w)
    <3>1. /\ nextId <= MaxId /\ nextId' = nextId + 1
          /\ DOMAIN products' = DOMAIN products \cup {nextId}
          /\ req[w].kind = "write"
      BY <2>1 DEF InsertProduct
    <3>2. products' \in [DOMAIN products \cup {nextId} -> Rows]
      BY <2>1, TableType, RowType DEF InsertProduct
    <3>3. DOMAIN products \cup {nextId} \in SUBSET Ids
      BY <3>1, TableType DEF TypeOK, Ids
    <3>4. nextId' \in 1 .. MaxId + 1 /\ nextId <= nextId'
      BY <3>1, CatalogAssumption DEF TypeOK
    <3>5. DOMAIN products' \subseteq 1 .. nextId' - 1
      BY <3>1 DEF TypeOK
    <3> QED
      BY <3>1, <3>2, <3>3, <3>4, <3>5
  <2>2. CASE UpdateProduct(w)
    <3>1. products' \in [DOMAIN products -> Rows] /\ nextId' = nextId
          /\ req[w].kind = "write"
      BY <2>2, TableType, RowType DEF UpdateProduct
    <3> QED
      BY <3>1, TableType DEF TypeOK
  <2>3. CASE DeleteProductById(w)
    <3> DEFINE S == DOMAIN products \ {req[w].id}
    <3>1. /\ products' \in [S -> Rows] /\ DOMAIN products' = S
          /\ nextId' = nextId
      BY <2>3, TableType DEF DeleteProductById
    <3>2. S \in SUBSET Ids /\ S \subseteq 1 .. nextId - 1
          /\ S \subseteq DOMAIN products /\ req[w].id \notin S
      BY TableType
    <3>3. nextId' \in 1 .. MaxId + 1 /\ nextId <= nextId'
      BY <3>1 DEF TypeOK
    <3> HIDE DEF S
    <3> QED
      BY <3>1, <3>2, <3>3
  <2> QED
    BY <2>1, <2>2, <2>3
<1>2. PICK pairs \in SUBSET (Ids \X Rows) : Written(w, pairs)
  <2>1. CASE InsertProduct(w)
    BY <2>1, RowType DEF InsertProduct, Ids, TypeOK
  <2>2. CASE UpdateProduct(w)
    BY <2>2, RowType, TableType DEF UpdateProduct
  <2>3. CASE DeleteProductById(w)
    BY <2>3 DEF DeleteProductById
  <2> QED
    BY <2>1, <2>2, <2>3
<1>3. /\ pc[w] = "admitted" /\ req[w].kind \in {"write", "delete"}
      /\ pc' = [pc EXCEPT ![w] = "second"]
      /\ wrote' = [wrote EXCEPT ![w] = pairs]
      /\ UNCHANGED <<pages, sent, req, seen, store>>
  BY <1>2 DEF Written, InsertProduct, UpdateProduct, DeleteProductById
<1>4. raced' \in [Workers -> BOOLEAN]
  BY <1>2 DEF Written, Race, TypeOK
<1>5. TypeOK'
  BY <1>1, <1>3, <1>4 DEF TypeOK, PCs
<1>6. /\ \A p \in pages' : p.id < nextId'
      /\ \A v \in Workers : req'[v].id < nextId'
                            /\ \A pair \in seen'[v] : pair[1] < nextId'
  <2>1. \A p \in pages : p.id \in Int /\ p.id < nextId
    BY DEF TypeOK, Pages, Ids, Blank
  <2>2. \A v \in Workers : req[v].id \in Int /\ req[v].id < nextId
    BY DEF TypeOK, Submissions, Ids, Blank, Null
  <2>3. \A v \in Workers : \A pair \in seen[v] : pair[1] \in Int /\ pair[1] < nextId
    BY DEF TypeOK, Ids
  <2>4. nextId \in Int /\ nextId' \in Int
    BY <1>1 DEF TypeOK
  <2> QED
    BY <1>1, <1>3, <2>1, <2>2, <2>3, <2>4
<1>7. \A v \in Workers : req[v].kind = "delete" /\ pc'[v] \in {"second", "done"}
                          => req[v].id \notin DOMAIN products'
  BY <1>1, <1>3 DEF TypeOK
<1>8. DeleterSeesGone'
  BY <1>3 DEF DeleterSeesGone, TypeOK
<1> QED
  BY <1>1, <1>3, <1>5, <1>6, <1>7, <1>8

\* Nothing changes.
LEMMA StutterPreserves ==
  ASSUME CatalogInv, UNCHANGED vars
  PROVE  CatalogInv'
BY DEF CatalogInv, TypeOK, DeleterSeesGone, vars

\* The invariant is inductive.
LEMMA NextInv == CatalogInv /\ [Next]_vars => CatalogInv'
<1> SUFFICES ASSUME CatalogInv, [Next]_vars PROVE CatalogInv'
  OBVIOUS
<1>1. ASSUME NEW w \in Workers, NEW q \in Submissions, Submit(w, q)
      PROVE  CatalogInv'
  BY <1>1, SubmitPreserves
<1>2. ASSUME NEW w \in Workers, Refuse(w) \/ Admit(w) \/ Fail(w) \/ Show(w)
      PROVE  CatalogInv'
  BY <1>2, StopPreserves, AdmitPreserves, ShowPreserves
<1>3. ASSUME NEW w \in Workers, Statement(w)
      PROVE  CatalogInv'
  BY <1>3, WritePreserves, ReadPreserves DEF Statement
<1>4. CASE Quiet \/ UNCHANGED vars
  BY <1>4, StutterPreserves DEF Quiet
<1> QED
  BY <1>1, <1>2, <1>3, <1>4 DEF Next

\* CatalogInv holds in every reachable state.
THEOREM CatalogInvariant == Spec => []CatalogInv
<1> QED
  BY InitInv, NextInv, PTL DEF Spec

\* Every variable keeps its type in every reachable state.
THEOREM TypeCorrect == Spec => []TypeOK
<1>1. CatalogInv => TypeOK
  BY DEF CatalogInv
<1> QED
  BY <1>1, CatalogInvariant, PTL

\* The list a deletion shows never contains the deleted product.
THEOREM DeletionsShow == Spec => []DeleterSeesGone
<1>1. CatalogInv => DeleterSeesGone
  BY DEF CatalogInv
<1> QED
  BY <1>1, CatalogInvariant, PTL

\* The only id a step can add to the table is the one never handed out.
LEMMA TableStep ==
  ASSUME CatalogInv, [Next]_vars
  PROVE  DOMAIN products' \subseteq DOMAIN products \cup {nextId}
<1>1. CASE products' = products
  BY <1>1
<1>2. ASSUME NEW w \in Workers,
             InsertProduct(w) \/ UpdateProduct(w) \/ DeleteProductById(w)
      PROVE  DOMAIN products' \subseteq DOMAIN products \cup {nextId}
  BY <1>2 DEF InsertProduct, UpdateProduct, DeleteProductById
<1>3. \/ products' = products
      \/ \E w \in Workers :
            InsertProduct(w) \/ UpdateProduct(w) \/ DeleteProductById(w)
  BY DEF Next, Submit, Refuse, Admit, Statement, Show, Fail, Quiet, vars,
         ReadProductsByCategoryId, ReadProduct, ReadProductStore, Read
<1> QED
  BY <1>1, <1>2, <1>3

\* A deleted id is never in the table again, in any interleaving of late
\* forms, repeated submissions and insertions.
THEOREM DeletedForever == Spec => NeverResurrected
<1>1. CatalogInv /\ [Next]_vars =>
        [\A i \in 1 .. nextId - 1 :
            i \notin DOMAIN products => i \notin DOMAIN products']_vars
  <2>1. nextId \notin 1 .. nextId - 1
    OBVIOUS
  <2> QED
    BY <2>1, TableStep
<1> QED
  BY <1>1, CatalogInvariant, PTL DEF Spec, NeverResurrected
-----------------------------------------------------------------------------
(* What an answer shows of the table.                                      *)

\* What script w has read or written is still what the table has, unless another
\* script has written since.
FreshScript(w) ==
    ~ raced[w] =>
        /\ pc[w] = "second" /\ req[w].kind = "write" =>
             wrote[w] \subseteq Pairs({i \in DOMAIN products :
                                         products[i].category = Listed(req[w])})
        /\ pc[w] = "done" /\ req[w].kind = "write" => wrote[w] \subseteq seen[w]
        /\ pc[w] = "second" /\ req[w].kind \in {"shopView", "adminView"} =>
             seen[w] = Pairs(DOMAIN products \cap {req[w].id})
        /\ pc[w] = "done" /\ req[w].kind \in {"shopView", "adminView"} =>
             store[w] = {pair[2].owner : pair \in seen[w]}

FreshInv == \A w \in Workers : FreshScript(w)

\* A step of script w that writes nothing leaves the other scripts' readings as
\* they were.
LEMMA OthersStayFresh ==
  ASSUME TypeOK, FreshInv, NEW w \in Workers, NEW v \in Workers \ {w},
         UNCHANGED products,
         /\ pc'[v] = pc[v] /\ req'[v] = req[v] /\ seen'[v] = seen[v]
         /\ store'[v] = store[v] /\ wrote'[v] = wrote[v] /\ raced'[v] = raced[v]
  PROVE  FreshScript(v)'
BY DEF FreshInv, FreshScript, Pairs

\* The steps before and after the statements.
LEMMA FreshAround ==
  ASSUME TypeOK, FreshInv, NEW w \in Workers,
         \/ \E q \in Submissions : Submit(w, q)
         \/ Admit(w)
         \/ (Leave(w) /\ UNCHANGED products)
  PROVE  FreshInv'
<1>1. pc'[w] \in {"idle", "asked", "admitted"} /\ UNCHANGED products
  BY DEF Submit, Admit, Leave, TypeOK
<1>2. FreshScript(w)'
  BY <1>1 DEF FreshScript
<1>3. ASSUME NEW v \in Workers \ {w}
      PROVE  /\ pc'[v] = pc[v] /\ req'[v] = req[v] /\ seen'[v] = seen[v]
             /\ store'[v] = store[v] /\ wrote'[v] = wrote[v] /\ raced'[v] = raced[v]
  BY DEF Submit, Admit, Leave, TypeOK
<1> QED
  BY <1>1, <1>2, <1>3, OthersStayFresh DEF FreshInv

\* A writing script has what it wrote, and marks the others raced.
LEMMA FreshWrite ==
  ASSUME CatalogInv, FreshInv, NEW w \in Workers,
         InsertProduct(w) \/ UpdateProduct(w) \/ DeleteProductById(w)
  PROVE  FreshInv'
<1> USE DEF CatalogInv
<1>1. /\ pc' = [pc EXCEPT ![w] = "second"] /\ Race(w)
      /\ UNCHANGED <<req, seen, store>>
      /\ pc[w] = "admitted" /\ req[w].kind \in {"write", "delete"}
  BY DEF InsertProduct, UpdateProduct, DeleteProductById, Written
<1>2. FreshScript(w)'
  <2>1. pc'[w] = "second"
    BY <1>1 DEF TypeOK
  <2> SUFFICES ASSUME req[w].kind = "write"
               PROVE  \A pair \in wrote'[w] :
                         /\ pair[1] \in DOMAIN products'
                         /\ products'[pair[1]].category = Listed(req[w])
                         /\ pair = <<pair[1], products'[pair[1]]>>
    BY <1>1, <2>1 DEF FreshScript, Pairs
  <2>. Listed(req[w]) = req[w].category
    BY CatalogAssumption DEF Listed
  <2>2. CASE InsertProduct(w)
    <3>1. wrote'[w] = {<<nextId, RowOf(req[w])>>}
      BY <2>2 DEF InsertProduct, Written, TypeOK
    <3>2. nextId \in DOMAIN products' /\ products'[nextId] = RowOf(req[w])
      BY <2>2 DEF InsertProduct
    <3> QED
      BY <3>1, <3>2 DEF RowOf
  <2>3. CASE UpdateProduct(w)
    <3>1. wrote'[w] = IF req[w].id \in DOMAIN products
                      THEN {<<req[w].id, RowOf(req[w])>>} ELSE {}
      BY <2>3 DEF UpdateProduct, Written, TypeOK
    <3>2. /\ DOMAIN products' = DOMAIN products
          /\ req[w].id \in DOMAIN products => products'[req[w].id] = RowOf(req[w])
      BY <2>3 DEF UpdateProduct
    <3> QED
      BY <3>1, <3>2 DEF RowOf
  <2>4. ~ DeleteProductById(w)
    BY DEF DeleteProductById
  <2> QED
    BY <2>2, <2>3, <2>4
<1>3. ASSUME NEW v \in Workers \ {w}
      PROVE  FreshScript(v)'
  <2>1. pc'[v] = pc[v]
    BY <1>1 DEF TypeOK
  <2>2. CASE pc[v] \in {"second", "done"}
    <3>1. raced'[v]
      BY <1>1, <2>2 DEF Race
    <3> QED
      BY <3>1 DEF FreshScript
  <2>3. CASE pc[v] \notin {"second", "done"}
    BY <2>1, <2>3 DEF FreshScript
  <2> QED
    BY <2>2, <2>3
<1> QED
  BY <1>2, <1>3 DEF FreshInv

\* A reading script has what the table had.
LEMMA FreshRead ==
  ASSUME CatalogInv, FreshInv, NEW w \in Workers,
         ReadProductsByCategoryId(w) \/ ReadProduct(w) \/ ReadProductStore(w)
  PROVE  FreshInv'
<1> USE DEF CatalogInv
<1>1. UNCHANGED <<products, req, wrote, raced>>
  BY DEF ReadProductsByCategoryId, ReadProduct, ReadProductStore, Read
<1>2. FreshScript(w)'
  <2>1. CASE ReadProductsByCategoryId(w)
    <3>1. /\ pc'[w] = "done"
          /\ seen'[w] = Pairs({i \in DOMAIN products :
                                 products[i].category = Listed(req[w])})
          /\ req[w].kind \in {"list", "write", "delete"}
          /\ req[w].kind = "write" => pc[w] = "second"
      BY <2>1 DEF ReadProductsByCategoryId, Read, TypeOK
    <3> QED
      BY <1>1, <3>1 DEF FreshInv, FreshScript
  <2>2. CASE ReadProduct(w)
    <3>1. /\ pc'[w] \in {"second", "done"}
          /\ req[w].kind \in {"shopView", "adminView"} => pc'[w] = "second"
          /\ req[w].kind \in {"shopView", "adminView", "editForm"}
          /\ seen'[w] = Pairs(DOMAIN products \cap {req[w].id})
      BY <2>2 DEF ReadProduct, Read, TypeOK
    <3> QED
      BY <1>1, <3>1 DEF FreshScript, Pairs
  <2>3. CASE ReadProductStore(w)
    <3>1. /\ pc[w] = "second" /\ pc'[w] = "done" /\ seen'[w] = seen[w]
          /\ req[w].kind \in {"shopView", "adminView"}
      BY <2>3 DEF ReadProductStore, Read, TypeOK
    <3>6. store'[w] = {products[i].owner : i \in DOMAIN products \cap {req[w].id}}
      BY <2>3 DEF ReadProductStore, Read, TypeOK
    <3>2. ~ raced[w] => seen[w] = Pairs(DOMAIN products \cap {req[w].id})
      BY <3>1 DEF FreshInv, FreshScript
    <3>3. {pair[2].owner : pair \in Pairs(DOMAIN products \cap {req[w].id})}
             = {products[i].owner : i \in DOMAIN products \cap {req[w].id}}
      <4> DEFINE S == DOMAIN products \cap {req[w].id}
      <4>1. \A pair \in Pairs(S) : pair[1] \in S /\ pair[2] = products[pair[1]]
        BY DEF Pairs
      <4>2. ASSUME NEW i \in S
            PROVE  \E pair \in Pairs(S) : pair[2] = products[i]
        <5>1. <<i, products[i]>> \in Pairs(S) /\ <<i, products[i]>>[2] = products[i]
          BY DEF Pairs
        <5> QED
          BY <5>1
      <4> HIDE DEF S
      <4>3. {pair[2].owner : pair \in Pairs(S)} = {products[i].owner : i \in S}
        BY <4>1, <4>2
      <4> QED
        BY <4>3 DEF S
    <3>4. ~ raced[w] => store'[w] = {pair[2].owner : pair \in seen'[w]}
      BY <3>1, <3>6, <3>2, <3>3
    <3>5. raced'[w] = raced[w] /\ req'[w] = req[w]
      BY <1>1
    <3> QED
      BY <3>1, <3>4, <3>5 DEF FreshScript
  <2> QED
    BY <2>1, <2>2, <2>3
<1>3. ASSUME NEW v \in Workers \ {w}
      PROVE  /\ pc'[v] = pc[v] /\ req'[v] = req[v] /\ seen'[v] = seen[v]
             /\ store'[v] = store[v] /\ wrote'[v] = wrote[v] /\ raced'[v] = raced[v]
  BY DEF ReadProductsByCategoryId, ReadProduct, ReadProductStore, Read, TypeOK
<1> QED
  BY <1>1, <1>2, <1>3, OthersStayFresh DEF FreshInv

\* FreshInv holds in every reachable state.
LEMMA FreshInvariant == Spec => []FreshInv
<1>1. Init => FreshInv
  BY DEF Init, FreshInv, FreshScript
<1>2. ASSUME CatalogInv, FreshInv, [Next]_vars
      PROVE  FreshInv'
  <2>1. ASSUME NEW w \in Workers,
               \/ \E q \in Submissions : Submit(w, q)
               \/ Refuse(w) \/ Admit(w) \/ Show(w) \/ Fail(w)
        PROVE  FreshInv'
    <3>1. \/ \E q \in Submissions : Submit(w, q)
          \/ Admit(w)
          \/ (Leave(w) /\ UNCHANGED products)
      BY <2>1 DEF Refuse, Show, Fail
    <3>2. TypeOK
      BY <1>2 DEF CatalogInv
    <3> QED
      BY <1>2, <3>1, <3>2, FreshAround
  <2>2. ASSUME NEW w \in Workers, Statement(w)
        PROVE  FreshInv'
    BY <1>2, <2>2, FreshWrite, FreshRead DEF Statement
  <2>3. CASE UNCHANGED vars
    BY <1>2, <2>3 DEF FreshInv, FreshScript, Pairs, vars
  <2> QED
    BY <1>2, <2>1, <2>2, <2>3 DEF Next, Quiet
<1> QED
  BY <1>1, <1>2, CatalogInvariant, PTL DEF Spec

\* The list shown after a write has what was written, unless another script
\* wrote in between.
THEOREM WritesShow == Spec => []WriterSeesWrite
<1>1. FreshInv => WriterSeesWrite
  BY DEF FreshInv, FreshScript, WriterSeesWrite
<1> QED
  BY <1>1, FreshInvariant, PTL

\* A page names the owner of the product it shows, unless another script wrote
\* between its two queries.
THEOREM PagesAgree == Spec => []PageAgrees
<1>1. FreshInv => PageAgrees
  BY DEF FreshInv, FreshScript, PageAgrees
<1> QED
  BY <1>1, FreshInvariant, PTL

-----------------------------------------------------------------------------
(* The scripts implement CatalogStore.                                     *)

\* The phase of a script's request, as Catalog maps it.
phaseMap == [w \in Workers |->
                CASE pc[w] = "idle" -> "free"
                  [] pc[w] # "idle" /\ req[w].kind \in {"write", "delete"}
                     /\ pc[w] \in {"second", "done"} -> "applied"
                  [] OTHER -> "asked"]

\* A writing statement is the effect of its request, which had none before.
LEMMA WriteRefines ==
  ASSUME CatalogInv, NEW w \in Workers,
         InsertProduct(w) \/ UpdateProduct(w) \/ DeleteProductById(w)
  PROVE  Store!Next
<1> USE DEF CatalogInv
<1>1. /\ pc[w] = "admitted" /\ req[w].kind \in {"write", "delete"}
      /\ pc' = [pc EXCEPT ![w] = "second"] /\ req' = req
  BY DEF Written, InsertProduct, UpdateProduct, DeleteProductById
<1>2. /\ phaseMap[w] = "asked"
      /\ phaseMap' = [phaseMap EXCEPT ![w] = "applied"]
  BY <1>1 DEF phaseMap, TypeOK
<1>3. CASE InsertProduct(w)
  <2>1. PICK r \in Rows : r = RowOf(req[w])
    BY <1>3, RowType DEF InsertProduct
  <2>2. Store!Add(w, r)
    BY <1>2, <1>3, <2>1 DEF InsertProduct, Store!Add, Store!WithRow, phaseMap
  <2> QED
    BY <2>2 DEF Store!Next
<1>4. CASE UpdateProduct(w)
  <2>1. PICK r \in Rows : r = RowOf(req[w])
    BY <1>4, RowType DEF UpdateProduct
  <2>2. PICK i \in Store!Ids \cup {0} : i = req[w].id
    BY <1>4 DEF UpdateProduct, TypeOK, Submissions, Null, Blank, Ids, Store!Ids
  <2>3. /\ nextId' = nextId
        /\ products' = [j \in DOMAIN products |->
                           IF j = i THEN r ELSE products[j]]
    BY <1>4, <2>1, <2>2 DEF UpdateProduct
  <2>4. products' = IF i \in DOMAIN products THEN Store!WithRow(i, r)
                                            ELSE products
    <3>1. CASE i \in DOMAIN products
      <4>1. DOMAIN products \cup {i} = DOMAIN products
        BY <3>1
      <4> QED
        BY <2>3, <3>1, <4>1 DEF Store!WithRow
    <3>2. CASE i \notin DOMAIN products
      <4>1. products' = [j \in DOMAIN products |-> products[j]]
        BY <2>3, <3>2
      <4> QED
        BY <3>2, <4>1, TableIsFunction
    <3> QED
      BY <3>1, <3>2
  <2>5. Store!Change(w, i, r)
    BY <1>2, <2>3, <2>4 DEF Store!Change, phaseMap
  <2> QED
    BY <2>5 DEF Store!Next
<1>5. CASE DeleteProductById(w)
  <2>1. PICK i \in Store!Ids \cup {0} :
           DOMAIN products \ {req[w].id} = DOMAIN products \ {i}
    <3>1. CASE req[w].id = Null
      <4>1. DOMAIN products \ {req[w].id} = DOMAIN products \ {0}
        BY <3>1, TableType DEF Ids, Null
      <4> QED
        BY <4>1
    <3>2. CASE req[w].id # Null
      BY <3>2 DEF TypeOK, Submissions, Ids, Store!Ids, Blank
    <3> QED
      BY <3>1, <3>2
  <2>2. Store!Remove(w, i)
    BY <1>2, <1>5, <2>1
       DEF DeleteProductById, Store!Remove, Store!WithoutRow, phaseMap
  <2> QED
    BY <2>2 DEF Store!Next
<1> QED
  BY <1>3, <1>4, <1>5

\* Any other step asks, closes or leaves the abstract state alone.
LEMMA OtherRefines ==
  ASSUME CatalogInv, NEW w \in Workers,
         \/ \E q \in Submissions : Submit(w, q)
         \/ Refuse(w) \/ Admit(w) \/ Show(w) \/ Fail(w)
         \/ ReadProductsByCategoryId(w) \/ ReadProduct(w) \/ ReadProductStore(w)
  PROVE  Store!Next \/ UNCHANGED <<products, nextId, phaseMap>>
<1> USE DEF CatalogInv
<1>0. UNCHANGED <<products, nextId>>
  BY DEF Submit, Refuse, Admit, Show, Fail, Read, ReadProductsByCategoryId,
         ReadProduct, ReadProductStore
<1>1. ASSUME NEW q \in Submissions, Submit(w, q)
      PROVE  Store!Ask(w)
  <2>1. phaseMap[w] = "free" /\ phaseMap' = [phaseMap EXCEPT ![w] = "asked"]
    BY <1>1 DEF Submit, phaseMap, TypeOK
  <2> QED
    BY <1>0, <2>1 DEF Store!Ask, phaseMap
<1>2. ASSUME Refuse(w) \/ Show(w) \/ Fail(w)
      PROVE  Store!Close(w)
  <2>1. pc[w] # "idle" /\ Leave(w)
    BY <1>2 DEF Refuse, Show, Fail
  <2>2. phaseMap[w] # "free" /\ phaseMap' = [phaseMap EXCEPT ![w] = "free"]
    BY <2>1 DEF Leave, phaseMap, TypeOK
  <2> QED
    BY <1>0, <2>2 DEF Store!Close, phaseMap
<1>3. ASSUME \/ Admit(w) \/ ReadProductsByCategoryId(w)
             \/ ReadProduct(w) \/ ReadProductStore(w)
      PROVE  phaseMap' = phaseMap
  <2>1. req' = req
    BY <1>3 DEF Admit, Read, ReadProductsByCategoryId, ReadProduct,
                ReadProductStore
  <2>2. \/ /\ pc[w] = "asked" /\ pc' = [pc EXCEPT ![w] = "admitted"]
        \/ /\ pc[w] = "admitted" /\ req[w].kind \notin {"write", "delete"}
           /\ \E to \in {"second", "done"} : pc' = [pc EXCEPT ![w] = to]
        \/ /\ pc[w] = "second" /\ pc' = [pc EXCEPT ![w] = "done"]
    BY <1>3 DEF Admit, Read, ReadProductsByCategoryId, ReadProduct,
                ReadProductStore
  <2> QED
    BY <2>1, <2>2 DEF phaseMap, TypeOK
<1> QED
  BY <1>0, <1>1, <1>2, <1>3 DEF Store!Next

\* Every step of the scripts is a step of the abstract catalogue or none.
LEMMA NextRefines == CatalogInv /\ [Next]_vars => [Store!Next]_(Store!vars)
<1> SUFFICES ASSUME CatalogInv, [Next]_vars
             PROVE  Store!Next \/ UNCHANGED <<products, nextId, phaseMap>>
  BY DEF Store!vars, phaseMap
<1>1. ASSUME NEW w \in Workers, Statement(w)
      PROVE  Store!Next \/ UNCHANGED <<products, nextId, phaseMap>>
  BY <1>1, WriteRefines, OtherRefines DEF Statement
<1>2. ASSUME NEW w \in Workers,
             \/ \E q \in Submissions : Submit(w, q)
             \/ Refuse(w) \/ Admit(w) \/ Show(w) \/ Fail(w)
      PROVE  Store!Next \/ UNCHANGED <<products, nextId, phaseMap>>
  BY <1>2, OtherRefines
<1>3. CASE Quiet \/ UNCHANGED vars
  BY <1>3 DEF Quiet, vars, phaseMap
<1> QED
  BY <1>1, <1>2, <1>3 DEF Next

\* The scripts start as the abstract catalogue does.
LEMMA InitRefines == Init => Store!Init
<1> SUFFICES ASSUME Init PROVE Store!Init
  OBVIOUS
<1>1. nextId \in 1 .. MaxId + 1
  BY CatalogAssumption DEF Init
<1>2. \E S \in SUBSET (1 .. nextId - 1) : products \in [S -> Rows]
  BY CatalogAssumption DEF Init
<1>3. phaseMap = [w \in Workers |-> "free"]
  BY DEF Init, phaseMap
<1> QED
  BY <1>1, <1>2, <1>3 DEF Store!Init, phaseMap

\* Catalog implements CatalogStore: whatever the interleaving of statements,
\* failures and refusals, each request takes effect at most once, in one step
\* between its arrival and its answer.
THEOREM Refinement == Spec => ImplementsStore
<1> QED
  BY InitRefines, NextRefines, CatalogInvariant, PTL
     DEF Spec, ImplementsStore, Store!Spec
=============================================================================
