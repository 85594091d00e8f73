---------------------------- MODULE CatalogStore ----------------------------
(***************************************************************************)
(* What the product catalogue promises, without its scripts: a table of    *)
(* products, and requests each of which takes effect at most once, in one  *)
(* step between being asked and being closed.  A new product gets an id    *)
(* that no product ever had; a change never brings a deleted product back. *)
(***************************************************************************)
EXTENDS Integers

CONSTANTS
    Workers,    \* who asks
    Rows,       \* what is kept of a product
    MaxId       \* bound: the last product id

VARIABLES
    products,   \* the table, a function from the ids in use
    nextId,     \* the id of the next new product
    phase       \* of each request: "free", "asked" or "applied"

vars == <<products, nextId, phase>>

Ids == 1 .. MaxId

\* The table with row r under id i, and without id i.
WithRow(i, r) == [j \in DOMAIN products \cup {i} |->
                     IF j = i THEN r ELSE products[j]]
WithoutRow(i) == [j \in DOMAIN products \ {i} |-> products[j]]

Init == /\ nextId \in 1 .. MaxId + 1
        /\ \E S \in SUBSET (1 .. nextId - 1) : products \in [S -> Rows]
        /\ phase = [w \in Workers |-> "free"]

Ask(w) == /\ phase[w] = "free"
          /\ phase' = [phase EXCEPT ![w] = "asked"]
          /\ UNCHANGED <<products, nextId>>

Add(w, r) == /\ phase[w] = "asked"
             /\ nextId <= MaxId
             /\ products' = WithRow(nextId, r)
             /\ nextId' = nextId + 1
             /\ phase' = [phase EXCEPT ![w] = "applied"]

\* A change of a product that is not there is no change.
Change(w, i, r) == /\ phase[w] = "asked"
                   /\ products' = IF i \in DOMAIN products
                                  THEN WithRow(i, r) ELSE products
                   /\ phase' = [phase EXCEPT ![w] = "applied"]
                   /\ UNCHANGED nextId

Remove(w, i) == /\ phase[w] = "asked"
                /\ products' = WithoutRow(i)
                /\ phase' = [phase EXCEPT ![w] = "applied"]
                /\ UNCHANGED nextId

\* The request is over, whether it changed anything or not.
Close(w) == /\ phase[w] # "free"
            /\ phase' = [phase EXCEPT ![w] = "free"]
            /\ UNCHANGED <<products, nextId>>

Next == \E w \in Workers :
            \/ Ask(w)
            \/ \E r \in Rows : Add(w, r)
            \/ \E i \in Ids \cup {0}, r \in Rows : Change(w, i, r)
            \/ \E i \in Ids \cup {0} : Remove(w, i)
            \/ Close(w)

Spec == Init /\ [][Next]_vars
=============================================================================
