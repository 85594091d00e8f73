----------------------------- MODULE MCAccounts -----------------------------
(***************************************************************************)
(* Instances of Accounts: two spellings of one address and another         *)
(* address, passwords that the sanitising filter keeps and one that it     *)
(* changes, a short one that it makes long enough, and a number with a     *)
(* blank before it.                                                        *)
(***************************************************************************)
EXTENDS Accounts, TLC

Plain    == "graffix99"
Other    == "t-shirts4"
Special  == "graffix&99"
SpecialE == "graffix&amp;99"
Short    == "<<<"
ShortE   == "&lt;&lt;&lt;"
Tiny     == "tee"
Number   == "5035550123"
Padded   == " 5035550123"

MCTexts == {"", Plain, Other, Special, SpecialE, Short, ShortE, Tiny, Number,
            Padded}

MCEscape == [t \in MCTexts |-> CASE t = Special -> SpecialE
                                 [] t = Short   -> ShortE
                                 [] OTHER       -> t]
MCTrim   == [t \in MCTexts |-> IF t = Padded THEN Number ELSE t]
MCLong   == MCTexts \ {"", Short, Tiny}
MCKeys   == {"hash of " \o t : t \in MCTexts}
MCKey    == [t \in MCTexts |-> "hash of " \o t]

MCEmails      == {"ann@shop.com", "Ann@shop.com", "bob@shop.com", "bob"}
MCValidEmails == MCEmails \ {"bob"}
MCAddress     == [e \in MCEmails |-> IF e = "Ann@shop.com"
                                     THEN "ann@shop.com" ELSE e]

Register(e, p, c, n) == [kind |-> "register", email |-> e, password |-> p,
                         confirm |-> c, phone |-> n]
Login(e, p)          == [kind |-> "login", email |-> e, password |-> p]

MCRequests ==
    {Register(e, p, p, Number) : e \in {"ann@shop.com", "Ann@shop.com"},
                                 p \in {Plain, Other, Special, Short}}
    \cup {Register("bob", Plain, Plain, Number),
          Register("bob@shop.com", Tiny, Tiny, Number),
          Register("bob@shop.com", Plain, Other, Number),
          Register("bob@shop.com", Plain, Plain, Padded)}
    \cup {Login(e, p) : e \in {"ann@shop.com", "Ann@shop.com", "bob@shop.com"},
                        p \in {Plain, Special, Short}}

Symmetry == Permutations(Workers)
=============================================================================
