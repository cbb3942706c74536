----------------------------- MODULE MCCheckout -----------------------------
(***************************************************************************)
(* Small instances of Checkout: the requests of one user, two products.    *)
(***************************************************************************)
EXTENDS Checkout, TLC

CONSTANTS ann,               \* a user
          pen, cup,          \* products
          r1, r2, r3         \* requests

\* Every request is ann's.
MCUserOf == [r \in Request |-> ann]

\* Products are alike, and so are the requests.
MCSymmetry ==
  {f @@ g : f \in Permutations({pen, cup}), g \in Permutations({r1, r2, r3})}
=============================================================================
