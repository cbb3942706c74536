--------------------------- MODULE MCProductCache ---------------------------
(***************************************************************************)
(* Two places of readers and two of writers, of one product with two       *)
(* prices and two stock levels.                                            *)
(***************************************************************************)
EXTENDS ProductCache

CONSTANTS g1, g2,  \* get_product
          w1, w2   \* update_product, archive_product
=============================================================================
