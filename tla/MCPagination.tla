---------------------------- MODULE MCPagination ----------------------------
(***************************************************************************)
(* Four rows within a few ticks of the clock, and pages of one or two.     *)
(***************************************************************************)
EXTENDS Pagination

MCAsked == {-1, 0, 1, 5}
=============================================================================
