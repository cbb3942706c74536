------------------------------ MODULE MCAccess ------------------------------
(***************************************************************************)
(* Small instances of Access: requests are interchangeable.                *)
(***************************************************************************)
EXTENDS Access, TLC

CONSTANTS ann,                    \* a person
          q1, q2, q3, q4, q5,     \* requests
          write, all              \* permissions

Symmetric == Permutations(Request)
=============================================================================
