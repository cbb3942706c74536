----------------------------- MODULE MCSessions -----------------------------
(***************************************************************************)
(* Small instances of Sessions: requests are interchangeable, and so are   *)
(* people.                                                                 *)
(***************************************************************************)
EXTENDS Sessions, TLC

CONSTANTS ann, bob,               \* people
          q1, q2, q3, q4, q5      \* requests

Symmetric == Permutations(Request) \cup Permutations(User)
=============================================================================
