------------------------------ MODULE MCRequests ------------------------------
(* A small instance of Requests for TLC: the integers end at 15. *)
EXTENDS Requests, TLC

CONSTANTS r1, r2, r3, n1, n2, c1, c2, Done

\* A page whose offset overflows, with the default size; the first page, with a
\* size that is too large for two of the three lists.
MCPages == {<<9, 0>>, <<0, 5>>}

Symmetry == Permutations(Req) \cup Permutations(Name) \cup Permutations(Customer)
===============================================================================
