------------------------------- MODULE MCClient -------------------------------
(* A small instance of Client for TLC. *)
EXTENDS Client, TLC

CONSTANTS d1, d2, s1, s2, a1, a2, k1, k2, k3, g1, g2, p1, p2, p3

\* One service at two instances, in either order or alone.
MCListing == {<<a1, a2>>, <<a2>>}

\* Lists that grow, shrink, change their order and run empty.
MCPeerListing == {<<>>, <<p1, p2, p3>>, <<p2, p1>>, <<p3>>}

MCSymmetry ==
  Permutations(Dialer) \cup Permutations(Service) \cup Permutations(Key)
    \cup Permutations(Goroutine)
===============================================================================
