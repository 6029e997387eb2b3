----------------------------- MODULE MCClientDial -----------------------------
(* A small instance of ClientDial for TLC. *)
EXTENDS ClientDial

CONSTANTS d1, d2, s1, s2, a1, a2

\* The registry does not change.
MCStableListing == {<<a1, a2>>}
===============================================================================
