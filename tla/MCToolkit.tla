------------------------------ MODULE MCToolkit ------------------------------
(* A small instance of Toolkit for TLC. *)
EXTENDS Toolkit

CONSTANTS c1, c2, c3, s1, g1, g2, k1, k2, v1, v2, r1, r2

\* A version before the current one and one after it, of another major version.
MCVersion == {<<1, 1, 0>>, <<1, 2, 0>>, <<2, 0, 1>>}
MCCurrent == <<1, 2, 0>>
===============================================================================
