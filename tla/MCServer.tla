------------------------------- MODULE MCServer -------------------------------
(* A small instance of Server for TLC. *)
EXTENDS Server

CONSTANTS t1, t2, t3, a, b, w1, w2, u1, u2, b1, b2, b3, q1, q2, svc, k1, k2

\* Tasks alternate between the two types.
MCTypeOf == [t \in Task |-> IF t \in {t1, t3} THEN a ELSE b]
===============================================================================
