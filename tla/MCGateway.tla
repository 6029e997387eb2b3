------------------------------- MODULE MCGateway -------------------------------
(* A small instance of Gateway for TLC. *)
EXTENDS Gateway

CONSTANTS s1, s2, p1, p2, q1, q2

\* What the manager does for one service it does for each.
UserOnly == <<"user.UserService">>
===============================================================================
