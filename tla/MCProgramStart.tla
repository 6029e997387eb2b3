---------------------------- MODULE MCProgramStart ----------------------------
(***************************************************************************)
(* Every program, with a configuration file and an environment that each   *)
(* differ in at most one key from the one that sets all keys and from the  *)
(* empty one.                                                              *)
(***************************************************************************)
EXTENDS ProgramStart

Complete == [k \in Key |-> Good]

\* The sources that differ from f in at most one key.
Near(f) == {g \in {[f EXCEPT ![k] = v] : k \in Key,
                   v \in {Absent, Zero, Good, Wrong, Garbled, ToFile}} : g \in Source}

MCFiles == Near(Complete) \cup {Unreadable}
MCEnvironments == Near(Nothing)
===============================================================================
