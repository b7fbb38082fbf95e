-------------------------- MODULE MCSmallPrograms --------------------------
(***************************************************************************)
(* A tree for fs-monitor: a root with a directory that has a subdirectory, *)
(* and a second directory.                                                 *)
(***************************************************************************)
EXTENDS SmallPrograms

Tree == [d \in {"a", "b", "sub"} |-> IF d = "sub" THEN "a" ELSE "root"]
=============================================================================
