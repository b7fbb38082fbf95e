--------------------------- MODULE MCDocPipeline ---------------------------
(***************************************************************************)
(* Values for the constants of DocPipeline.                                *)
(***************************************************************************)
EXTENDS DocPipeline

\* A file of two bytes and requests for all of it: the requests differ in
\* their ID only.
WholeFile == {[MinTextSize |-> 2, MaxTextSize |-> 2, FileSize |-> 2]}
=============================================================================
