-------------------------- MODULE MCLoadGenerator --------------------------
(***************************************************************************)
(* Values for the constants of LoadGenerator.                              *)
(***************************************************************************)
EXTENDS LoadGenerator

\* Bounds below 1, in either order, within and beyond files of 0 to 3 bytes.
ClampConfigs ==
  [MinTextSize : {0, 2, 4}, MaxTextSize : {1, 3}, FileSize : {0, 2, 3}]
=============================================================================
