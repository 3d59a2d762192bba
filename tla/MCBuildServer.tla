--------------------------- MODULE MCBuildServer ---------------------------
(***************************************************************************)
(* BuildServer for TLC.  Clients are interchangeable: no operator tells    *)
(* one from another, so the safety runs may permute them.                  *)
(***************************************************************************)
EXTENDS BuildServer, TLC

ClientSymmetry == Permutations(Clients)

===========================================================================
