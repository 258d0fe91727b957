---------------------------- MODULE MCReorderable ----------------------------
(***************************************************************************)
(* The reordering encoder on the documents of MCAbi.                       *)
(***************************************************************************)
EXTENDS Reorderable, MCAbi
=============================================================================
