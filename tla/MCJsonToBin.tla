----------------------------- MODULE MCJsonToBin -----------------------------
(***************************************************************************)
(* The in-order encoder on the documents of MCAbi, with a stack of three   *)
(* entries instead of 128.                                                 *)
(***************************************************************************)
EXTENDS JsonToBinInv, MCAbi
=============================================================================
