---------------------------- MODULE MCAbiCompile ----------------------------
(***************************************************************************)
(* The ABI compiler on the definitions of MCAbis.                          *)
(***************************************************************************)
EXTENDS AbiCompileInv, MCAbis
=============================================================================
