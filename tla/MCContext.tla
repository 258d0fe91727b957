----------------------------- MODULE MCContext -----------------------------
(***************************************************************************)
(* Two contracts, two good abis that list different items, and an abi for  *)
(* each way to fail.                                                       *)
(***************************************************************************)
EXTENDS Context, TLC

MCAbi == {"good", "other", "empty", "headless", "truncated", "foreign", "bent", "cyclic"}
MCFaults == [a \in MCAbi |->
    CASE a \in {"good", "other"} -> {}
      [] a = "empty" -> {"empty", "headless", "malformed"}
      [] a = "headless" -> {"headless", "malformed"}
      [] a = "truncated" -> {"malformed"}
      [] a = "foreign" -> {"version"}
      [] a = "bent" -> {"malformed", "version"}
      [] a = "cyclic" -> {"uncompilable"}]
MCListed == [a \in MCAbi |->
    CASE a = "good" -> {"action"} [] a = "other" -> {"action", "table"} [] OTHER -> {}]
Symmetry == Permutations(Contract)
=============================================================================
