----------------------------- MODULE MCBinToJson -----------------------------
(***************************************************************************)
(* The decoder on every short string of bytes, for the types of MCAbi.     *)
(***************************************************************************)
EXTENDS BinToJson, MCAbi

\* The ABI without the struct whose extension is not its last field.
MCTrailing == MCType \ {"gap"}
MCTrailingSer == [t \in MCTrailing |-> MCSer[t]]
MCTrailingOf == [t \in MCTrailing |-> MCOf[t]]
MCTrailingFields == [t \in MCTrailing |-> MCFields[t]]
ASSUME TrailAssumption == ExtensionsTrail
=============================================================================
