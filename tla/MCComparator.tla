----------------------------- MODULE MCComparator -----------------------------
(***************************************************************************)
(* Instances of CoVerification for TLC: a variable of two bits, each in a  *)
(* block of its own.                                                       *)
(***************************************************************************)
EXTENDS CoVerification

MCBlocks == {"low", "high"}

MCvalue_of == [v \in [MCBlocks -> {0, 1}] |-> v["low"] + 2 * v["high"]]
=============================================================================
