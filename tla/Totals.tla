------------------------------- MODULE Totals -------------------------------
(***************************************************************************)
(* Sums over a finite set of holders.                                      *)
(*                                                                         *)
(* The contracts never compute the sum of a per-wallet or per-pool slot:   *)
(* their accounting rests on running counters that are meant to equal such *)
(* a sum.  The invariants compare the counter with the sum, so the sum     *)
(* needs a definition.  Total(f) counts the units <<d, i>> that f hands to *)
(* its holders d, one by one.  It is a cardinality, so the theorems about  *)
(* finite sets apply to it, and it has no recursive definition.            *)
(***************************************************************************)
EXTENDS Integers, FiniteSets

Units(f) == UNION { {d} \X (1..f[d]) : d \in DOMAIN f }

Total(f) == Cardinality(Units(f))
=============================================================================
