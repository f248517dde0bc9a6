----------------------------- MODULE MCResultCache -----------------------------
(***************************************************************************)
(* Instance of ResultCache for TLC: three keys compete for two places, so  *)
(* eviction, purging and the two racy reads all occur.                     *)
(***************************************************************************)
EXTENDS ResultCache, TLC

Symmetry == Permutations(Keys) \cup Permutations(Values) \cup Permutations(Callers)
===============================================================================
