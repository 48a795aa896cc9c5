---------------------------- MODULE MCTGRegistry ----------------------------
(***************************************************************************)
(* Instances of TGRegistry.  Three threads, so that a claimer, a borrower  *)
(* and a reclaim helper meet; one body, so that a reused slot publishes    *)
(* the same address again (the case lj_tgregistry_try_clear guards).       *)
(***************************************************************************)
EXTENDS TGRegistry, TLC

ThreadSymmetry == Permutations(Threads)
=============================================================================
