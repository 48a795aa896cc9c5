------------------------------ MODULE MCTGSlot ------------------------------
(***************************************************************************)
(* Instances of TGSlot.  MaxInc = 2: an incarnation, its successor, and    *)
(* the exhausted one (Init also starts at the last).  MaxLeases = 2: the   *)
(* owner's lease and one borrower, so that the second borrower saturates.  *)
(***************************************************************************)
EXTENDS TGSlot
=============================================================================
