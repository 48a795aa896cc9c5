---------------------------- MODULE MCSafepoint ----------------------------
(***************************************************************************)
(* Instances of Safepoint.  Threads are numbers, as tg_list has an order,  *)
(* so there is no symmetry; the kinds of request are split over the runs.  *)
(***************************************************************************)
EXTENDS Safepoint
=============================================================================
