---- MODULE MCStateOwner ----
(* Two mutators claim L, one of them twice; two workers carry the collector. *)
EXTENDS StateOwner, TLC

CONSTANTS m1, m2, w1, w2
MCMutators == {m1, m2}
MCWorkers == {w1, w2}
MCMaxRelease == m1 :> 2 @@ m2 :> 1
====
