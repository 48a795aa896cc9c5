---------------------------- MODULE TGLifecycle ----------------------------
(***************************************************************************)
(* What a TG slot promises (lj_tgslot.h, lj_tgregistry.h), without words,  *)
(* counts or retries.  A slot hosts one body after another; each is known  *)
(* by its incarnation.  Clients hold named leases.  The body of an         *)
(* incarnation may be destroyed only after admission closed (RETIRED) and  *)
(* every lease on it was returned; a key of an old incarnation never       *)
(* leases a new one.  When too many leases are out at once the slot is     *)
(* pinned: it is never reused, and the leases on it can still be returned. *)
(***************************************************************************)
EXTENDS Naturals

CONSTANTS Clients,
          MaxInc,
          Crowds    \* the sets of clients whose leases saturate the slot

VARIABLES inc, phase, holders
vars == <<inc, phase, holders>>

Open == {"ATTACHING", "LIVE", "DETACHING"}

Init == inc \in 0..MaxInc /\ phase = "EMPTY" /\ holders = {}

Move(from, to) == phase = from /\ phase' = to /\ UNCHANGED <<inc, holders>>

Claim ==
  /\ phase = "EMPTY" /\ inc < MaxInc
  /\ inc' = inc + 1 /\ phase' = "ATTACHING"
  /\ UNCHANGED holders

(* The incarnation number can grow no further: the slot is closed for good. *)
Exhaust == inc = MaxInc /\ Move("EMPTY", "EXHAUSTED")

Publish == Move("ATTACHING", "LIVE")
Detach  == Move("LIVE", "DETACHING")
Retire  == Move("DETACHING", "RETIRED") \/ Move("ATTACHING", "RETIRED")

Borrow(c) ==
  /\ phase \in Open /\ c \notin holders
  /\ holders' = holders \cup {c}
  /\ UNCHANGED <<inc, phase>>

Release(c) ==
  /\ c \in holders
  /\ holders' = holders \ {c}
  /\ UNCHANGED <<inc, phase>>

Saturate ==
  /\ phase \in Open /\ holders \in Crowds
  /\ phase' = "PINNED" /\ UNCHANGED <<inc, holders>>

Reclaim == holders = {} /\ Move("RETIRED", "RECLAIMING")
Finish  == Move("RECLAIMING", "EMPTY")

Next ==
  \/ Claim \/ Exhaust \/ Publish \/ Detach \/ Retire \/ Saturate
  \/ Reclaim \/ Finish
  \/ \E c \in Clients : Borrow(c) \/ Release(c)

Spec == Init /\ [][Next]_vars
=============================================================================
