---------------------------- MODULE TGSlotToken ----------------------------
(***************************************************************************)
(* The 128-bit lifecycle token of a TG slot (lj_tgslot.h): one CX16 word   *)
(* that holds the incarnation, the lease count and the state, and the      *)
(* rules by which one value may replace another.  Constant-level: the      *)
(* modules that run the protocol (TGSlot, TGRegistry) extend it.           *)
(*                                                                         *)
(* MaxInc stands for UINT64_MAX, the incarnation that cannot be followed;  *)
(* MaxLeases for LJ_TGSLOT_MAX_LEASES, where the lease count saturates.    *)
(***************************************************************************)
EXTENDS Naturals

CONSTANTS MaxInc, MaxLeases

ASSUME TokenAssumption == MaxInc \in Nat \ {0} /\ MaxLeases \in Nat \ {0}

States == {"EMPTY", "ATTACHING", "LIVE", "DETACHING", "RETIRED",
           "RECLAIMING", "PINNED", "EXHAUSTED"}

Incarnations == 0..MaxInc

(* Every bit pattern the word can hold. *)
Token == [inc: Incarnations, leases: 0..MaxLeases, state: States]

EmptyToken(inc) == [inc |-> inc, leases |-> 0, state |-> "EMPTY"]

(* lj_tgslot_borrow_state: the states that admit a new lease. *)
BorrowStates == {"ATTACHING", "LIVE", "DETACHING"}

(* lj_tgslot_components_valid. *)
ComponentsValid(t) ==
  /\ t.leases <= MaxLeases
  /\ t.state \notin {"EMPTY", "EXHAUSTED"} => t.inc # 0
  /\ t.state \in {"EMPTY", "RECLAIMING", "EXHAUSTED"} => t.leases = 0
  /\ t.state \in BorrowStates \cup {"RETIRED"} => t.leases # 0
  /\ t.state = "EXHAUSTED" => t.inc = MaxInc

(* lj_tgslot_state_edge_valid: PINNED and EXHAUSTED are absorbing. *)
StateEdges ==
  {<<"EMPTY", "ATTACHING">>, <<"EMPTY", "EXHAUSTED">>,
   <<"ATTACHING", "LIVE">>, <<"ATTACHING", "RETIRED">>,
   <<"LIVE", "DETACHING">>, <<"DETACHING", "RETIRED">>,
   <<"RETIRED", "RECLAIMING">>, <<"RECLAIMING", "EMPTY">>}
  \cup {<<s, "PINNED">> : s \in BorrowStates \cup {"RETIRED"}}

(* The count-only half of lj_tgslot_replacement_valid. *)
LeaseChangeValid(s, t) ==
  /\ s.inc = t.inc
  /\ \/ t.leases = s.leases + 1 /\ s.state \in BorrowStates
     \/ /\ s.leases = t.leases + 1
        /\ \/ s.state = "PINNED"
           \/ s.state \in BorrowStates \cup {"RETIRED"} /\ s.leases > 1

(* The state-changing half: which incarnation and count each edge carries. *)
StateChangeValid(s, t) ==
  /\ <<s.state, t.state>> \in StateEdges
  /\ CASE s.state = "EMPTY" /\ t.state = "EXHAUSTED" ->
            s.inc = MaxInc /\ t.inc = s.inc /\ t.leases = s.leases
       [] s.state = "EMPTY" /\ t.state # "EXHAUSTED" ->
            s.inc # MaxInc /\ t.inc = s.inc + 1 /\ t.leases = 1
       [] t.state = "RECLAIMING" ->
            t.inc = s.inc /\ s.leases = 1 /\ t.leases = 0
       [] OTHER -> t.inc = s.inc /\ t.leases = s.leases

(* lj_tgslot_replacement_valid: what lj_tgslot_try_replace lets a CAS do. *)
ReplacementValid(s, t) ==
  /\ ComponentsValid(s)
  /\ ComponentsValid(t)
  /\ IF s.state = t.state THEN LeaseChangeValid(s, t)
                          ELSE StateChangeValid(s, t)

(***************************************************************************)
(* The calls on a keyed slot.  Admits(op, k, s) is the outcome of the      *)
(* early returns of the call when its snapshot is s and its key names      *)
(* incarnation k: TRUE when the call goes on to its exact CAS.  Every      *)
(* other outcome (STALE, DENIED, BUSY, PINNED, EXHAUSTED, INVALID) returns *)
(* to the caller with the slot untouched.  Target(op, s) is the word the   *)
(* CAS installs.                                                           *)
(***************************************************************************)
EdgeOps == {"publish", "detach", "retire", "abort", "finish"}

(* The <<from, to>> that each call passes to lj_tgslot_try_keyed_edge. *)
KeyedEdge(op) ==
  CASE op = "publish" -> <<"ATTACHING", "LIVE">>
    [] op = "detach"  -> <<"LIVE", "DETACHING">>
    [] op = "retire"  -> <<"DETACHING", "RETIRED">>
    [] op = "abort"   -> <<"ATTACHING", "RETIRED">>
    [] op = "finish"  -> <<"RECLAIMING", "EMPTY">>

Ops == EdgeOps \cup {"claim", "reclaim", "borrow", "release"}

(* Mutant: a release is refused once admission has closed. *)
AdmitsNoLateRelease(op, k, s) ==
  /\ ComponentsValid(s)
  /\ s.inc = k \/ op = "claim"
  /\ CASE op = "claim"   -> s.state = "EMPTY"
       [] op = "reclaim" -> s.state = "RETIRED" /\ s.leases = 1
       [] op = "borrow"  -> s.state \in BorrowStates
       [] op = "release" -> s.state \in BorrowStates \cup {"PINNED"} /\ s.leases > 1
       [] OTHER          -> s.state = KeyedEdge(op)[1]

Admits(op, k, s) ==
  /\ ComponentsValid(s)
  /\ CASE op = "claim"   -> s.state = "EMPTY"
       [] op = "reclaim" -> s.inc = k /\ s.state = "RETIRED" /\ s.leases = 1
       [] op = "borrow"  -> s.inc = k /\ s.state \in BorrowStates
       [] op = "release" -> /\ s.inc = k
                            /\ s.state \in BorrowStates \cup {"RETIRED", "PINNED"}
                            /\ s.leases > IF s.state = "PINNED" THEN 0 ELSE 1
       [] OTHER          -> /\ s.inc = k
                            /\ s.state = KeyedEdge(op)[1]
                            /\ op = "finish" => s.leases = 0

Pinned(s) == [s EXCEPT !.state = "PINNED"]

Target(op, s) ==
  CASE op = "claim" /\ s.inc = MaxInc -> [s EXCEPT !.state = "EXHAUSTED"]
    [] op = "claim" /\ s.inc # MaxInc ->
         [inc |-> s.inc + 1, leases |-> 1, state |-> "ATTACHING"]
    [] op = "reclaim" -> [inc |-> s.inc, leases |-> 0, state |-> "RECLAIMING"]
    [] op = "borrow" /\ s.leases = MaxLeases -> Pinned(s)
    [] op = "borrow" /\ s.leases # MaxLeases -> [s EXCEPT !.leases = @ + 1]
    [] op = "release" -> [s EXCEPT !.leases = @ - 1]
    [] OTHER -> [s EXCEPT !.state = KeyedEdge(op)[2]]
=============================================================================
