------------------------- MODULE TGSlotTokenProofs -------------------------
(* Lemmas about the operators of TGSlotToken, for any bounds: what each     *)
(* call installs, and that lj_tgslot_try_replace lets it.                   *)
EXTENDS TGSlotToken, TLAPS

(* What each operation installs, given that its snapshot was admitted.     *)
LEMMA TargetOf ==
  ASSUME NEW op \in Ops, NEW k \in Incarnations, NEW s \in Token,
         Admits(op, k, s)
  PROVE  LET t == Target(op, s) IN
         /\ t \in Token
         /\ op = "claim" => /\ s.state = "EMPTY" /\ s.leases = 0
                            /\ \/ /\ t.state = "EXHAUSTED" /\ s.inc = MaxInc
                                  /\ t.inc = s.inc /\ t.leases = 0
                               \/ /\ t.state = "ATTACHING" /\ s.inc # MaxInc
                                  /\ t.inc = s.inc + 1 /\ t.leases = 1
         /\ op # "claim" => s.inc = k /\ t.inc = k
         /\ op = "reclaim" => /\ s.state = "RETIRED" /\ s.leases = 1
                              /\ t.state = "RECLAIMING" /\ t.leases = 0
         /\ op = "borrow" => /\ s.state \in BorrowStates
                             /\ \/ /\ t.state = "PINNED" /\ s.leases = MaxLeases
                                   /\ t.leases = s.leases
                                \/ t.state = s.state /\ t.leases = s.leases + 1
         /\ op = "release" => /\ s.state \in BorrowStates \cup {"RETIRED", "PINNED"}
                              /\ t.state = s.state /\ s.leases = t.leases + 1
         /\ op \in EdgeOps => /\ s.state = KeyedEdge(op)[1]
                              /\ t.state = KeyedEdge(op)[2]
                              /\ t.leases = s.leases
<1> USE TokenAssumption
    DEF Ops, EdgeOps, Admits, Target, Token, Incarnations, States, KeyedEdge
<1>1. CASE op = "claim"
  BY <1>1 DEF ComponentsValid, BorrowStates
<1>2. CASE op = "reclaim"
  BY <1>2
<1>3. CASE op = "borrow"
  BY <1>3 DEF BorrowStates, Pinned
<1>4. CASE op = "release"
  BY <1>4 DEF BorrowStates
<1>5. CASE op \in EdgeOps
  BY <1>5
<1> QED BY <1>1, <1>2, <1>3, <1>4, <1>5

(* The edge of each keyed call, with the count it carries over. *)
LEMMA EdgeOf ==
  ASSUME NEW op \in EdgeOps, NEW k \in Incarnations, NEW s \in Token,
         Admits(op, k, s)
  PROVE  LET t == Target(op, s) IN
         /\ t \in Token /\ s.inc = k /\ t.inc = k /\ t.leases = s.leases
         /\ op = "publish" => s.state = "ATTACHING" /\ t.state = "LIVE"
         /\ op = "detach" => s.state = "LIVE" /\ t.state = "DETACHING"
         /\ op = "retire" => s.state = "DETACHING" /\ t.state = "RETIRED"
         /\ op = "abort" => s.state = "ATTACHING" /\ t.state = "RETIRED"
         /\ op = "finish" => s.state = "RECLAIMING" /\ t.state = "EMPTY"
BY TargetOf DEF EdgeOps, Ops, KeyedEdge

(* lj_tgslot_replacement_valid never refuses a call that its own early     *)
(* returns let through: LJ_TGSLOT_INVALID is not an outcome of a legal CAS. *)
THEOREM AdmittedIsValid ==
  ASSUME NEW op \in Ops, NEW k \in Incarnations, NEW s \in Token,
         Admits(op, k, s)
  PROVE  ReplacementValid(s, Target(op, s))
<1> DEFINE t == Target(op, s)
<1> USE TokenAssumption DEF Token, Incarnations, ReplacementValid,
       ComponentsValid, LeaseChangeValid, StateChangeValid, StateEdges, BorrowStates
<1>0. ComponentsValid(s) /\ t \in Token
  BY TargetOf DEF Admits
<1>1. CASE op = "claim"
  BY <1>0, <1>1, TargetOf
<1>2. CASE op = "reclaim"
  BY <1>0, <1>2, TargetOf
<1>3. CASE op = "borrow"
  BY <1>0, <1>3, TargetOf
<1>4. CASE op = "release"
  <2>1. s.state = "PINNED" \/ s.leases > 1
    BY <1>4 DEF Admits
  <2> QED BY <1>0, <1>4, <2>1, TargetOf
<1>5. CASE op \in EdgeOps
  <2>1. op = "finish" => s.leases = 0
    BY <1>5 DEF Admits, EdgeOps
  <2> QED BY <1>0, <1>5, <2>1, TargetOf DEF EdgeOps, KeyedEdge
<1> QED BY <1>1, <1>2, <1>3, <1>4, <1>5 DEF Ops

(* What a successful call leaves is a value the word may hold. *)
LEMMA TargetValid ==
  ASSUME NEW op \in Ops, NEW k \in Incarnations, NEW s \in Token,
         Admits(op, k, s)
  PROVE  ComponentsValid(s) /\ ComponentsValid(Target(op, s))
BY AdmittedIsValid DEF ReplacementValid

(* The reclaimer takes the last count of a retired slot. *)
LEMMA ReclaimOf ==
  ASSUME NEW k \in Incarnations, NEW s \in Token, Admits("reclaim", k, s)
  PROVE  LET t == Target("reclaim", s) IN
         /\ t \in Token /\ ComponentsValid(t) /\ s.inc = k /\ t.inc = k
         /\ s.state = "RETIRED" /\ s.leases = 1 /\ t.state = "RECLAIMING"
<1>1. "reclaim" \in Ops /\ "reclaim" # "claim"
  BY DEF Ops
<1>2. ComponentsValid(Target("reclaim", s))
  BY <1>1, TargetValid DEF Admits
<1>3. QED
  BY <1>1, <1>2, TargetOf
=============================================================================
