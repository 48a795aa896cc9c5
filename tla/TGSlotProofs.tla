---------------------------- MODULE TGSlotProofs ----------------------------
(* Proofs about TGSlot, for any finite set of clients and any bounds. *)
EXTENDS TGSlot, TGSlotTokenProofs, FiniteSetTheorems, TLAPS

-----------------------------------------------------------------------------
(* The initial states satisfy the inductive invariant. *)
LEMMA InitIInv == Init => IInv
<1> SUFFICES ASSUME Init PROVE IInv
  OBVIOUS
<1>1. PICK inc \in Incarnations : token = EmptyToken(inc)
  BY DEF Init
<1>2. EmptyToken(inc) \in Token /\ EmptyToken(0) \in Token
  BY TokenAssumption DEF EmptyToken, Token, States, Incarnations
<1>3. TypeOK
  BY <1>1, <1>2, TokenAssumption DEF Init, TypeOK, Incarnations
<1>4. LeaseHolds
  <2>1. Borrowers = {}
    BY DEF Borrowers, Init
  <2> QED BY <1>1, <2>1 DEF LeaseHolds, EmptyToken, BorrowStates
<1>5. OneOwner /\ \A c \in Clients : CallInv(c)
  BY DEF Init, OneOwner, CallInv, NoCall, OwnerOps
<1> QED BY <1>3, <1>4, <1>5 DEF IInv

(* A step that leaves the token and the handles alone, and every client but *)
(* c, keeps the invariant when c's own part of it is kept.                  *)
LEMMA LocalStep ==
  ASSUME IInv, NEW c \in Clients, UNCHANGED <<token, owned, leased>>, TypeOK',
         CallInv(c)', \A d \in Clients \ {c} : CallInv(d)'
  PROVE  IInv'
<1>1. LeaseHolds' /\ OneOwner'
  BY DEF IInv, LeaseHolds, OneOwner, Borrowers
<1> QED BY <1>1 DEF IInv

LEMMA CallStep == ASSUME IInv, NEW c \in Clients, NEW op \in Ops, Call(c, op)
                  PROVE  IInv'
<1> USE DEF IInv
<1>1. PICK k \in KeysOf(c, op) : call' = [call EXCEPT ![c] = [op |-> op, key |-> k]]
  BY DEF Call
<1>2. k \in Incarnations
  BY <1>1, TokenAssumption DEF KeysOf, TypeOK, Incarnations, Token
<1>3. TypeOK'
  BY <1>1, <1>2 DEF Call, TypeOK
<1>4. CallInv(c)'
  BY <1>1, <1>2 DEF Call, TypeOK, CallInv, KeysOf, Ops, EdgeOps, OwnerOps, NoCall, Incarnations
<1>5. ASSUME NEW d \in Clients \ {c} PROVE CallInv(d)'
  BY <1>1 DEF Call, TypeOK, CallInv
<1> QED BY <1>3, <1>4, <1>5, LocalStep DEF Call

LEMMA LoadStep == ASSUME IInv, NEW c \in Clients, LoadHi(c) \/ LoadLo(c) \/ LoadAgain(c)
                  PROVE  IInv'
<1> USE DEF IInv
<1>0. EmptyToken(0) \in Token
  BY TokenAssumption DEF EmptyToken, Token, States, Incarnations
<1>1. [token EXCEPT !.inc = 0] \in Token
  BY TokenAssumption DEF TypeOK, Token, Incarnations
<1>2. [snap[c] EXCEPT !.inc = token.inc] \in Token
  BY DEF TypeOK, Token
<1>3. TypeOK'
  <2>1. CASE LoadHi(c)
    BY <2>1, <1>1 DEF LoadHi, TypeOK
  <2>2. CASE LoadLo(c)
    BY <2>2, <1>2 DEF LoadLo, TypeOK
  <2>3. CASE LoadAgain(c)
    BY <2>3, <1>0 DEF LoadAgain, TypeOK, Return
  <2> QED BY <2>1, <2>2, <2>3
<1>4. CallInv(c)'
  BY DEF LoadHi, LoadLo, LoadAgain, TypeOK, CallInv, Return, NoCall, OwnerOps
<1>5. ASSUME NEW d \in Clients \ {c} PROVE CallInv(d)'
  BY DEF LoadHi, LoadLo, LoadAgain, TypeOK, CallInv, Return
<1> QED BY <1>3, <1>4, <1>5, LocalStep DEF LoadHi, LoadLo, LoadAgain

LEMMA LostStep == ASSUME IInv, NEW c \in Clients, CasLost(c) PROVE IInv'
<1> USE DEF IInv
<1>0. EmptyToken(0) \in Token
  BY TokenAssumption DEF EmptyToken, Token, States, Incarnations
<1>1. TypeOK'
  BY <1>0 DEF CasLost, TypeOK, Return
<1>2. CallInv(c)'
  BY DEF CasLost, TypeOK, CallInv, Return, NoCall, OwnerOps
<1>3. ASSUME NEW d \in Clients \ {c} PROVE CallInv(d)'
  BY DEF CasLost, TypeOK, CallInv, Return
<1> QED BY <1>1, <1>2, <1>3, LocalStep DEF CasLost

-----------------------------------------------------------------------------
(* The successful CAS: token, handles and borrower count move together. *)
LEMMA CasStep == ASSUME IInv, NEW c \in Clients, CasOk(c) PROVE IInv'
<1> DEFINE op == call[c].op
<1> DEFINE k == call[c].key
<1> DEFINE new == Target(op, token)
<1> USE DEF IInv
<1>0. /\ c \in Clients /\ CallInv(c) /\ token \in Token
      /\ owned \in [Clients -> Incarnations] /\ leased \in [Clients -> Incarnations]
      /\ token = snap[c] /\ token' = new /\ Learn(c, op, new)
  BY DEF CasOk, TypeOK
<1>1. op \in Ops /\ k \in Incarnations
  BY DEF TypeOK, CasOk, CallInv
<1>2. Admits(op, k, token) /\ ReplacementValid(token, new)
  BY DEF CasOk, CallInv
<1> HIDE DEF op, k, new
<1>3. /\ new \in Token
      /\ op = "claim" => /\ token.state = "EMPTY" /\ token.leases = 0
                         /\ \/ /\ new.state = "EXHAUSTED" /\ token.inc = MaxInc
                               /\ new.inc = token.inc /\ new.leases = 0
                            \/ /\ new.state = "ATTACHING" /\ token.inc # MaxInc
                               /\ new.inc = token.inc + 1 /\ new.leases = 1
      /\ op # "claim" => token.inc = k /\ new.inc = k
      /\ op = "reclaim" => /\ token.state = "RETIRED" /\ token.leases = 1
                           /\ new.state = "RECLAIMING" /\ new.leases = 0
      /\ op = "borrow" => /\ token.state \in BorrowStates
                          /\ \/ /\ new.state = "PINNED" /\ token.leases = MaxLeases
                                /\ new.leases = token.leases
                             \/ new.state = token.state /\ new.leases = token.leases + 1
      /\ op = "release" => /\ token.state \in BorrowStates \cup {"RETIRED", "PINNED"}
                           /\ new.state = token.state /\ token.leases = new.leases + 1
      /\ op \in EdgeOps => /\ token.state = KeyedEdge(op)[1]
                           /\ new.state = KeyedEdge(op)[2]
                           /\ new.leases = token.leases
  BY <1>0, <1>1, <1>2, TargetOf DEF new
<1>4. TypeOK'
  <2>1. EmptyToken(0) \in Token
    BY TokenAssumption DEF EmptyToken, Token, States, Incarnations
  <2>2. owned' \in [Clients -> Incarnations] /\ leased' \in [Clients -> Incarnations]
    BY <1>0, <1>3, TokenAssumption DEF Learn, Token, Incarnations
  <2> QED BY <1>0, <1>3, <2>1, <2>2 DEF CasOk, TypeOK, Return
<1>5. LeaseHolds'
  <2>1. IsFiniteSet(Borrowers) /\ Cardinality(Borrowers) \in Nat
    BY ClientsAssumption, FS_Subset, FS_CardinalityType DEF Borrowers
  <2>2. token.leases \in Nat /\ new.leases \in Nat /\ token.inc \in Nat
    BY <1>0, <1>3, TokenAssumption DEF Token, Incarnations
  <2>3. CASE op \in EdgeOps
    <3>1. Borrowers' = Borrowers /\ leased' = leased
      BY <1>0, <2>3 DEF Learn, Borrowers, EdgeOps
    <3>2. new.inc = token.inc
      BY <1>3, <2>3 DEF EdgeOps
    <3> QED BY <1>0, <1>3, <2>3, <3>1, <3>2
            DEF LeaseHolds, EdgeOps, KeyedEdge, BorrowStates
  <2>4. CASE op = "claim"
    <3>1. Borrowers' = {} /\ Borrowers = {}
      BY <1>0, <1>3, <2>4 DEF Learn, Borrowers, LeaseHolds, BorrowStates
    <3> QED BY <1>0, <1>3, <2>4, <3>1, FS_EmptySet DEF LeaseHolds, BorrowStates
  <2>5. CASE op = "reclaim"
    <3>1. Borrowers = {}
      BY <1>3, <2>1, <2>5, FS_EmptySet DEF LeaseHolds
    <3>2. Borrowers' = {}
      BY <1>0, <2>5, <3>1 DEF Learn, Borrowers
    <3> QED BY <1>0, <1>3, <2>5, <3>2 DEF LeaseHolds, BorrowStates
  <2>6. CASE op = "borrow" /\ new.state = "PINNED"
    <3>1. token.leases = MaxLeases /\ new.leases = token.leases /\ token.state # "PINNED"
      <4>1. MaxLeases \in Nat /\ new.leases <= MaxLeases
        BY <1>3, TokenAssumption DEF Token
      <4> QED BY <1>3, <2>2, <2>6, <4>1 DEF BorrowStates
    <3>2. Borrowers' = Borrowers /\ leased' = leased
      BY <1>0, <2>6 DEF Learn, Borrowers
    <3> QED BY <1>0, <1>3, <2>6, <3>1, <3>2 DEF LeaseHolds, BorrowStates
  <2>7. CASE op = "borrow" /\ new.state # "PINNED"
    <3>1. leased[c] = 0 /\ leased' = [leased EXCEPT ![c] = new.inc]
      BY <1>0, <2>7 DEF Learn, CallInv, op
    <3>2. new.inc = token.inc /\ new.inc # 0
      BY <1>2, <1>3, <2>7 DEF ReplacementValid, ComponentsValid, BorrowStates
    <3>3. Borrowers' = Borrowers \cup {c} /\ c \notin Borrowers
      BY <1>0, <3>1, <3>2 DEF Borrowers
    <3>4. Cardinality(Borrowers') = Cardinality(Borrowers) + 1
      BY <2>1, <3>3, FS_AddElement
    <3> QED BY <1>0, <1>3, <2>1, <2>2, <2>7, <3>1, <3>2, <3>3, <3>4
            DEF LeaseHolds, BorrowStates
  <2>8. CASE op = "release"
    <3>1. leased[c] # 0 /\ leased' = [leased EXCEPT ![c] = 0]
      BY <1>0, <2>8 DEF Learn, CallInv, op
    <3>2. Borrowers' = Borrowers \ {c} /\ c \in Borrowers
      BY <1>0, <3>1 DEF Borrowers
    <3>3. Cardinality(Borrowers') = Cardinality(Borrowers) - 1
      BY <2>1, <3>2, FS_RemoveElement
    <3> QED BY <1>0, <1>3, <2>1, <2>2, <2>8, <3>1, <3>2, <3>3
            DEF LeaseHolds, BorrowStates
  <2> QED BY <1>1, <2>3, <2>4, <2>5, <2>6, <2>7, <2>8 DEF Ops
<1>6. OneOwner'
  <2>1. CASE op = "claim"
    <3>1. \A d \in Clients : owned[d] = 0
      BY <1>3, <2>1 DEF OneOwner, BorrowStates
    <3>2. new.state = "ATTACHING" => owned' = [owned EXCEPT ![c] = new.inc]
      BY <1>0, <2>1 DEF Learn
    <3>3. new.state # "ATTACHING" => owned' = owned
      BY <1>0, <2>1 DEF Learn
    <3> QED BY <1>0, <1>3, <2>1, <3>1, <3>2, <3>3 DEF OneOwner, BorrowStates
  <2>2. CASE op \in {"retire", "abort"}
    <3>1. owned[c] # 0 /\ owned' = [owned EXCEPT ![c] = 0]
      BY <1>0, <2>2 DEF Learn, CallInv, OwnerOps, op
    <3> QED BY <1>0, <3>1 DEF OneOwner
  <2>3. CASE op \in {"publish", "detach", "finish", "reclaim", "borrow", "release"}
    <3>1. owned' = owned /\ new.inc = token.inc
      BY <1>0, <1>3, <2>3 DEF Learn
    <3> QED BY <1>0, <1>3, <2>3, <3>1 DEF OneOwner, BorrowStates, KeyedEdge, EdgeOps
  <2> QED BY <1>1, <2>1, <2>2, <2>3 DEF Ops, EdgeOps
<1>7. ASSUME NEW d \in Clients PROVE CallInv(d)'
  <2>1. CASE d = c
    BY <2>1 DEF CasOk, Return, CallInv, TypeOK, NoCall, OwnerOps
  <2>2. CASE d # c
    BY <1>0, <2>2 DEF CasOk, Return, CallInv, TypeOK, Learn
  <2> QED BY <2>1, <2>2
<1> QED BY <1>4, <1>5, <1>6, <1>7

LEMMA NextIInv == IInv /\ [Next]_vars => IInv'
<1> SUFFICES ASSUME IInv, [Next]_vars PROVE IInv'
  OBVIOUS
<1>1. CASE UNCHANGED vars
  BY <1>1 DEF vars, IInv, TypeOK, LeaseHolds, OneOwner, CallInv, Borrowers
<1>2. ASSUME NEW c \in Clients, NEW op \in Ops, Call(c, op) PROVE IInv'
  BY <1>2, CallStep
<1>3. ASSUME NEW c \in Clients, Step(c) PROVE IInv'
  BY <1>3, LoadStep, CasStep, LostStep DEF Step
<1> QED BY <1>1, <1>2, <1>3 DEF Next

(* The inductive invariant holds in every state of every behaviour. *)
THEOREM SlotInvariant == Spec => []IInv
<1>1. Init => IInv
  BY InitIInv
<1>2. IInv /\ [Next]_vars => IInv'
  BY NextIInv
<1> QED BY <1>1, <1>2, PTL DEF Spec

(* The variables keep their types, whatever the number of clients. *)
THEOREM SlotTypeCorrect == Spec => []TypeOK
<1>1. IInv => TypeOK
  BY DEF IInv
<1> QED BY <1>1, SlotInvariant, PTL

(* lj_tgslot.h: a lease keeps its incarnation in the slot, and the count   *)
(* in the token is exactly the owner plus the borrowers.                   *)
THEOREM SlotLeaseHolds == Spec => []LeaseHolds
<1>1. IInv => LeaseHolds
  BY DEF IInv
<1> QED BY <1>1, SlotInvariant, PTL

(* At most one client owns the slot, and nobody moves it on behind its back. *)
THEOREM SlotOneOwner == Spec => []OneOwner
<1>1. IInv => OneOwner
  BY DEF IInv
<1> QED BY <1>1, SlotInvariant, PTL

-----------------------------------------------------------------------------
(* A call whose key names an old incarnation never changes the token. *)
THEOREM SlotStaleKeyInert == Spec => StaleKeyInert
<1> DEFINE Inert == token' # token =>
      \E c \in Clients : /\ call[c] # call'[c]
                         /\ call[c].op = "claim" \/ call[c].key = token.inc
<1>1. IInv /\ [Next]_vars => [Inert]_vars
  <2> SUFFICES ASSUME IInv, Next, token' # token PROVE Inert
    BY DEF vars
  <2>1. PICK c \in Clients : CasOk(c)
    BY DEF Next, Step, Call, LoadHi, LoadLo, LoadAgain, CasLost
  <2>2. CallInv(c) /\ call[c] # NoCall /\ call'[c] = NoCall /\ call[c].op \in Ops
        /\ call[c].key \in Incarnations /\ snap[c] = token /\ token \in Token
    BY <2>1 DEF IInv, CallInv, CasOk, Return, TypeOK
  <2>3. call[c].op # "claim" => call[c].key = token.inc
    BY <2>1, <2>2, TargetOf DEF CallInv, CasOk
  <2> QED BY <2>2, <2>3
<1> QED BY <1>1, SlotInvariant, PTL DEF Spec, StaleKeyInert

(* A CAS that succeeds is one step of the lifecycle, or a stutter of it. *)
LEMMA CasIsLifecycleStep ==
  ASSUME IInv, NEW c \in Clients, CasOk(c)
  PROVE  [Lifecycle!Next]_(Lifecycle!vars)
<1> DEFINE op == call[c].op
<1> DEFINE new == Target(op, token)
<1>0. /\ CallInv(c) /\ token \in Token /\ leased \in [Clients -> Incarnations]
      /\ op \in Ops /\ call[c].key \in Incarnations
      /\ token' = new /\ Learn(c, op, new) /\ LeaseHolds
      /\ Admits(op, call[c].key, token) /\ ReplacementValid(token, new)
  BY DEF IInv, CasOk, TypeOK, CallInv
<1>1. op # "claim" => new.inc = token.inc
  BY <1>0, TargetOf
<1>2. op \notin {"borrow", "release"} => Borrowers' = Borrowers
  BY <1>0 DEF Learn, Borrowers
<1>3. CASE op \in EdgeOps
  <2>1. token.state = KeyedEdge(op)[1] /\ token'.state = KeyedEdge(op)[2]
    BY <1>0, <1>3, TargetOf
  <2> QED BY <1>0, <1>1, <1>2, <1>3, <2>1 DEF EdgeOps, KeyedEdge, Lifecycle!Next,
             Lifecycle!Publish, Lifecycle!Detach, Lifecycle!Retire, Lifecycle!Finish,
             Lifecycle!Move
<1>4. CASE op = "claim"
  <2>1. /\ token.state = "EMPTY"
        /\ \/ token'.state = "EXHAUSTED" /\ token.inc = MaxInc /\ token'.inc = token.inc
           \/ /\ token'.state = "ATTACHING" /\ token.inc # MaxInc
              /\ token'.inc = token.inc + 1
    BY <1>0, <1>4, TargetOf
  <2>2. token.inc # MaxInc => token.inc < MaxInc
    BY <1>0, TokenAssumption DEF Token, Incarnations
  <2> QED BY <1>2, <1>4, <2>1, <2>2 DEF Lifecycle!Next, Lifecycle!Claim,
             Lifecycle!Exhaust, Lifecycle!Move
<1>5. CASE op = "reclaim"
  <2>1. token.state = "RETIRED" /\ token.leases = 1 /\ token'.state = "RECLAIMING"
    BY <1>0, <1>5, TargetOf
  <2>2. Borrowers = {}
    <3>1. IsFiniteSet(Borrowers) /\ Cardinality(Borrowers) \in Nat
      BY ClientsAssumption, FS_Subset, FS_CardinalityType DEF Borrowers
    <3> QED BY <1>0, <2>1, <3>1, FS_EmptySet DEF LeaseHolds
  <2> QED BY <1>0, <1>1, <1>2, <1>5, <2>1, <2>2 DEF Lifecycle!Next, Lifecycle!Reclaim,
             Lifecycle!Move
<1>6. CASE op = "borrow"
  <2>1. /\ token.state \in BorrowStates
        /\ \/ token'.state = "PINNED" /\ token.leases = MaxLeases
           \/ token'.state = token.state
    BY <1>0, <1>6, TargetOf
  <2>2. CASE token'.state = "PINNED"
    <3>1. token.leases = MaxLeases /\ token.leases = Cardinality(Borrowers) + 1
      BY <1>0, <2>1, <2>2 DEF LeaseHolds, BorrowStates
    <3>2. Borrowers' = Borrowers
      BY <1>0, <1>6, <2>2 DEF Learn, Borrowers
    <3>3. Borrowers \in Crowds
      BY <3>1 DEF Crowds, Borrowers
    <3> QED BY <1>0, <1>1, <1>6, <2>1, <2>2, <3>2, <3>3 DEF Lifecycle!Next,
               Lifecycle!Saturate, Lifecycle!Open, BorrowStates
  <2>3. CASE token'.state # "PINNED"
    <3>1. leased[c] = 0 /\ leased' = [leased EXCEPT ![c] = new.inc] /\ new.inc # 0
      BY <1>0, <1>6, <2>1, <2>3 DEF Learn, CallInv, ReplacementValid, ComponentsValid,
         BorrowStates
    <3>2. Borrowers' = Borrowers \cup {c} /\ c \notin Borrowers
      BY <1>0, <3>1 DEF Borrowers
    <3> QED BY <1>0, <1>1, <1>6, <2>1, <2>3, <3>2 DEF Lifecycle!Next,
               Lifecycle!Borrow, Lifecycle!Open, BorrowStates
  <2> QED BY <2>2, <2>3
<1>7. CASE op = "release"
  <2>1. token'.state = token.state
    BY <1>0, <1>7, TargetOf
  <2>2. leased[c] # 0 /\ leased' = [leased EXCEPT ![c] = 0]
    BY <1>0, <1>7 DEF Learn, CallInv
  <2>3. Borrowers' = Borrowers \ {c} /\ c \in Borrowers
    BY <1>0, <2>2 DEF Borrowers
  <2> QED BY <1>0, <1>1, <1>7, <2>1, <2>3 DEF Lifecycle!Next, Lifecycle!Release
<1> QED BY <1>0, <1>3, <1>4, <1>5, <1>6, <1>7 DEF Ops

(* The CAS protocol of lj_tgslot.h implements the lifecycle of TGLifecycle. *)
THEOREM SlotImplementsLifecycle == Spec => ImplementsLifecycle
<1>1. Init => Lifecycle!Init
  <2>1. Init => Borrowers = {}
    BY DEF Init, Borrowers
  <2> QED BY <2>1 DEF Init, EmptyToken, Incarnations, Lifecycle!Init
<1>2. IInv /\ [Next]_vars => [Lifecycle!Next]_(Lifecycle!vars)
  <2> SUFFICES ASSUME IInv, [Next]_vars PROVE [Lifecycle!Next]_(Lifecycle!vars)
    OBVIOUS
  <2>1. ASSUME NEW c \in Clients, CasOk(c) PROVE [Lifecycle!Next]_(Lifecycle!vars)
    BY <2>1, CasIsLifecycleStep
  <2>2. ASSUME UNCHANGED <<token, leased>> PROVE [Lifecycle!Next]_(Lifecycle!vars)
    BY <2>2 DEF Lifecycle!vars, Borrowers
  <2> QED BY <2>1, <2>2 DEF Next, Step, Call, LoadHi, LoadLo, LoadAgain, CasLost, vars
<1> QED BY <1>1, <1>2, SlotInvariant, PTL DEF Spec, ImplementsLifecycle, Lifecycle!Spec
=============================================================================
