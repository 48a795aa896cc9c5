-------------------------- MODULE TGRegistryProofs --------------------------
(***************************************************************************)
(* Proofs about TGRegistry, for any finite set of threads, any bodies and  *)
(* any bounds of the token.                                                *)
(***************************************************************************)
EXTENDS TGRegistry, TGSlotTokenProofs, FiniteSetTheorems

(* Incarnation k has been reclaimed, or is being reclaimed. *)
Past(k) ==
  \/ token.inc > k
  \/ token.inc = k /\ token.state \in {"RECLAIMING", "EMPTY", "EXHAUSTED"}

(* An owner's incarnation is the one in the slot, nobody else owns it, and *)
(* only a slot that is still being attached may lack its body.             *)
Owners ==
  \A t \in Threads : owned[t] # 0 =>
    /\ token.inc = owned[t]
    /\ token.state \in BorrowStates \cup {"PINNED"}
    /\ body.ptr = NULL => token.state = "ATTACHING"
    /\ \A u \in Threads : owned[u] # 0 => u = t

(* Why a call may be about to pin the slot: its snapshot is out of date    *)
(* for good, so that its CAS must fail, or the slot has a cause.           *)
PinCause(c) ==
  /\ c.snap.inc = c.key
  /\ c.snap.state \in BorrowStates \cup {"RETIRED"}
  /\ \/ Past(c.key)
     \/ c.snap.leases = MaxLeases /\ body.inc >= c.key
     \/ /\ c.snap.state = "RETIRED" /\ token.inc = c.key
        /\ token.state \in {"RETIRED", "PINNED"} /\ body.ptr = NULL

(* What a call knows of the slot between its steps: its snapshots are old, *)
(* but the incarnation halves only grow and a phase is never re-entered.   *)
CallInv(t) ==
  LET c == at[t] IN
  /\ c.key <= token.inc
  /\ c.pc \in {"init", "init_body", "init_cas", "publish", "publish_body",
               "publish_call"} => owned[t] # 0 /\ c.key = owned[t]
  /\ c.pc \in {"init", "init_body", "init_cas"} => Published(c.body, c.key)
  /\ c.pc \in {"init_body", "publish_body"} =>
       /\ c.snap.inc = c.key
       /\ c.snap.state = "ATTACHING" \/ body.inc >= c.key
  /\ c.pc \in {"publish_call", "reclaim_call"} => body.inc >= c.key
  /\ c.pc \in {"lookup_body", "borrow_body", "borrow_cas"} =>
       /\ c.snap.inc = c.key /\ c.snap.state \in BorrowStates
       /\ c.snap.state = "ATTACHING" \/ body.inc >= c.key
  /\ c.pc \in {"borrow", "borrow_body", "borrow_cas"} => borrow[t] = Inactive
  /\ c.pc = "borrow_cas" =>
       /\ Published(c.body, c.key) /\ c.snap.leases # MaxLeases
       /\ Past(c.key) \/ body = c.body
  /\ c.pc \in {"read", "read_body"} =>
       borrow[t] # Inactive /\ c.key = borrow[t].inc
  /\ c.pc = "reclaim_body" =>
       /\ c.snap.inc = c.key /\ c.snap.state = "RETIRED"
       /\ \/ Past(c.key)
          \/ token.inc = c.key /\ token.state \in {"RETIRED", "PINNED"}
  /\ c.pc \in {"clear_body", "clear_again", "clear_cas", "finish_body",
               "finish_call"} => Past(c.key)
  /\ c.pc \in {"clear_again", "clear_cas"} => Published(c.body, c.key)
  /\ c.pc = "finish_call" => body.inc > c.key \/ body = NoBody(c.key)
  /\ c.pc = "pin" => PinCause(c)

IInv ==
  /\ TypeOK
  /\ ComponentsValid(token)
  /\ BodyMatchesToken
  /\ Owners
  /\ BorrowedBodyStable
  /\ \A t \in Threads : CallInv(t)

(* What a step may do to the two words, whoever takes it. *)
SlotStep ==
  /\ token'.inc >= token.inc
  /\ body'.inc >= body.inc
  /\ \A k \in Incarnations : Past(k) => Past(k)'
  /\ body' # body =>
       \/ /\ token.state = "ATTACHING"
          /\ Unpublished(body, token.inc) /\ Published(body', token.inc)
       \/ /\ token.state = "RECLAIMING"
          /\ Published(body, token.inc) /\ body' = NoBody(token.inc)
  /\ token.state \in {"RETIRED", "PINNED"} =>
       \/ token'.inc = token.inc /\ token'.state \in {"RETIRED", "PINNED"}
       \/ body.ptr # NULL /\ Past(token.inc)'

-----------------------------------------------------------------------------
(* The values the calls start from and return to are typed. *)
LEMMA Constants ==
  /\ EmptyToken(0) \in Token
  /\ \A k \in Incarnations : NoBody(k) \in BodyValue
  /\ 0 \in Incarnations /\ Incarnations \subseteq Nat
  /\ Inactive \in BodyValue
  /\ Idle \in [pc: PCs, key: Incarnations, snap: Token, body: BodyValue]
BY TokenAssumption DEF EmptyToken, Token, States, Incarnations, NoBody,
   BodyValue, Inactive, Idle, PCs

(* The numbers in the two words. *)
LEMMA Numbers ==
  ASSUME TypeOK
  PROVE  /\ token \in Token /\ token.inc \in Nat /\ token.leases \in Nat
         /\ body \in BodyValue /\ body.inc \in Nat
<1>1. token \in Token /\ body \in BodyValue
  BY DEF TypeOK
<1>2. token.inc \in Incarnations /\ body.inc \in Incarnations
  BY <1>1 DEF Token, BodyValue
<1>3. token.leases \in Nat
  BY <1>1, TokenAssumption DEF Token
<1> QED BY <1>1, <1>2, <1>3, Constants

(* The initial states satisfy the inductive invariant. *)
LEMMA InitIInv == Init => IInv
<1> SUFFICES ASSUME Init PROVE IInv
  OBVIOUS
<1>1. PICK k \in Incarnations : token = EmptyToken(k) /\ body = NoBody(k)
  BY DEF Init
<1>2. token \in Token /\ ComponentsValid(token)
  BY <1>1, TokenAssumption DEF EmptyToken, Token, States, Incarnations,
     ComponentsValid, BorrowStates
<1>3. TypeOK
  BY <1>1, <1>2, Constants DEF Init, TypeOK
<1>4. BodyMatchesToken
  BY <1>1 DEF BodyMatchesToken, EmptyToken, NoBody
<1>5. Owners
  BY DEF Init, Owners
<1>6. BorrowedBodyStable
  <2>1. Borrowers = {}
    BY DEF Borrowers, Init
  <2> QED BY <1>1, <2>1 DEF BorrowedBodyStable, EmptyToken, BorrowStates
<1>7. ASSUME NEW t \in Threads PROVE CallInv(t)
  <2>1. at[t].pc = "idle" /\ at[t].key = 0 /\ token.inc \in Nat
    BY <1>2, Constants DEF Init, Idle, Token
  <2> QED BY <2>1 DEF CallInv
<1> QED BY <1>2, <1>3, <1>4, <1>5, <1>6, <1>7 DEF IInv

(* What a thread knows survives the steps of the others. *)
LEMMA OthersKeep ==
  ASSUME IInv, TypeOK', SlotStep, NEW u \in Threads, CallInv(u),
         at'[u] = at[u], owned'[u] = owned[u], borrow'[u] = borrow[u]
  PROVE  CallInv(u)'
<1> DEFINE c == at[u]
<1>1. /\ c.key \in Incarnations /\ c.snap \in Token /\ c.body \in BodyValue
      /\ token \in Token /\ token' \in Token
      /\ body \in BodyValue /\ body' \in BodyValue
  BY DEF IInv, TypeOK
<1>2. /\ c.key \in Nat /\ token.inc \in Nat /\ token'.inc \in Nat
      /\ body.inc \in Nat /\ body'.inc \in Nat
  BY <1>1, Constants DEF Token, BodyValue
<1>3. c.key <= token.inc => c.key <= token'.inc
  BY <1>2 DEF SlotStep
<1>4. body.inc >= c.key => body'.inc >= c.key
  BY <1>2 DEF SlotStep
<1>5. Past(c.key) => Past(c.key)'
  BY <1>1 DEF SlotStep, Past
<1>6. Published(c.body, c.key) /\ (Past(c.key) \/ body = c.body)
      => Past(c.key)' \/ body' = c.body
  BY <1>1, <1>2, <1>5 DEF SlotStep, Published, Unpublished, NoBody, Past
<1>7. body.inc > c.key \/ body = NoBody(c.key)
      => body'.inc > c.key \/ body' = NoBody(c.key)
  BY <1>2 DEF SlotStep, Published, Unpublished, NoBody
<1>8. PinCause(c) => PinCause(c)'
  BY <1>1, <1>2, <1>4, <1>5 DEF SlotStep, PinCause, Published
<1>9. \/ Past(c.key)
      \/ token.inc = c.key /\ token.state \in {"RETIRED", "PINNED"}
      => (\/ Past(c.key)
          \/ token.inc = c.key /\ token.state \in {"RETIRED", "PINNED"})'
  BY <1>1, <1>2, <1>5 DEF SlotStep, Past
<1> QED BY <1>1, <1>2, <1>3, <1>4, <1>5, <1>6, <1>7, <1>8, <1>9 DEF CallInv

(* A step of one thread that only reads the slot. *)
LEMMA LocalStep ==
  ASSUME IInv, NEW t \in Threads, UNCHANGED <<token, body, owned, borrow>>,
         TypeOK', \A u \in Threads \ {t} : at'[u] = at[u], CallInv(t)'
  PROVE  IInv'
<1>1. SlotStep
  <2>1. token.inc \in Nat /\ body.inc \in Nat
    BY Constants DEF IInv, TypeOK, Token, BodyValue
  <2> QED BY <2>1 DEF SlotStep, Past
<1>2. \A u \in Threads : CallInv(u)'
  BY <1>1, OthersKeep DEF IInv
<1>3. /\ ComponentsValid(token)' /\ BodyMatchesToken' /\ Owners'
      /\ BorrowedBodyStable'
  BY DEF IInv, ComponentsValid, BodyMatchesToken, Owners, BorrowedBodyStable,
     Borrowers, Published, Unpublished, NoBody
<1> QED BY <1>2, <1>3 DEF IInv

(* Entering a call, the loads of its snapshots, and its early returns. *)
LEMMA EnterSteps ==
  ASSUME IInv, NEW t \in Threads,
         EnterAny(t) \/ EnterOwned(t) \/ Claim(t) \/ InitBodyEnter(t) \/ Lookup(t)
  PROVE  IInv'
<1> USE Constants
<1>0. token \in Token /\ token.inc \in Nat /\ token.inc \in Incarnations
  BY DEF IInv, TypeOK, Token
<1>1. ASSUME NEW k \in Incarnations, NEW pc \in PCs, Enter(t, k, pc)
      PROVE TypeOK' /\ at'[t].pc = pc /\ at'[t].key = k
            /\ (\A u \in Threads \ {t} : at'[u] = at[u])
  BY <1>1 DEF IInv, TypeOK, Enter, Idle
<1>2. CASE EnterAny(t)
  <2>1. PICK k \in 1..token.inc :
          \/ borrow[t] = Inactive /\ Enter(t, k, "borrow")
          \/ Enter(t, k, "reclaim")
          \/ Enter(t, k, "clear")
    BY <1>2 DEF EnterAny
  <2>2. k \in Incarnations /\ k <= token.inc
    BY <1>0, TokenAssumption DEF Incarnations
  <2>3. PICK pc \in {"borrow", "reclaim", "clear"} :
          Enter(t, k, pc) /\ (pc = "borrow" => borrow[t] = Inactive)
    BY <2>1
  <2>4. CallInv(t)'
    BY <1>1, <2>2, <2>3 DEF CallInv, Enter, PCs
  <2> QED BY <1>1, <2>2, <2>3, <2>4, LocalStep DEF Enter, PCs
<1>3. CASE EnterOwned(t)
  <2>1. PICK k \in Incarnations, pc \in {"publish", "read"} :
          /\ Enter(t, k, pc)
          /\ pc = "publish" => owned[t] # 0 /\ k = owned[t]
          /\ pc = "read" => borrow[t] # Inactive /\ k = borrow[t].inc
    BY <1>3 DEF EnterOwned, IInv, TypeOK, BodyValue
  <2>2. k <= token.inc
    BY <1>0, <2>1 DEF IInv, Owners, BorrowedBodyStable, Borrowers
  <2>3. CallInv(t)'
    BY <1>1, <2>1, <2>2 DEF CallInv, Enter, PCs
  <2> QED BY <1>1, <2>1, <2>3, LocalStep DEF Enter, PCs
<1>4. CASE Claim(t)
  <2>1. TypeOK' /\ at'[t].pc \in {"claim_body", "claim_call"} /\ at'[t].key = 0
    BY <1>0, <1>4 DEF IInv, TypeOK, Claim, Idle, PCs
  <2>2. CallInv(t)'
    BY <1>0, <1>4, <2>1 DEF CallInv, Claim
  <2> QED BY <1>4, <2>1, <2>2, LocalStep DEF Claim, IInv, TypeOK
<1>5. CASE InitBodyEnter(t)
  <2>1. PICK p \in Bodies :
          at' = [at EXCEPT ![t] = [Idle EXCEPT !.pc = "init", !.key = owned[t],
                   !.body = [inc |-> owned[t], ptr |-> p]]]
    BY <1>5 DEF InitBodyEnter
  <2>2. TypeOK'
    BY <1>5, <2>1 DEF IInv, TypeOK, InitBodyEnter, Idle, PCs, BodyValue
  <2>3. /\ at'[t].pc = "init" /\ at'[t].key = owned[t]
        /\ at'[t].body = [inc |-> owned[t], ptr |-> p]
    BY <2>1 DEF IInv, TypeOK, Idle
  <2>4. owned[t] # 0 /\ UNCHANGED <<token, body, owned, borrow>>
    BY <1>5 DEF InitBodyEnter
  <2>5. owned[t] = token.inc /\ p # NULL
    BY <2>4, RegistryAssumption DEF IInv, Owners
  <2>6. CallInv(t)'
    BY <1>0, <2>3, <2>4, <2>5 DEF CallInv, Published
  <2> QED BY <1>5, <2>1, <2>2, <2>6, LocalStep DEF InitBodyEnter, IInv, TypeOK
<1>6. CASE Lookup(t)
  <2>1. /\ TypeOK' /\ at'[t].pc = "lookup_body" /\ at'[t].key = token.inc
        /\ at'[t].snap = token
    BY <1>0, <1>6 DEF IInv, TypeOK, Lookup, Idle, PCs
  <2>2. token.state = "ATTACHING" \/ body.inc >= token.inc
    BY <1>0, <1>6 DEF Lookup, BorrowStates, IInv, BodyMatchesToken, Published
  <2>3. CallInv(t)'
    BY <1>0, <1>6, <2>1, <2>2 DEF CallInv, Lookup
  <2> QED BY <1>6, <2>1, <2>3, LocalStep DEF Lookup, IInv, TypeOK
<1> QED BY <1>2, <1>3, <1>4, <1>5, <1>6

(* A loaded snapshot names the key; a call that is refused is idle again. *)
LEMMA SnapSteps ==
  ASSUME IInv, NEW t \in Threads,
         \/ InitBodySnap(t) \/ PublishSnap(t) \/ BorrowSnap(t) \/ ReadSnap(t)
         \/ ReclaimSnap(t) \/ ClearSnap(t) \/ ClearAgain(t)
  PROVE  IInv'
<1> USE Constants
<1>0. /\ token \in Token /\ token.inc \in Nat /\ CallInv(t)
      /\ at[t] \in [pc: PCs, key: Incarnations, snap: Token, body: BodyValue]
  BY DEF IInv, TypeOK, Token
<1>1. UNCHANGED <<token, body, owned, borrow>>
  BY DEF InitBodySnap, PublishSnap, BorrowSnap, ReadSnap, ReclaimSnap,
     ClearSnap, ClearAgain
<1>2. PICK c \in [pc: PCs, key: Incarnations, snap: Token, body: BodyValue] :
        at' = [at EXCEPT ![t] = c]
  BY <1>0 DEF InitBodySnap, PublishSnap, BorrowSnap, ReadSnap, ReclaimSnap,
     ClearSnap, ClearAgain, KeySnap, Return, Goto, PCs
<1>3. TypeOK' /\ (\A u \in Threads \ {t} : at'[u] = at[u]) /\ at'[t] = c
  BY <1>1, <1>2 DEF IInv, TypeOK
<1>4. token.inc = Key(t) =>
        /\ token.state \in {"LIVE", "DETACHING"} => body.inc >= Key(t)
        /\ token.state = "RECLAIMING" => Past(Key(t))
  BY <1>0 DEF IInv, BodyMatchesToken, Published, Past, Key
<1>5. CASE at'[t] = Idle
  BY <1>0, <1>1, <1>3, <1>5, LocalStep DEF CallInv, Idle
<1>6. CASE at'[t] # Idle
  <2>1. CallInv(t)'
    <3> USE DEF KeySnap, Return, Goto, At, Key, CallInv, BorrowStates
    <3>1. CASE InitBodySnap(t)
      BY <1>0, <1>1, <1>4, <1>6, <3>1 DEF InitBodySnap, IInv, TypeOK
    <3>2. CASE PublishSnap(t)
      BY <1>0, <1>1, <1>4, <1>6, <3>2 DEF PublishSnap, IInv, TypeOK
    <3>3. CASE BorrowSnap(t)
      BY <1>0, <1>1, <1>4, <1>6, <3>3 DEF BorrowSnap, IInv, TypeOK
    <3>4. CASE ReadSnap(t)
      BY <1>0, <1>1, <1>4, <1>6, <3>4 DEF ReadSnap, IInv, TypeOK
    <3>5. CASE ReclaimSnap(t)
      BY <1>0, <1>1, <1>4, <1>6, <3>5 DEF ReclaimSnap, IInv, TypeOK
    <3>6. CASE ClearSnap(t)
      BY <1>0, <1>1, <1>4, <1>6, <3>6 DEF ClearSnap, IInv, TypeOK, Past
    <3>7. CASE ClearAgain(t)
      BY <1>0, <1>1, <1>4, <1>6, <3>7 DEF ClearAgain, IInv, TypeOK, Past
    <3> QED BY <3>1, <3>2, <3>3, <3>4, <3>5, <3>6, <3>7
  <2> QED BY <1>1, <1>3, <2>1, LocalStep
<1> QED BY <1>5, <1>6

(* A read of the body: what each outcome of the comparison says. *)
LEMMA BodySteps ==
  ASSUME IInv, NEW t \in Threads,
         \/ ClaimBody(t) \/ InitBodyRead(t) \/ PublishBody(t) \/ LookupBody(t)
         \/ LookupAgain(t) \/ BorrowBody(t) \/ ReadBodyAgain(t)
         \/ ReclaimBody(t) \/ ClearBody(t) \/ FinishBody(t)
  PROVE  IInv'
<1> USE Constants
<1>0. /\ token \in Token /\ token.inc \in Nat /\ CallInv(t)
      /\ body \in BodyValue /\ body.inc \in Nat /\ at[t].key \in Nat
      /\ at[t] \in [pc: PCs, key: Incarnations, snap: Token, body: BodyValue]
  BY DEF IInv, TypeOK, Token, BodyValue
<1>1. UNCHANGED <<token, body, owned, borrow>>
  BY DEF ClaimBody, InitBodyRead, PublishBody, LookupBody, LookupAgain,
     BorrowBody, ReadBodyAgain, ReclaimBody, ClearBody, FinishBody, ReadBody
<1>2. PICK c \in [pc: PCs, key: Incarnations, snap: Token, body: BodyValue] :
        at' = [at EXCEPT ![t] = c]
  BY <1>0 DEF ClaimBody, InitBodyRead, PublishBody, LookupBody, LookupAgain,
     BorrowBody, ReadBodyAgain, ReclaimBody, ClearBody, FinishBody, ReadBody,
     TakeBody, Return, Goto, PCs
<1>3. TypeOK' /\ (\A u \in Threads \ {t} : at'[u] = at[u]) /\ at'[t] = c
  BY <1>1, <1>2 DEF IInv, TypeOK
<1>4. BodyMatchesToken /\ ComponentsValid(token) /\ at[t].key <= token.inc
  BY <1>0 DEF IInv, CallInv
(* The body of an incarnation that is not reclaimed yet. *)
<1>5. Past(Key(t)) \/ Published(body, Key(t)) \/ Unpublished(body, Key(t))
  BY <1>0, <1>4, TokenAssumption DEF BodyMatchesToken, Past, Key, Published,
     Unpublished, NoBody, Token, States
<1>6. CASE at'[t] = Idle
  BY <1>0, <1>1, <1>3, <1>6, LocalStep DEF CallInv, Idle
<1>7. CASE at'[t] # Idle
  <2> DEFINE d == at'[t]
  <2> USE DEF Key, At
  <2>1. d.key = Key(t) /\ d.snap = at[t].snap /\ d.body \in {at[t].body, body}
    BY <1>0, <1>7 DEF ClaimBody, InitBodyRead, PublishBody, LookupBody,
       LookupAgain, BorrowBody, ReadBodyAgain, ReclaimBody, ClearBody,
       FinishBody, ReadBody, TakeBody, Return, Goto, IInv, TypeOK
  <2>2. CallInv(t)'
    <3> USE DEF ReadBody, TakeBody, Return, Goto
    <3>1. CASE ClaimBody(t)
      <4>1. d.pc = "claim_call"
        BY <1>0, <1>7, <3>1 DEF ClaimBody, IInv, TypeOK
      <4> QED BY <1>0, <1>1, <2>1, <4>1 DEF CallInv
    <3>2. CASE InitBodyRead(t)
      <4>1. at[t].pc = "init_body" /\ d.body = at[t].body
        BY <1>0, <3>2, <1>7 DEF InitBodyRead, IInv, TypeOK
      <4>2. /\ d.pc \in {"init_cas", "pin"}
            /\ d.pc = "pin" =>
                 at[t].snap.state # "ATTACHING" /\ ~Published(body, Key(t))
        BY <1>0, <3>2, <1>7 DEF InitBodyRead, IInv, TypeOK
      <4>3. owned[t] = Key(t) /\ token.inc = Key(t) /\ ~Past(Key(t))
        BY <1>0, <4>1 DEF CallInv, IInv, Owners, Past, BorrowStates
      <4>4. d.pc # "pin"
        BY <1>0, <1>5, <4>1, <4>2, <4>3 DEF CallInv, Unpublished
      <4> QED BY <1>0, <1>1, <2>1, <4>1, <4>2, <4>3, <4>4 DEF CallInv
    <3>3. CASE PublishBody(t)
      <4>1. at[t].pc = "publish_body"
        BY <3>3 DEF PublishBody
      <4>2. /\ d.pc = "publish_call" /\ Published(body, Key(t))
            \/ /\ d.pc = "pin" /\ ~Published(body, Key(t))
               /\ at[t].snap.state # "ATTACHING" \/ ~Unpublished(body, Key(t))
        BY <1>0, <3>3, <1>7 DEF PublishBody, IInv, TypeOK
      <4>3. owned[t] = Key(t) /\ token.inc = Key(t) /\ ~Past(Key(t))
        BY <1>0, <4>1 DEF CallInv, IInv, Owners, Past, BorrowStates
      <4>4. d.pc # "pin"
        BY <1>0, <1>5, <4>1, <4>2, <4>3 DEF CallInv, Unpublished
      <4> QED BY <1>0, <1>1, <2>1, <4>1, <4>2, <4>3, <4>4 DEF CallInv, Published
    <3>4. CASE LookupBody(t) \/ LookupAgain(t)
      <4>1. at[t].pc = "lookup_body"
        BY <1>7, <3>4 DEF LookupBody, LookupAgain, IInv, TypeOK
      <4>2. \/ d.pc = "lookup_again"
            \/ /\ d.pc = "pin" /\ ~Published(body, Key(t))
               /\ at[t].snap.state # "ATTACHING" \/ ~Unpublished(body, Key(t))
        BY <1>0, <3>4, <1>7 DEF LookupBody, LookupAgain, IInv, TypeOK
      <4>3. d.pc = "pin" => Past(Key(t))
        BY <1>0, <1>5, <4>1, <4>2 DEF CallInv, Unpublished
      <4> QED BY <1>0, <1>1, <2>1, <4>1, <4>2, <4>3 DEF CallInv, PinCause, Past
    <3>5. CASE BorrowBody(t)
      <4>1. at[t].pc = "borrow_body"
        BY <3>5 DEF BorrowBody
      <4>2. \/ /\ d.pc = "borrow_cas" /\ d.body = body
               /\ Published(body, Key(t)) /\ at[t].snap.leases # MaxLeases
            \/ /\ d.pc = "pin" /\ Published(body, Key(t))
               /\ at[t].snap.leases = MaxLeases
            \/ /\ d.pc = "pin" /\ ~Published(body, Key(t))
               /\ at[t].snap.state # "ATTACHING" \/ ~Unpublished(body, Key(t))
        BY <1>0, <3>5, <1>7 DEF BorrowBody, IInv, TypeOK
      <4>3. d.pc = "pin" =>
              \/ Past(Key(t))
              \/ at[t].snap.leases = MaxLeases /\ body.inc >= Key(t)
        <5>1. Published(body, Key(t)) => body.inc >= Key(t)
          BY <1>0 DEF Published
        <5>2. at[t].snap.state = "ATTACHING" \/ body.inc >= Key(t)
          BY <1>0, <4>1 DEF CallInv
        <5>3. Unpublished(body, Key(t)) => ~(body.inc >= Key(t))
          BY <1>0 DEF Unpublished
        <5> QED BY <1>0, <1>5, <4>2, <5>1, <5>2, <5>3
      <4> QED BY <1>0, <1>1, <2>1, <4>1, <4>2, <4>3
              DEF CallInv, PinCause, Past, Published
    <3>6. CASE ReadBodyAgain(t)
      <4>1. FALSE
        BY <1>0, <1>7, <3>6
           DEF ReadBodyAgain, CallInv, IInv, TypeOK, BorrowedBodyStable, Borrowers
      <4> QED BY <4>1
    <3>7. CASE ReclaimBody(t)
      <4>1. at[t].pc = "reclaim_body"
        BY <3>7 DEF ReclaimBody
      <4>2. \/ d.pc = "reclaim_call" /\ Published(body, Key(t))
            \/ d.pc = "pin" /\ ~Published(body, Key(t))
        BY <1>0, <3>7, <1>7 DEF ReclaimBody, IInv, TypeOK
      <4>3. d.pc = "pin" =>
              \/ Past(Key(t))
              \/ /\ token.inc = Key(t) /\ body.ptr = NULL
                 /\ token.state \in {"RETIRED", "PINNED"}
        <5>1. \/ Past(Key(t))
              \/ token.inc = Key(t) /\ token.state \in {"RETIRED", "PINNED"}
          BY <1>0, <4>1 DEF CallInv
        <5> QED BY <1>5, <4>2, <5>1 DEF Unpublished
      <4> QED BY <1>0, <1>1, <2>1, <4>1, <4>2, <4>3
              DEF CallInv, PinCause, Past, Published
    <3>8. CASE ClearBody(t)
      <4>1. at[t].pc = "clear_body"
        BY <3>8 DEF ClearBody
      <4>2. \/ d.pc = "finish_body"
            \/ d.pc = "clear_again" /\ d.body = body /\ Published(body, Key(t))
        BY <1>0, <3>8, <1>7 DEF ClearBody, IInv, TypeOK, Published
      <4> QED BY <1>0, <1>1, <2>1, <4>1, <4>2 DEF CallInv, Past, Published
    <3>9. CASE FinishBody(t)
      <4>1. at[t].pc = "finish_body"
        BY <3>9 DEF FinishBody
      <4>2. d.pc = "finish_call" /\ body = NoBody(Key(t))
        BY <1>0, <3>9, <1>7 DEF FinishBody, IInv, TypeOK
      <4> QED BY <1>0, <1>1, <2>1, <4>1, <4>2 DEF CallInv, Past
    <3> QED BY <3>1, <3>2, <3>3, <3>4, <3>5, <3>6, <3>7, <3>8, <3>9
  <2> QED BY <1>1, <1>3, <2>2, LocalStep
<1> QED BY <1>6, <1>7

-----------------------------------------------------------------------------
(* A step of one thread that writes the slot: the invariant holds after it *)
(* when the two words agree and the thread's own part holds.               *)
LEMMA SlotChange ==
  ASSUME IInv, NEW t \in Threads, SlotStep, TypeOK', ComponentsValid(token)',
         BodyMatchesToken', Owners', BorrowedBodyStable', CallInv(t)',
         \A u \in Threads \ {t} : /\ at'[u] = at[u] /\ owned'[u] = owned[u]
                                  /\ borrow'[u] = borrow[u]
  PROVE  IInv'
<1>1. \A u \in Threads : CallInv(u)'
  BY OthersKeep DEF IInv
<1> QED BY <1>1 DEF IInv

(* The number of borrowers is defined. *)
LEMMA BorrowersFinite ==
  ASSUME TypeOK
  PROVE  IsFiniteSet(Borrowers) /\ Cardinality(Borrowers) \in Nat
         /\ (Cardinality(Borrowers) = 0 <=> Borrowers = {})
BY RegistryAssumption, FS_Subset, FS_CardinalityType, FS_EmptySet DEF Borrowers

(* A step that moves the token of one incarnation forward and touches      *)
(* neither the body nor a borrow handle.                                   *)
LEMMA TokenStep ==
  ASSUME IInv, token' \in Token, token'.inc = token.inc, UNCHANGED <<body, borrow>>,
         \/ /\ token.state \in BorrowStates \cup {"RETIRED"}
            /\ token'.state \in BorrowStates \cup {"RETIRED", "PINNED"}
            /\ token'.leases = token.leases
            /\ token.state = "RETIRED" => token'.state \in {"RETIRED", "PINNED"}
         \/ /\ token.state = "RETIRED" /\ token'.state = "RECLAIMING"
            /\ token.leases = 1 /\ body.ptr # NULL
         \/ token.state = "RECLAIMING" /\ token'.state = "EMPTY"
  PROVE  SlotStep /\ BorrowedBodyStable'
<1>1. /\ token.inc \in Nat /\ body.inc \in Nat /\ token.leases \in Nat
      /\ TypeOK /\ token \in Token
  BY Numbers DEF IInv
<1>2. SlotStep
  BY <1>1 DEF SlotStep, Past, BorrowStates
<1>3. Borrowers' = Borrowers
  BY DEF Borrowers
<1>4. BorrowedBodyStable'
  <2>1. BorrowedBodyStable
    BY DEF IInv
  <2>2. token.leases = 1 /\ token.state = "RETIRED" => Borrowers = {}
    BY <1>1, <2>1, BorrowersFinite DEF BorrowedBodyStable
  <2> QED BY <1>3, <2>1, <2>2 DEF BorrowedBodyStable, BorrowStates
<1> QED BY <1>2, <1>4

(* A call of lj_tgslot.h that is admitted, as a step of the slot. *)
LEMMA TokenStepOf ==
  ASSUME TypeOK, NEW op \in Ops, NEW k \in Incarnations, TokenCall(op, k)
  PROVE  /\ token' \in Token /\ ComponentsValid(token)'
         /\ op = "claim" =>
              /\ token.state = "EMPTY"
              /\ \/ /\ token'.state = "EXHAUSTED" /\ token'.inc = token.inc
                    /\ token'.leases = 0
                 \/ /\ token'.state = "ATTACHING" /\ token'.inc = token.inc + 1
                    /\ token'.leases = 1
         /\ op # "claim" => token.inc = k /\ token'.inc = k
         /\ op = "reclaim" => /\ token.state = "RETIRED" /\ token.leases = 1
                              /\ token'.state = "RECLAIMING"
         /\ op = "release" =>
              /\ token.state \in BorrowStates \cup {"RETIRED", "PINNED"}
              /\ token'.state = token.state /\ token.leases = token'.leases + 1
<1>1. /\ token \in Token /\ Admits(op, k, token) /\ token' = Target(op, token)
  BY Numbers DEF TokenCall
<1>2. ComponentsValid(token)'
  BY <1>1, TargetValid DEF ComponentsValid
<1> QED BY <1>1, <1>2, TargetOf

(* A keyed call that takes its edge, as a step of the slot. *)
LEMMA TokenEdge ==
  ASSUME TypeOK, NEW op \in EdgeOps, NEW k \in Incarnations, TokenCall(op, k)
  PROVE  /\ token' \in Token /\ ComponentsValid(token)'
         /\ token.inc = k /\ token'.inc = k /\ token'.leases = token.leases
         /\ op = "publish" => token.state = "ATTACHING" /\ token'.state = "LIVE"
         /\ op = "detach" => token.state = "LIVE" /\ token'.state = "DETACHING"
         /\ op = "retire" => token.state = "DETACHING" /\ token'.state = "RETIRED"
         /\ op = "abort" => token.state = "ATTACHING" /\ token'.state = "RETIRED"
         /\ op = "finish" => token.state = "RECLAIMING" /\ token'.state = "EMPTY"
<1>1. /\ token \in Token /\ op \in Ops /\ Admits(op, k, token)
      /\ token' = Target(op, token)
  BY Numbers DEF TokenCall, Ops
<1>2. ComponentsValid(token)'
  BY <1>1, TargetValid DEF ComponentsValid
<1> QED BY <1>1, <1>2, EdgeOf

(* The calls that move the token along an edge, and the pin. *)
LEMMA EdgeSteps ==
  ASSUME IInv, NEW t \in Threads,
         \/ PublishCall(t) \/ Detach(t) \/ Retire(t, "retire")
         \/ Retire(t, "abort") \/ ReclaimCall(t) \/ FinishCall(t) \/ Pin(t)
  PROVE  IInv'
<1> USE Constants
<1>0. /\ TypeOK /\ token \in Token /\ token.inc \in Nat /\ CallInv(t)
      /\ body \in BodyValue /\ body.inc \in Nat /\ BodyMatchesToken
      /\ ComponentsValid(token) /\ Owners /\ owned[t] \in Incarnations
      /\ at[t].key \in Incarnations
  BY Numbers DEF IInv, TypeOK
<1>1. UNCHANGED <<body, borrow>> /\ owned' \in [Threads -> Incarnations]
  BY <1>0 DEF PublishCall, Detach, Retire, ReclaimCall, FinishCall, Pin, TypeOK
<1>2. /\ \A u \in Threads \ {t} : at'[u] = at[u] /\ owned'[u] = owned[u]
      /\ at' \in [Threads -> [pc: PCs, key: Incarnations, snap: Token,
                             body: BodyValue]]
      /\ at'[t].pc = "idle"
      /\ at'[t].key = 0 \/ at'[t].key = at[t].key
  BY <1>0 DEF PublishCall, Detach, Retire, ReclaimCall, FinishCall, Pin,
     TypeOK, Return, Idle, At
<1>3. ASSUME SlotStep, token'.inc = token.inc, token' \in Token,
             BodyMatchesToken', ComponentsValid(token)', Owners',
             BorrowedBodyStable'
      PROVE  IInv'
  <2>1. TypeOK'
    BY <1>0, <1>1, <1>2, <1>3 DEF TypeOK
  <2>2. at'[t].key <= token'.inc
    BY <1>0, <1>2, <1>3, TokenAssumption DEF CallInv, Incarnations
  <2>3. CallInv(t)'
    BY <1>2, <2>2 DEF CallInv
  <2> QED BY <1>1, <1>2, <1>3, <2>1, <2>3, SlotChange
<1>4. CASE UNCHANGED <<token, owned>>
  <2>1. /\ SlotStep /\ BodyMatchesToken' /\ ComponentsValid(token)' /\ Owners'
        /\ BorrowedBodyStable'
    BY <1>0, <1>1, <1>4 DEF SlotStep, Past, BodyMatchesToken, Owners, IInv,
       ComponentsValid, BorrowedBodyStable, Borrowers, Published, Unpublished
  <2> QED BY <1>0, <1>3, <1>4, <2>1
<1>5. ASSUME PublishCall(t), TokenCall("publish", Key(t)) PROVE IInv'
  <2>1. /\ token' \in Token /\ token'.inc = token.inc
        /\ token'.leases = token.leases /\ token.inc = Key(t)
        /\ token.state = "ATTACHING" /\ token'.state = "LIVE"
        /\ ComponentsValid(token)'
    BY <1>0, <1>5, TokenEdge DEF EdgeOps, Key
  <2>2. body.inc >= Key(t) /\ owned' = owned
    BY <1>0, <1>5 DEF PublishCall, CallInv, Key, At
  <2>3. SlotStep /\ BorrowedBodyStable'
    BY <1>1, <2>1, TokenStep DEF BorrowStates
  <2>4. Published(body, token.inc)
    BY <1>0, <2>1, <2>2 DEF BodyMatchesToken, Published, Unpublished
  <2>5. BodyMatchesToken' /\ Owners'
    BY <1>0, <1>1, <2>1, <2>2, <2>4
       DEF BodyMatchesToken, Owners, Published, BorrowStates
  <2> QED BY <1>3, <2>1, <2>3, <2>5
<1>6. ASSUME Detach(t) PROVE IInv'
  <2>0. TokenCall("detach", owned[t]) /\ "detach" \in EdgeOps
    BY <1>6 DEF Detach, EdgeOps
  <2>1. /\ token' \in Token /\ token'.inc = token.inc
        /\ token'.leases = token.leases /\ token.inc = owned[t]
        /\ token.state = "LIVE" /\ token'.state = "DETACHING"
        /\ ComponentsValid(token)'
    BY <1>0, <2>0, TokenEdge
  <2>2. owned' = owned
    BY <1>6 DEF Detach
  <2>3. SlotStep /\ BorrowedBodyStable'
    BY <1>1, <2>1, TokenStep DEF BorrowStates
  <2>4. BodyMatchesToken' /\ Owners'
    BY <1>0, <1>1, <2>1, <2>2
       DEF BodyMatchesToken, Owners, Published, BorrowStates
  <2> QED BY <1>3, <2>1, <2>3, <2>4
<1>7. ASSUME NEW op \in {"retire", "abort"}, Retire(t, op) PROVE IInv'
  <2>0. TokenCall(op, owned[t])
    BY <1>7 DEF Retire
  <2>1. /\ token' \in Token /\ token'.inc = token.inc
        /\ token'.leases = token.leases
        /\ token.state \in {"ATTACHING", "DETACHING"}
        /\ token'.state = "RETIRED" /\ token.inc = owned[t]
        /\ ComponentsValid(token)'
    BY <1>0, <2>0, TokenEdge DEF EdgeOps
  <2>2. owned[t] # 0 /\ owned' = [owned EXCEPT ![t] = 0]
    BY <1>7 DEF Retire
  <2>3. SlotStep /\ BorrowedBodyStable'
    BY <1>1, <2>1, TokenStep DEF BorrowStates
  <2>4. Published(body, token.inc) \/ Unpublished(body, token.inc)
    BY <1>0, <2>1 DEF BodyMatchesToken
  <2>5. BodyMatchesToken'
    BY <1>1, <2>1, <2>4 DEF BodyMatchesToken, Published, Unpublished
  <2>6. \A u \in Threads : owned'[u] = 0
    BY <1>0, <2>2 DEF Owners, TypeOK
  <2>7. Owners'
    BY <2>6 DEF Owners
  <2> QED BY <1>3, <2>1, <2>3, <2>5, <2>7
<1>8. ASSUME ReclaimCall(t), TokenCall("reclaim", Key(t)) PROVE IInv'
  <2>1. /\ token' \in Token /\ token'.inc = token.inc /\ token.inc = Key(t)
        /\ token.state = "RETIRED" /\ token'.state = "RECLAIMING"
        /\ token.leases = 1 /\ ComponentsValid(token)'
    <3>1. Key(t) \in Incarnations
      BY <1>0 DEF Key
    <3>2. Admits("reclaim", Key(t), token) /\ token' = Target("reclaim", token)
      BY <1>8 DEF TokenCall
    <3> HIDE DEF Key
    <3>3. /\ Target("reclaim", token) \in Token
          /\ ComponentsValid(Target("reclaim", token))
          /\ token.inc = Key(t) /\ Target("reclaim", token).inc = Key(t)
          /\ token.state = "RETIRED" /\ token.leases = 1
          /\ Target("reclaim", token).state = "RECLAIMING"
      BY <1>0, <3>1, <3>2, ReclaimOf
    <3>4. QED
      BY <3>2, <3>3
  <2>2. body.inc >= Key(t) /\ owned' = owned
    BY <1>0, <1>8 DEF ReclaimCall, CallInv, Key, At
  <2>3. Published(body, token.inc)
    BY <1>0, <2>1, <2>2 DEF BodyMatchesToken, Published, Unpublished
  <2>4. SlotStep /\ BorrowedBodyStable'
    BY <1>1, <2>1, <2>3, TokenStep DEF Published
  <2>5. BodyMatchesToken' /\ Owners'
    BY <1>0, <1>1, <2>1, <2>2, <2>3
       DEF BodyMatchesToken, Owners, Published, BorrowStates
  <2> QED BY <1>3, <2>1, <2>4, <2>5
<1>9. ASSUME FinishCall(t), TokenCall("finish", Key(t)) PROVE IInv'
  <2>1. /\ token' \in Token /\ token'.inc = token.inc /\ token.inc = Key(t)
        /\ token.state = "RECLAIMING" /\ token'.state = "EMPTY"
        /\ ComponentsValid(token)'
    BY <1>0, <1>9, TokenEdge DEF EdgeOps, Key
  <2>2. (body.inc > Key(t) \/ body = NoBody(Key(t))) /\ owned' = owned
    BY <1>0, <1>9 DEF FinishCall, CallInv, Key, At
  <2>3. body = NoBody(token.inc)
    BY <1>0, <2>1, <2>2 DEF BodyMatchesToken
  <2>4. SlotStep /\ BorrowedBodyStable'
    BY <1>1, <2>1, TokenStep
  <2>5. BodyMatchesToken' /\ Owners'
    BY <1>0, <1>1, <2>1, <2>2, <2>3
       DEF BodyMatchesToken, Owners, NoBody, BorrowStates
  <2> QED BY <1>3, <2>1, <2>4, <2>5
<1>10. ASSUME Pin(t), token' # token PROVE IInv'
  <2>1. /\ token = at[t].snap /\ token' = Pinned(token) /\ PinCause(at[t])
        /\ owned' = owned
    BY <1>0, <1>10 DEF Pin, CallInv, At
  <2>2. /\ token.state \in BorrowStates \cup {"RETIRED"} /\ ~Past(token.inc)
        /\ token.inc = at[t].key
    BY <1>0, <2>1 DEF PinCause, Past, BorrowStates
  <2>3. /\ token' \in Token /\ token'.inc = token.inc
        /\ token'.state = "PINNED" /\ token'.leases = token.leases
    BY <1>0, <2>1 DEF Pinned, Token, States
  <2>4. SlotStep /\ BorrowedBodyStable'
    BY <1>1, <2>2, <2>3, TokenStep
  <2>5. ComponentsValid(token)'
    BY <1>0, <2>2, <2>3 DEF ComponentsValid, BorrowStates
  <2>6. BodyMatchesToken'
    BY <1>0, <1>1, <2>2, <2>3
       DEF BodyMatchesToken, BorrowStates, Published, Unpublished
  <2>7. token.state = "RETIRED" \/ body.inc >= token.inc
    BY <1>0, <2>1, <2>2 DEF PinCause
  <2>8. token.state # "RETIRED" => body.ptr # NULL
    BY <1>0, <2>2, <2>7
       DEF BodyMatchesToken, BorrowStates, Published, Unpublished
  <2>9. Owners'
    BY <1>0, <1>1, <2>1, <2>3, <2>8 DEF Owners, BorrowStates
  <2> QED BY <1>3, <2>3, <2>4, <2>5, <2>6, <2>9
<1> QED
  <2>1. PublishCall(t) => TokenCall("publish", Key(t)) \/ UNCHANGED <<token, owned>>
    BY DEF PublishCall
  <2>2. ReclaimCall(t) => TokenCall("reclaim", Key(t)) \/ UNCHANGED <<token, owned>>
    BY DEF ReclaimCall
  <2>3. FinishCall(t) => TokenCall("finish", Key(t)) \/ UNCHANGED <<token, owned>>
    BY DEF FinishCall
  <2>4. Pin(t) => token' # token \/ UNCHANGED <<token, owned>>
    BY DEF Pin
  <2> QED BY <1>4, <1>5, <1>6, <1>7, <1>8, <1>9, <1>10, <2>1, <2>2, <2>3, <2>4

(* The claim: an unowned slot starts its next incarnation without a body. *)
LEMMA ClaimStep ==
  ASSUME IInv, NEW t \in Threads, ClaimCall(t)
  PROVE  IInv'
<1> USE Constants
<1>0. /\ TypeOK /\ token \in Token /\ token.inc \in Nat /\ CallInv(t)
      /\ body \in BodyValue /\ body.inc \in Nat /\ BodyMatchesToken
      /\ Owners /\ owned[t] \in Incarnations /\ BorrowedBodyStable
  BY Numbers DEF IInv, TypeOK
<1>1. /\ UNCHANGED <<body, borrow>> /\ at' = [at EXCEPT ![t] = Idle]
      /\ \A u \in Threads \ {t} : at'[u] = at[u]
      /\ at'[t].pc = "idle" /\ at'[t].key = 0
  BY <1>0 DEF ClaimCall, Return, TypeOK, Idle
<1>2. CASE UNCHANGED <<token, owned>>
  <2>1. TypeOK' /\ CallInv(t)'
    BY <1>0, <1>1, <1>2 DEF TypeOK, CallInv
  <2> QED BY <1>1, <1>2, <2>1, LocalStep
<1>3. CASE /\ TokenCall("claim", 0)
           /\ owned' = [owned EXCEPT ![t] =
                IF token'.state = "ATTACHING" THEN token'.inc ELSE 0]
  <2>1. /\ token' \in Token /\ token.state = "EMPTY" /\ ComponentsValid(token)'
        /\ \/ /\ token'.state = "EXHAUSTED" /\ token'.inc = token.inc
              /\ token'.leases = 0
           \/ /\ token'.state = "ATTACHING" /\ token'.inc = token.inc + 1
              /\ token'.leases = 1
    BY <1>0, <1>3, TargetOf, TargetValid DEF TokenCall, Ops
  <2>2. token'.inc \in Incarnations /\ token'.inc \in Nat
    BY <2>1 DEF Token
  <2>3. TypeOK'
    BY <1>0, <1>1, <1>3, <2>1, <2>2 DEF TypeOK
  <2>4. SlotStep
    BY <1>0, <1>1, <2>1 DEF SlotStep, Past
  <2>5. BodyMatchesToken'
    BY <1>0, <1>1, <2>1 DEF BodyMatchesToken, Unpublished, NoBody
  <2>6. \A u \in Threads : owned[u] = 0
    BY <1>0, <2>1 DEF Owners, BorrowStates
  <2>7. Owners'
    BY <1>0, <1>3, <2>1, <2>6 DEF Owners, BorrowStates, TypeOK
  <2>8. Borrowers = {} /\ Borrowers' = {}
    BY <1>0, <1>1, <2>1 DEF BorrowedBodyStable, Borrowers, BorrowStates
  <2>9. BorrowedBodyStable'
    BY <2>1, <2>8, FS_EmptySet DEF BorrowedBodyStable, BorrowStates
  <2>10. CallInv(t)'
    BY <1>1, <2>2 DEF CallInv
  <2>11. \A u \in Threads \ {t} : owned'[u] = owned[u] /\ borrow'[u] = borrow[u]
    BY <1>0, <1>1, <1>3 DEF TypeOK
  <2> QED BY <1>1, <2>1, <2>3, <2>4, <2>5, <2>7, <2>9, <2>10, <2>11, SlotChange
<1> QED BY <1>2, <1>3 DEF ClaimCall

(* A body is installed only by the owner, into a slot still being attached. *)
LEMMA Installs ==
  ASSUME IInv, NEW t \in Threads, InitBodyCas(t), body' # body
  PROVE  /\ body = NoBody(Key(t) - 1) /\ body' = at[t].body
         /\ owned[t] = Key(t) /\ token.inc = Key(t) /\ token.state = "ATTACHING"
         /\ Unpublished(body, Key(t)) /\ Published(body', Key(t))
<1> USE DEF Key
<1>1. at[t].pc = "init_cas" /\ body = NoBody(Key(t) - 1) /\ body' = at[t].body
  BY DEF InitBodyCas, At
<1>2. owned[t] # 0 /\ owned[t] = Key(t) /\ Published(body', Key(t))
  BY <1>1 DEF IInv, CallInv
<1>3. body.ptr = NULL /\ Unpublished(body, Key(t))
  BY <1>1 DEF NoBody, Unpublished
<1> QED BY <1>1, <1>2, <1>3 DEF IInv, Owners

(* A body is erased only while its own incarnation is being reclaimed. *)
LEMMA Erases ==
  ASSUME IInv, NEW t \in Threads, ClearCas(t), body' # body
  PROVE  /\ body = at[t].body /\ body' = NoBody(Key(t))
         /\ token.inc = Key(t) /\ token.state = "RECLAIMING"
         /\ Published(body, Key(t))
<1> USE DEF Key
<1>1. at[t].pc = "clear_cas" /\ body = at[t].body /\ body' = NoBody(Key(t))
  BY DEF ClearCas, At
<1>2. Published(body, Key(t)) /\ Past(Key(t))
  BY <1>1 DEF IInv, CallInv
<1>3. token.inc \in Nat /\ token \in Token /\ at[t].key \in Nat
  BY Numbers, Constants DEF IInv, TypeOK
<1>4. token.inc = Key(t) /\ token.state = "RECLAIMING"
  BY <1>2, <1>3 DEF IInv, Past, BodyMatchesToken, Published,
     Unpublished, NoBody, Token, States
<1> QED BY <1>1, <1>2, <1>4

(* The two writes of the body word: a body is installed once, into a slot  *)
(* that is still being attached, and erased once, by whichever helper      *)
(* comes first while the slot is RECLAIMING.                               *)
LEMMA WriteSteps ==
  ASSUME IInv, NEW t \in Threads, InitBodyCas(t) \/ ClearCas(t)
  PROVE  IInv'
<1> USE Constants DEF Key
<1>0. /\ TypeOK /\ token \in Token /\ token.inc \in Nat /\ CallInv(t)
      /\ body \in BodyValue /\ body.inc \in Nat /\ BodyMatchesToken
      /\ ComponentsValid(token) /\ Owners /\ owned[t] \in Incarnations
      /\ BorrowedBodyStable /\ at[t].key \in Nat /\ at[t].key \in Incarnations
      /\ at[t].body \in BodyValue
  BY Numbers DEF IInv, TypeOK
<1>1. UNCHANGED <<token, owned, borrow>> /\ ComponentsValid(token)'
  BY <1>0 DEF InitBodyCas, ClearCas, ComponentsValid
<1>2. /\ \A u \in Threads \ {t} : at'[u] = at[u]
      /\ at' \in [Threads -> [pc: PCs, key: Incarnations, snap: Token,
                             body: BodyValue]]
  BY <1>0 DEF InitBodyCas, ClearCas, TypeOK, Return, Goto, Idle, At, PCs
<1>3. ASSUME SlotStep, body' \in BodyValue, BodyMatchesToken', Owners',
             BorrowedBodyStable', CallInv(t)'
      PROVE  IInv'
  <2>1. TypeOK'
    BY <1>0, <1>1, <1>2, <1>3 DEF TypeOK
  <2> QED BY <1>1, <1>2, <1>3, <2>1, SlotChange
<1>4. CASE UNCHANGED body
  <2>1. /\ SlotStep /\ BodyMatchesToken' /\ Owners' /\ BorrowedBodyStable'
    BY <1>0, <1>1, <1>4 DEF SlotStep, Past, BodyMatchesToken, Owners,
       BorrowedBodyStable, Borrowers, Published, Unpublished
  <2>2. \/ at'[t].pc = "idle" /\ at'[t].key = 0
        \/ /\ at'[t].pc = "pin" /\ InitBodyCas(t)
           /\ ~Published(body, Key(t)) /\ body # NoBody(Key(t) - 1)
        \/ /\ at'[t].pc = "finish_body" /\ ClearCas(t) /\ at'[t].key = Key(t)
    BY <1>0, <1>4 DEF InitBodyCas, ClearCas, TypeOK, Return, Goto, Idle, At
  <2>3. CASE at'[t].pc = "idle" /\ at'[t].key = 0
    <3>1. CallInv(t)'
      BY <1>0, <1>1, <2>3 DEF CallInv
    <3> QED BY <1>0, <1>3, <1>4, <2>1, <3>1
  <2>4. CASE InitBodyCas(t) /\ ~Published(body, Key(t)) /\ body # NoBody(Key(t) - 1)
    <3>1. at[t].pc = "init_cas"
      BY <2>4 DEF InitBodyCas, At
    <3>2. owned[t] # 0 /\ owned[t] = Key(t)
      BY <1>0, <3>1 DEF CallInv
    <3>3. token.inc = Key(t) /\ token.state \in BorrowStates \cup {"PINNED"}
      BY <1>0, <3>2 DEF Owners
    <3>4. FALSE
      BY <1>0, <2>4, <3>3 DEF BodyMatchesToken, BorrowStates, Published,
         Unpublished, NoBody, BodyValue
    <3> QED BY <3>4
  <2>5. CASE at'[t].pc = "finish_body" /\ ClearCas(t) /\ at'[t].key = Key(t)
    <3>1. at[t].pc = "clear_cas"
      BY <2>5 DEF ClearCas, At
    <3>2. Past(Key(t)) /\ at[t].key <= token.inc
      BY <1>0, <3>1 DEF CallInv
    <3>3. CallInv(t)'
      BY <1>1, <2>5, <3>2 DEF CallInv, Past
    <3> QED BY <1>0, <1>3, <1>4, <2>1, <3>3
  <2> QED BY <2>2, <2>3, <2>4, <2>5
<1>5. ASSUME InitBodyCas(t), body' # body PROVE IInv'
  <2>1. /\ body = NoBody(Key(t) - 1) /\ body' = at[t].body
        /\ at'[t].pc = "idle" /\ at'[t].key = 0
    BY <1>0, <1>5 DEF InitBodyCas, Return, Idle, TypeOK
  <2>2. owned[t] = Key(t) /\ Published(body', Key(t))
    BY <1>5, Installs
  <2>3. token.inc = Key(t) /\ token.state = "ATTACHING" /\ body.ptr = NULL
    BY <1>5, Installs DEF Unpublished
  <2>4. SlotStep
    BY <1>0, <1>1, <2>1, <2>2, <2>3
       DEF SlotStep, Past, Published, Unpublished, NoBody
  <2>5. BodyMatchesToken'
    BY <1>1, <2>2, <2>3 DEF BodyMatchesToken, Published
  <2>6. Owners'
    BY <1>0, <1>1, <2>2, <2>3 DEF Owners, Published
  <2>7. Borrowers = {} /\ Borrowers' = {}
    BY <1>0, <1>1, <2>1, <2>3 DEF BorrowedBodyStable, Borrowers, NoBody
  <2>8. BorrowedBodyStable'
    BY <1>0, <1>1, <2>7 DEF BorrowedBodyStable
  <2>9. CallInv(t)'
    BY <1>0, <1>1, <2>1 DEF CallInv
  <2> QED BY <1>0, <1>3, <2>1, <2>4, <2>5, <2>6, <2>8, <2>9
<1>6. ASSUME ClearCas(t), body' # body PROVE IInv'
  <2>1. /\ at[t].pc = "clear_cas" /\ body' = NoBody(Key(t))
        /\ at'[t].pc = "finish_body" /\ at'[t].key = Key(t)
    BY <1>0, <1>6 DEF ClearCas, At, Goto, TypeOK
  <2>2. Published(body, Key(t)) /\ Past(Key(t)) /\ at[t].key <= token.inc
    BY <1>0, <1>6, <2>1, Erases DEF CallInv
  <2>3. token.inc = Key(t) /\ token.state = "RECLAIMING"
    BY <1>6, Erases
  <2>4. SlotStep
    BY <1>0, <1>1, <2>1, <2>2, <2>3 DEF SlotStep, Past, Published, NoBody
  <2>5. BodyMatchesToken' /\ Owners'
    BY <1>0, <1>1, <2>1, <2>3 DEF BodyMatchesToken, Owners, NoBody, BorrowStates
  <2>6. Borrowers = {} /\ Borrowers' = {}
    BY <1>0, <1>1, <2>3 DEF BorrowedBodyStable, Borrowers, BorrowStates
  <2>7. BorrowedBodyStable'
    BY <1>1, <2>3, <2>6 DEF BorrowedBodyStable, BorrowStates
  <2>8. CallInv(t)'
    BY <1>0, <1>1, <2>1, <2>2, <2>3 DEF CallInv, Past
  <2> QED BY <1>0, <1>3, <2>1, <2>4, <2>5, <2>7, <2>8
<1> QED BY <1>4, <1>5, <1>6

(* A borrow that wins its CAS holds a lease on the body it captured. *)
LEMMA BorrowStep ==
  ASSUME IInv, NEW t \in Threads, BorrowCas(t)
  PROVE  IInv'
<1> USE Constants DEF Key
<1>0. /\ TypeOK /\ token \in Token /\ token.inc \in Nat /\ CallInv(t)
      /\ token.leases \in Nat /\ body \in BodyValue /\ body.inc \in Nat
      /\ BodyMatchesToken /\ ComponentsValid(token) /\ Owners
      /\ BorrowedBodyStable /\ at[t].key \in Nat
      /\ at[t].pc = "borrow_cas"
  BY Numbers DEF IInv, TypeOK, BorrowCas, At
<1>1. /\ UNCHANGED <<body, owned>> /\ at' = [at EXCEPT ![t] = Idle]
      /\ \A u \in Threads \ {t} : at'[u] = at[u]
      /\ at'[t].pc = "idle" /\ at'[t].key = 0
  BY <1>0 DEF BorrowCas, Return, TypeOK, Idle
<1>2. CASE UNCHANGED <<token, borrow>>
  <2>1. TypeOK' /\ CallInv(t)'
    BY <1>0, <1>1, <1>2 DEF TypeOK, CallInv
  <2> QED BY <1>1, <1>2, <2>1, LocalStep
<1>3. CASE /\ token = at[t].snap
           /\ token' = Target("borrow", token)
           /\ borrow' = [borrow EXCEPT ![t] = [inc |-> Key(t), ptr |-> at[t].body.ptr]]
  <2>1. /\ token.inc = Key(t) /\ token.state \in BorrowStates
        /\ token.leases # MaxLeases /\ borrow[t] = Inactive
        /\ Published(at[t].body, Key(t)) /\ (Past(Key(t)) \/ body = at[t].body)
    BY <1>0, <1>3 DEF CallInv
  <2>2. body = at[t].body /\ Published(body, token.inc)
    BY <1>0, <2>1 DEF Past, BorrowStates
  <2>3. [inc |-> Key(t), ptr |-> at[t].body.ptr] = body
    BY <1>0, <2>1, <2>2 DEF BodyValue, Published
  <2>4. borrow' = [borrow EXCEPT ![t] = body]
    BY <1>3, <2>3
  <2>5. Admits("borrow", token.inc, token) /\ "borrow" \in Ops
        /\ token.inc \in Incarnations
    BY <1>0, <2>1 DEF Admits, Ops, Token
  <2>6. /\ token' \in Token /\ ComponentsValid(token)' /\ token'.inc = token.inc
        /\ token'.state = token.state /\ token'.leases = token.leases + 1
    BY <1>0, <1>3, <2>1, <2>5, TargetOf, TargetValid DEF ComponentsValid
  <2>7. TypeOK' /\ borrow'[t] = body
        /\ (\A u \in Threads \ {t} : borrow'[u] = borrow[u])
    BY <1>0, <1>1, <2>4, <2>6 DEF TypeOK
  <2>8. SlotStep
    BY <1>0, <1>1, <2>6 DEF SlotStep, Past
  <2>9. BodyMatchesToken' /\ Owners'
    BY <1>0, <1>1, <2>6 DEF BodyMatchesToken, Owners, Published, Unpublished
  <2>10. body # Inactive
    BY <2>2 DEF Published, Inactive, NoBody
  <2>11. Borrowers' = Borrowers \cup {t} /\ t \notin Borrowers
    BY <1>0, <2>1, <2>4, <2>10 DEF Borrowers, TypeOK
  <2>12. Cardinality(Borrowers') = Cardinality(Borrowers) + 1
    BY <1>0, <2>11, BorrowersFinite, FS_AddElement
  <2>13. token'.leases = Cardinality(Borrowers)' + 1
    BY <1>0, <2>1, <2>6, <2>12, BorrowersFinite
       DEF BorrowedBodyStable, BorrowStates
  <2>14. \A u \in Borrowers' : body' = borrow'[u] /\ token'.inc = borrow'[u].inc
    <3>1. ASSUME NEW u \in Borrowers, u # t
          PROVE body' = borrow'[u] /\ token'.inc = borrow'[u].inc
      BY <1>0, <1>1, <2>6, <2>7, <3>1 DEF BorrowedBodyStable, Borrowers
    <3>2. body' = borrow'[t] /\ token'.inc = borrow'[t].inc
      BY <1>1, <2>2, <2>6, <2>7 DEF Published
    <3> QED BY <2>11, <3>1, <3>2
  <2>15. BorrowedBodyStable'
    BY <2>1, <2>6, <2>13, <2>14 DEF BorrowedBodyStable, BorrowStates
  <2>16. CallInv(t)'
    BY <1>0, <1>1, <2>6 DEF CallInv
  <2> QED BY <1>1, <2>6, <2>7, <2>8, <2>9, <2>15, <2>16, SlotChange
<1> QED BY <1>2, <1>3 DEF BorrowCas

(* A release gives exactly one lease back. *)
LEMMA ReleaseStep ==
  ASSUME IInv, NEW t \in Threads, Release(t)
  PROVE  IInv'
<1> USE Constants
<1>0. /\ TypeOK /\ token \in Token /\ token.inc \in Nat /\ CallInv(t)
      /\ token.leases \in Nat /\ body \in BodyValue /\ body.inc \in Nat
      /\ BodyMatchesToken /\ Owners /\ BorrowedBodyStable
      /\ at[t].key \in Nat /\ borrow[t].inc \in Incarnations
  BY Numbers DEF IInv, TypeOK, BodyValue
<1>1. /\ UNCHANGED <<body, at, owned>> /\ at[t].pc = "idle"
      /\ borrow[t] # Inactive /\ borrow' = [borrow EXCEPT ![t] = Inactive]
      /\ TokenCall("release", borrow[t].inc)
  BY DEF Release, At
<1>2. /\ token' \in Token /\ ComponentsValid(token)' /\ token'.inc = token.inc
      /\ token.state \in BorrowStates \cup {"RETIRED", "PINNED"}
      /\ token'.state = token.state /\ token.leases = token'.leases + 1
  BY <1>0, <1>1, TokenStepOf DEF Ops
<1>3. TypeOK' /\ \A u \in Threads \ {t} : borrow'[u] = borrow[u]
  BY <1>0, <1>1, <1>2 DEF TypeOK
<1>4. SlotStep
  BY <1>0, <1>1, <1>2 DEF SlotStep, Past
<1>5. BodyMatchesToken' /\ Owners'
  BY <1>0, <1>1, <1>2 DEF BodyMatchesToken, Owners, Published, Unpublished
<1>6. Borrowers' = Borrowers \ {t} /\ t \in Borrowers
  BY <1>0, <1>1 DEF Borrowers, TypeOK
<1>7. Cardinality(Borrowers') = Cardinality(Borrowers) - 1
  BY <1>0, <1>6, BorrowersFinite, FS_RemoveElement
<1>8. token'.leases \in Nat
  BY <1>2, TokenAssumption DEF Token
<1>9. token'.leases = Cardinality(Borrowers)' + 1
  BY <1>0, <1>2, <1>7, <1>8, BorrowersFinite DEF BorrowedBodyStable
<1>10. \A u \in Borrowers' : body' = borrow'[u] /\ token'.inc = borrow'[u].inc
  BY <1>0, <1>1, <1>2, <1>3, <1>6 DEF BorrowedBodyStable
<1>11. BorrowedBodyStable'
  BY <1>2, <1>9, <1>10 DEF BorrowedBodyStable
<1>12. CallInv(t)'
  BY <1>0, <1>1, <1>2 DEF CallInv
<1> QED BY <1>1, <1>2, <1>3, <1>4, <1>5, <1>11, <1>12, SlotChange

(* The invariant is inductive. *)
LEMMA NextIInv == IInv /\ [Next]_vars => IInv'
<1> SUFFICES ASSUME IInv, [Next]_vars PROVE IInv'
  OBVIOUS
<1>1. CASE UNCHANGED vars
  <2>1. TypeOK' /\ BodyMatchesToken' /\ Owners' /\ BorrowedBodyStable'
        /\ ComponentsValid(token)'
    BY <1>1 DEF vars, IInv, TypeOK, BodyMatchesToken, Owners, BorrowedBodyStable,
       Borrowers, ComponentsValid, Published, Unpublished
  <2>2. ASSUME NEW t \in Threads PROVE CallInv(t)'
    BY <1>1 DEF vars, IInv, CallInv, PinCause, Past
  <2> QED BY <2>1, <2>2 DEF IInv
<1>2. ASSUME NEW t \in Threads, OwnerStep(t) PROVE IInv'
  BY <1>2, EnterSteps, SnapSteps, BodySteps, EdgeSteps, ClaimStep, WriteSteps
     DEF OwnerStep
<1>3. ASSUME NEW t \in Threads, ClientStep(t) PROVE IInv'
  BY <1>3, EnterSteps, SnapSteps, BodySteps, BorrowStep, ReleaseStep DEF ClientStep
<1>4. ASSUME NEW t \in Threads, ReclaimStep(t) PROVE IInv'
  BY <1>4, SnapSteps, BodySteps, EdgeSteps, WriteSteps DEF ReclaimStep
<1>5. ASSUME NEW t \in Threads, Pin(t) \/ EnterAny(t) \/ EnterOwned(t) PROVE IInv'
  BY <1>5, EdgeSteps, EnterSteps
<1> QED BY <1>1, <1>2, <1>3, <1>4, <1>5 DEF Next

(* The inductive invariant holds in every state of every behaviour. *)
THEOREM RegistryInvariant == Spec => []IInv
<1>1. Init => IInv
  BY InitIInv
<1>2. IInv /\ [Next]_vars => IInv'
  BY NextIInv
<1> QED BY <1>1, <1>2, PTL DEF Spec

(* The two words, the calls and the handles keep their types. *)
THEOREM RegistryTypeCorrect == Spec => []TypeOK
<1>1. IInv => TypeOK
  BY DEF IInv
<1> QED BY <1>1, RegistryInvariant, PTL

(* The token and the body word agree in every state. *)
THEOREM RegistryBodyMatches == Spec => []BodyMatchesToken
<1>1. IInv => BodyMatchesToken
  BY DEF IInv
<1> QED BY <1>1, RegistryInvariant, PTL

(* What a borrower may dereference is there, and its lease is counted. *)
THEOREM RegistryBorrowSafe == Spec => []BorrowedBodyStable
<1>1. IInv => BorrowedBodyStable
  BY DEF IInv
<1> QED BY <1>1, RegistryInvariant, PTL

(* A body word is written only to publish it while ATTACHING and to erase  *)
(* it while RECLAIMING, each for the incarnation that is in the slot.      *)
THEOREM RegistryBodyWritten == Spec => BodyWrittenTwice
<1> DEFINE Written == body' # body =>
      \/ /\ token.state = "ATTACHING"
         /\ Unpublished(body, token.inc) /\ Published(body', token.inc)
      \/ /\ token.state = "RECLAIMING"
         /\ Published(body, token.inc) /\ body' = NoBody(token.inc)
<1>1. IInv /\ [Next]_vars => [Written]_vars
  <2> SUFFICES ASSUME IInv, Next, body' # body PROVE Written
    BY DEF vars
  <2>1. PICK t \in Threads : \/ Pin(t) \/ EnterAny(t) \/ EnterOwned(t)
                             \/ OwnerStep(t) \/ ClientStep(t) \/ ReclaimStep(t)
    BY DEF Next
  <2>2. ~Pin(t) /\ ~EnterAny(t) /\ ~EnterOwned(t) /\ ~ClientStep(t)
    BY DEF Pin, EnterAny, EnterOwned, Enter, ClientStep, Lookup, LookupBody,
       LookupAgain, BorrowSnap, BorrowBody, BorrowCas, ReadSnap, ReadBodyAgain,
       Release, ReadBody
  <2>3. OwnerStep(t) => InitBodyCas(t)
    BY DEF OwnerStep, Claim, ClaimBody, ClaimCall, InitBodyEnter, InitBodySnap,
       InitBodyRead, PublishSnap, PublishBody, PublishCall, Detach, Retire, ReadBody
  <2>4. ReclaimStep(t) => ClearCas(t)
    BY DEF ReclaimStep, ReclaimSnap, ReclaimBody, ReclaimCall, ClearSnap,
       ClearBody, ClearAgain, FinishBody, FinishCall, ReadBody
  <2>5. InitBodyCas(t) => Written
    BY Installs
  <2>6. ClearCas(t) => Written
    BY Erases
  <2> QED BY <2>1, <2>2, <2>3, <2>4, <2>5, <2>6
<1> QED BY <1>1, RegistryInvariant, PTL DEF Spec, BodyWrittenTwice

(* The slot is pinned only for a cause, never by a race of its readers. *)
THEOREM RegistryPinned == Spec => PinnedOnlyForCause
<1> DEFINE Cause == token.state # "PINNED" /\ token'.state = "PINNED" =>
      \/ token.leases = MaxLeases
      \/ token.state = "RETIRED" /\ body.ptr = NULL
<1>1. IInv /\ [Next]_vars => [Cause]_vars
  <2> SUFFICES ASSUME IInv, Next, token.state # "PINNED", token'.state = "PINNED"
               PROVE  Cause
    BY DEF vars
  <2>0. /\ token' # token /\ TypeOK
        /\ \A t \in Threads : /\ CallInv(t) /\ at[t].key \in Incarnations
                             /\ owned[t] \in Incarnations
                             /\ borrow[t].inc \in Incarnations
    BY DEF IInv, TypeOK, BodyValue
  <2>1. PICK t \in Threads : \/ Pin(t) \/ EnterAny(t) \/ EnterOwned(t)
                             \/ OwnerStep(t) \/ ClientStep(t) \/ ReclaimStep(t)
    BY DEF Next
  <2>2. ~EnterAny(t) /\ ~EnterOwned(t)
    BY <2>0 DEF EnterAny, EnterOwned, Enter
  <2>3. ~OwnerStep(t)
    <3>1. OwnerStep(t) => \/ TokenCall("claim", 0)
                         \/ \E op \in EdgeOps, k \in Incarnations : TokenCall(op, k)
      BY <2>0 DEF OwnerStep, Claim, ClaimBody, ClaimCall, InitBodyEnter,
         InitBodySnap, InitBodyRead, InitBodyCas, PublishSnap, PublishBody,
         PublishCall, Detach, Retire, ReadBody, Key, EdgeOps
    <3> QED BY <2>0, <3>1, TokenEdge, TokenStepOf, Constants
            DEF EdgeOps, Ops
  <2>4. ~ReclaimStep(t)
    <3>1. ReclaimStep(t) => \/ TokenCall("reclaim", Key(t))
                           \/ TokenCall("finish", Key(t))
      BY <2>0 DEF ReclaimStep, ReclaimSnap, ReclaimBody, ReclaimCall, ClearSnap,
         ClearBody, ClearAgain, ClearCas, FinishBody, FinishCall, ReadBody
    <3> QED BY <2>0, <3>1, TokenEdge, TokenStepOf DEF EdgeOps, Ops, Key
  <2>5. ClientStep(t) => BorrowCas(t)
    <3>1. ClientStep(t) => BorrowCas(t) \/ TokenCall("release", borrow[t].inc)
      BY <2>0 DEF ClientStep, Lookup, LookupBody, LookupAgain, BorrowSnap,
         BorrowBody, ReadSnap, ReadBodyAgain, Release, ReadBody
    <3> QED BY <2>0, <3>1, TokenStepOf DEF Ops
  <2>6. BorrowCas(t) => Cause
    <3> SUFFICES ASSUME BorrowCas(t) PROVE token.leases = MaxLeases
      OBVIOUS
    <3>1. /\ token = at[t].snap /\ token' = Target("borrow", token)
          /\ at[t].pc = "borrow_cas"
      BY <2>0 DEF BorrowCas, At
    <3>2. token.inc = at[t].key /\ token.state \in BorrowStates
      BY <2>0, <3>1 DEF CallInv
    <3>3. /\ token \in Token /\ "borrow" \in Ops
          /\ Admits("borrow", at[t].key, token)
      BY <2>0, <3>2, Numbers DEF Admits, Ops, IInv
    <3> QED BY <2>0, <3>1, <3>2, <3>3, TargetOf
  <2>7. Pin(t) => Cause
    <3> SUFFICES ASSUME Pin(t) PROVE Cause
      OBVIOUS
    <3>1. token = at[t].snap /\ at[t].pc = "pin"
      BY <2>0 DEF Pin, At
    <3>2. PinCause(at[t]) /\ token.inc \in Nat
      BY <2>0, <3>1, Numbers DEF CallInv
    <3> QED BY <3>1, <3>2 DEF PinCause, Past, BorrowStates
  <2> QED BY <2>1, <2>2, <2>3, <2>4, <2>5, <2>6, <2>7
<1> QED BY <1>1, RegistryInvariant, PTL DEF Spec, PinnedOnlyForCause
=============================================================================
