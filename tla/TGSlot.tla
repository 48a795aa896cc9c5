------------------------------- MODULE TGSlot -------------------------------
(***************************************************************************)
(* The lock-free calls of lj_tgslot.h on one slot: every client reads the  *)
(* token with three loads (hi, lo, hi again), decides, and then attempts   *)
(* one exact 128-bit CAS.  Nothing is held between the loads and the CAS,  *)
(* so the token may run through whole incarnations in between.             *)
(*                                                                         *)
(* A client calls under the contract of the header: the claimer of an      *)
(* incarnation is the one actor that publishes, aborts, detaches or        *)
(* retires it; a lease is released once, by the client that borrowed it;   *)
(* any client may hold a key of any incarnation issued so far.             *)
(***************************************************************************)
EXTENDS TGSlotToken, FiniteSets

CONSTANT Clients

ASSUME ClientsAssumption == IsFiniteSet(Clients)

VARIABLES
  token,    \* the CX16 word: lo = inc, hi = <<leases, state>>
  pc,       \* where each client is inside its call
  call,     \* the call: operation and incarnation of the key
  snap,     \* what the loads of the call have read so far
  owned,    \* the incarnation each client claimed and has not yet retired, or 0
  leased    \* the incarnation each client holds a lease on, or 0

vars == <<token, pc, call, snap, owned, leased>>

NoCall == [op |-> "none", key |-> 0]

TypeOK ==
  /\ token \in Token
  /\ pc \in [Clients -> {"idle", "hi", "lo", "again", "cas"}]
  /\ call \in [Clients -> [op: Ops, key: Incarnations] \cup {NoCall}]
  /\ snap \in [Clients -> Token]
  /\ owned \in [Clients -> Incarnations]
  /\ leased \in [Clients -> Incarnations]

(* lj_tgslot_init_empty_unpublished, before the slot is linked. *)
Init ==
  /\ \E inc \in Incarnations : token = EmptyToken(inc)
  /\ pc = [c \in Clients |-> "idle"]
  /\ call = [c \in Clients |-> NoCall]
  /\ snap = [c \in Clients |-> EmptyToken(0)]
  /\ owned = [c \in Clients |-> 0]
  /\ leased = [c \in Clients |-> 0]

(* Back in the caller.  The scratch of the call is dead: reset it. *)
Return(c) ==
  /\ pc' = [pc EXCEPT ![c] = "idle"]
  /\ call' = [call EXCEPT ![c] = NoCall]
  /\ snap' = [snap EXCEPT ![c] = EmptyToken(0)]

(* The keys client c may pass to operation op. *)
KeysOf(c, op) ==
  CASE op = "claim"   -> IF owned[c] = 0 THEN {0} ELSE {}
    [] op = "borrow"  -> IF leased[c] = 0 THEN 1..token.inc ELSE {}
    [] op = "release" -> {leased[c]} \ {0}
    [] op \in {"reclaim", "finish"} -> 1..token.inc
    [] OTHER          -> {owned[c]} \ {0}

Call(c, op) ==
  /\ pc[c] = "idle"
  /\ \E k \in KeysOf(c, op) : call' = [call EXCEPT ![c] = [op |-> op, key |-> k]]
  /\ pc' = [pc EXCEPT ![c] = "hi"]
  /\ UNCHANGED <<token, snap, owned, leased>>

(* lj_tgslot_snapshot: hi, then lo, then hi again until both agree. *)
LoadHi(c) ==
  /\ pc[c] = "hi"
  /\ snap' = [snap EXCEPT ![c] = [token EXCEPT !.inc = 0]]
  /\ pc' = [pc EXCEPT ![c] = "lo"]
  /\ UNCHANGED <<token, call, owned, leased>>

LoadLo(c) ==
  /\ pc[c] = "lo"
  /\ snap' = [snap EXCEPT ![c].inc = token.inc]
  /\ pc' = [pc EXCEPT ![c] = "again"]
  /\ UNCHANGED <<token, call, owned, leased>>

SameHi(s, t) == s.leases = t.leases /\ s.state = t.state

(* The second load of hi, and the early returns of the call. *)
LoadAgain(c) ==
  /\ pc[c] = "again"
  /\ IF ~SameHi(snap[c], token)
     THEN /\ pc' = [pc EXCEPT ![c] = "hi"]
          /\ snap' = [snap EXCEPT ![c] = EmptyToken(0)]
          /\ UNCHANGED call
     ELSE IF Admits(call[c].op, call[c].key, snap[c])
     THEN pc' = [pc EXCEPT ![c] = "cas"] /\ UNCHANGED <<call, snap>>
     ELSE Return(c)
  /\ UNCHANGED <<token, owned, leased>>

(* Mutant: an aborted attach leaves the claimer its ownership. *)
LearnKeepsAborted(c, op, new) ==
  /\ owned' = [owned EXCEPT ![c] =
       CASE op = "claim" /\ new.state = "ATTACHING" -> new.inc
         [] op = "retire" -> 0
         [] OTHER -> @]
  /\ leased' = [leased EXCEPT ![c] =
       CASE op = "borrow" /\ new.state # "PINNED" -> new.inc
         [] op = "release" -> 0
         [] OTHER -> @]

(* What the caller learns from LJ_TGSLOT_OK (a borrow that pinned is not OK). *)
Learn(c, op, new) ==
  /\ owned' = [owned EXCEPT ![c] =
       CASE op = "claim" /\ new.state = "ATTACHING" -> new.inc
         [] op \in {"retire", "abort"} -> 0
         [] OTHER -> @]
  /\ leased' = [leased EXCEPT ![c] =
       CASE op = "borrow" /\ new.state # "PINNED" -> new.inc
         [] op = "release" -> 0
         [] OTHER -> @]

(* Mutants: the CAS compares less than the whole word. *)
CasComparing(c, same) ==
  LET new == Target(call[c].op, snap[c])
  IN /\ pc[c] = "cas" /\ same
     /\ ReplacementValid(snap[c], new)
     /\ token' = new
     /\ Learn(c, call[c].op, new)
     /\ Return(c)

CasWithoutCount(c) ==
  CasComparing(c, token.inc = snap[c].inc /\ token.state = snap[c].state)
CasWithoutInc(c) == CasComparing(c, SameHi(token, snap[c]))
CasBlind(c) == CasComparing(c, TRUE)

(* Mutant: a borrow adds its lease at the limit too, and nothing behind it *)
(* looks at the count again.                                               *)
CasUnsaturated(c) ==
  LET new == IF call[c].op = "borrow" THEN [snap[c] EXCEPT !.leases = @ + 1]
             ELSE Target(call[c].op, snap[c])
  IN /\ pc[c] = "cas"
     /\ token = snap[c]
     /\ token' = new
     /\ Learn(c, call[c].op, new)
     /\ Return(c)

(* lj_tgslot_try_replace: the exact CAS against the snapshot. *)
CasOk(c) ==
  LET new == Target(call[c].op, snap[c])
  IN /\ pc[c] = "cas"
     /\ token = snap[c]
     /\ ReplacementValid(snap[c], new)
     /\ token' = new
     /\ Learn(c, call[c].op, new)
     /\ Return(c)

(* LJ_TGSLOT_LOST: the caller may call again.  A release is retried at once *)
(* (lj_tgregistry_release_to_completion).                                   *)
CasLost(c) ==
  /\ pc[c] = "cas"
  /\ token # snap[c]
  /\ IF call[c].op = "release"
     THEN /\ pc' = [pc EXCEPT ![c] = "hi"]
          /\ snap' = [snap EXCEPT ![c] = EmptyToken(0)]
          /\ UNCHANGED call
     ELSE Return(c)
  /\ UNCHANGED <<token, owned, leased>>

Step(c) == LoadHi(c) \/ LoadLo(c) \/ LoadAgain(c) \/ CasOk(c) \/ CasLost(c)

Next == \E c \in Clients : Step(c) \/ \E op \in Ops : Call(c, op)

Spec == Init /\ [][Next]_vars

(***************************************************************************)
(* A call that was entered runs to its end, and a client gives back what   *)
(* it borrowed (the guards of lj_gc2.c release at scope exit) even though  *)
(* it makes other calls in between.  Nobody has to reclaim: a program with *)
(* two live threads may never do so (tg_reclaim_dead_admissible).          *)
(***************************************************************************)
Fairness ==
  \A c \in Clients : WF_vars(Step(c)) /\ SF_vars(Call(c, "release"))

FairSpec == Spec /\ Fairness

-----------------------------------------------------------------------------
OwnerOps == {"publish", "detach", "retire", "abort"}

Borrowers == {c \in Clients : leased[c] # 0}

(* A lease keeps its body: while a client holds a lease on incarnation k   *)
(* the slot still hosts k and has not entered RECLAIMING, and the count in *)
(* the token is the owner's lease plus one per borrower, whatever CASes    *)
(* were lost on the way.  Guards the body reads of lj_gc2.c under a borrow.*)
LeaseHolds ==
  /\ \A c \in Borrowers : leased[c] = token.inc
  /\ IF token.state \in BorrowStates \cup {"RETIRED", "PINNED"}
     THEN token.leases = Cardinality(Borrowers) + 1
     ELSE Borrowers = {}

(* The owner is alone: at most one client owns the slot, it owns the       *)
(* incarnation the slot is in, and the slot cannot be retired, reclaimed   *)
(* or reissued behind its back.                                            *)
OneOwner ==
  \A c \in Clients : owned[c] # 0 =>
    /\ owned[c] = token.inc
    /\ token.state \in BorrowStates \cup {"PINNED"}
    /\ \A d \in Clients : owned[d] # 0 => d = c

(* What a client inside a call relies on: its handle is still what it was  *)
(* when it entered, and a snapshot that reached the CAS passed the checks. *)
CallInv(c) ==
  /\ pc[c] # "idle" => call[c] # NoCall
  /\ call[c].op = "claim" => owned[c] = 0
  /\ call[c].op \in OwnerOps => owned[c] = call[c].key /\ owned[c] # 0
  /\ call[c].op = "borrow" => leased[c] = 0
  /\ call[c].op = "release" => leased[c] = call[c].key /\ leased[c] # 0
  /\ pc[c] = "cas" => Admits(call[c].op, call[c].key, snap[c])

(* The inductive invariant of the proofs. *)
IInv == TypeOK /\ LeaseHolds /\ OneOwner /\ \A c \in Clients : CallInv(c)

(* A key of an old incarnation is inert: only a call whose key names the   *)
(* incarnation the slot is in can change the token, so a client delayed    *)
(* across a reuse never borrows, releases, retires or reclaims the next    *)
(* tenant.                                                                 *)
StaleKeyInert ==
  [][token' # token =>
       \E c \in Clients : /\ call[c] # call'[c]
                          /\ call[c].op = "claim" \/ call[c].key = token.inc]_vars

(* As many borrowers as the count can hold next to the owner's lease. *)
Crowds == {S \in SUBSET Clients : Cardinality(S) + 1 = MaxLeases}

(* The slot as a lifecycle with named leases instead of a count. *)
Lifecycle == INSTANCE TGLifecycle
  WITH inc <- token.inc, phase <- token.state, holders <- Borrowers

(* The CAS protocol implements that lifecycle: each successful CAS is one  *)
(* of its steps and nothing else changes it.                               *)
ImplementsLifecycle == Lifecycle!Spec

(* A retired slot drains down to the owner's lease, the one count at which *)
(* lj_tgslot_try_reclaim_begin takes it: no release is refused because     *)
(* admission has closed, or loses its CAS for ever.  Whether anybody then  *)
(* reclaims is the caller's choice.                                        *)
RetiredDrains == token.state = "RETIRED" ~> token.leases = 1
=============================================================================
