----------------------------- MODULE TGRegistry -----------------------------
(***************************************************************************)
(* One stable registry slot (lj_tgregistry.h): the lifecycle token of      *)
(* lj_tgslot.h next to a second 128-bit word that publishes the body       *)
(* pointer together with the incarnation that owns it.  A call reads the   *)
(* two words at different moments and may then pin the slot for good if    *)
(* they disagree, so every read and every CAS is a step of its own here.   *)
(*                                                                         *)
(* Calls of lj_tgslot.h take effect at their CAS: TokenCall is that CAS,   *)
(* or the return of a call that was refused or lost it (TGSlot has the     *)
(* loads in between).  A body snapshot is one read: the incarnation half   *)
(* only grows, so the second load of it proves the pair.                   *)
(***************************************************************************)
EXTENDS TGSlotToken, FiniteSets

CONSTANTS Threads, Bodies, NULL

ASSUME RegistryAssumption == NULL \notin Bodies /\ IsFiniteSet(Threads)

VARIABLES
  token,   \* slot->token
  body,    \* slot->body_value: hi = inc, lo = ptr
  at,      \* each thread's call: pc, key, and the snapshots it took
  owned,   \* the incarnation a thread claimed and still owns, or 0
  borrow   \* the borrow handle of each thread: key incarnation and body

vars == <<token, body, at, owned, borrow>>

BodyValue == [inc: Incarnations, ptr: Bodies \cup {NULL}]
NoBody(k) == [inc |-> k, ptr |-> NULL]

(* lj_tgregistry_body_is_published, lj_tgregistry_body_is_unpublished. *)
Published(b, k) == b.ptr # NULL /\ b.inc = k
Unpublished(b, k) == b.ptr = NULL /\ b.inc = k - 1

Idle == [pc |-> "idle", key |-> 0, snap |-> EmptyToken(0), body |-> NoBody(0)]
Inactive == NoBody(0)

PCs == {"idle", "pin", "claim_body", "claim_call", "init", "init_body",
        "init_cas", "publish", "publish_body", "publish_call",
        "lookup_body", "lookup_again", "borrow", "borrow_body", "borrow_cas",
        "read", "read_body", "reclaim", "reclaim_body", "reclaim_call",
        "clear", "clear_body", "clear_again", "clear_cas", "finish_body",
        "finish_call"}

TypeOK ==
  /\ token \in Token
  /\ body \in BodyValue
  /\ at \in [Threads -> [pc: PCs, key: Incarnations, snap: Token, body: BodyValue]]
  /\ owned \in [Threads -> Incarnations]
  /\ borrow \in [Threads -> BodyValue]

(* lj_tgregistry_slot_init_unpublished. *)
Init ==
  /\ \E k \in Incarnations : token = EmptyToken(k) /\ body = NoBody(k)
  /\ at = [t \in Threads |-> Idle]
  /\ owned = [t \in Threads |-> 0]
  /\ borrow = [t \in Threads |-> Inactive]

-----------------------------------------------------------------------------
Return(t) == at' = [at EXCEPT ![t] = Idle]
Goto(t, pc) == at' = [at EXCEPT ![t].pc = pc]
At(t, pc) == at[t].pc = pc
Key(t) == at[t].key

(* Take a snapshot of the body and go on: at pc if ok, else to the refusal. *)
TakeBody(t, pc) == at' = [at EXCEPT ![t].pc = pc, ![t].body = body]

(* lj_tgregistry_key_snapshot: STALE, PINNED and EXHAUSTED return; so does a *)
(* state the call refuses.                                                   *)
KeySnap(t, admitted, pc) ==
  IF token.inc = Key(t) /\ token.state \in admitted
  THEN at' = [at EXCEPT ![t].pc = pc, ![t].snap = token]
  ELSE Return(t)

(* A thread enters a call with a key. *)
Enter(t, k, pc) ==
  /\ At(t, "idle")
  /\ at' = [at EXCEPT ![t] = [Idle EXCEPT !.pc = pc, !.key = k]]
  /\ UNCHANGED <<token, body, owned, borrow>>

(* The effect of a call of lj_tgslot.h with this key, at its CAS. *)
TokenCall(op, k) == Admits(op, k, token) /\ token' = Target(op, token)

(* lj_tgslot_try_pin against the snapshot the call took. *)
Pin(t) ==
  /\ At(t, "pin")
  /\ token' = IF token = at[t].snap THEN Pinned(token) ELSE token
  /\ Return(t)
  /\ UNCHANGED <<body, owned, borrow>>

(* Read the body, then follow one of the outcomes the call distinguishes. *)
ReadBody(t, from, outcome) ==
  /\ At(t, from)
  /\ outcome
  /\ UNCHANGED <<token, body, owned, borrow>>

-----------------------------------------------------------------------------
(* lj_tgregistry_try_claim.  Only an EMPTY snapshot checks the body. *)
Claim(t) ==
  /\ At(t, "idle") /\ owned[t] = 0
  /\ token.state \notin {"PINNED", "EXHAUSTED"}
  /\ at' = [at EXCEPT ![t] = [Idle EXCEPT !.snap = token, !.pc =
              IF token.state = "EMPTY" THEN "claim_body" ELSE "claim_call"]]
  /\ UNCHANGED <<token, body, owned, borrow>>

ClaimBody(t) ==
  ReadBody(t, "claim_body",
    IF body = NoBody(at[t].snap.inc) THEN Goto(t, "claim_call") ELSE Return(t))

ClaimCall(t) ==
  /\ At(t, "claim_call")
  /\ \/ /\ TokenCall("claim", 0)
        /\ owned' = [owned EXCEPT ![t] =
             IF token'.state = "ATTACHING" THEN token'.inc ELSE 0]
     \/ UNCHANGED <<token, owned>>
  /\ Return(t)
  /\ UNCHANGED <<body, borrow>>

(* lj_tgregistry_try_publish_body, by the owner, with body pointer p. *)
InitBodyEnter(t) ==
  /\ At(t, "idle") /\ owned[t] # 0
  /\ \E p \in Bodies :
       at' = [at EXCEPT ![t] = [Idle EXCEPT !.pc = "init", !.key = owned[t],
                                            !.body = [inc |-> owned[t], ptr |-> p]]]
  /\ UNCHANGED <<token, body, owned, borrow>>

InitBodySnap(t) ==
  /\ At(t, "init")
  /\ KeySnap(t, {"ATTACHING", "LIVE"}, "init_body")
  /\ UNCHANGED <<token, body, owned, borrow>>

InitBodyRead(t) ==
  ReadBody(t, "init_body",
    IF body = at[t].body THEN Return(t)
    ELSE IF at[t].snap.state = "ATTACHING" THEN Goto(t, "init_cas")
    ELSE IF Published(body, Key(t)) THEN Return(t)
    ELSE Goto(t, "pin"))

(* Mutant: the body is stored whatever the word holds by now. *)
InitBodyStore(t) ==
  /\ At(t, "init_cas")
  /\ body' = at[t].body
  /\ Return(t)
  /\ UNCHANGED <<token, owned, borrow>>

InitBodyCas(t) ==
  /\ At(t, "init_cas")
  /\ IF body = NoBody(Key(t) - 1)
     THEN body' = at[t].body /\ Return(t)
     ELSE /\ UNCHANGED body
          /\ IF /\ body # at[t].body
                /\ ~Published(body, Key(t))
                /\ body.inc \in {Key(t), Key(t) - 1}
             THEN Goto(t, "pin") ELSE Return(t)
  /\ UNCHANGED <<token, owned, borrow>>

(* lj_tgregistry_try_publish, by the owner. *)
PublishSnap(t) ==
  /\ At(t, "publish")
  /\ KeySnap(t, {"ATTACHING", "LIVE"}, "publish_body")
  /\ UNCHANGED <<token, body, owned, borrow>>

(* Mutant: a slot is published before it has its body. *)
PublishBodyUnchecked(t) ==
  ReadBody(t, "publish_body",
    IF at[t].snap.state = "LIVE" THEN Return(t) ELSE Goto(t, "publish_call"))

PublishBody(t) ==
  ReadBody(t, "publish_body",
    IF Published(body, Key(t))
    THEN IF at[t].snap.state = "LIVE" THEN Return(t) ELSE Goto(t, "publish_call")
    ELSE IF at[t].snap.state = "ATTACHING" /\ Unpublished(body, Key(t))
    THEN Return(t) ELSE Goto(t, "pin"))

PublishCall(t) ==
  /\ At(t, "publish_call")
  /\ TokenCall("publish", Key(t)) \/ UNCHANGED token
  /\ Return(t)
  /\ UNCHANGED <<body, owned, borrow>>

(* lj_tgregistry_try_detach. *)
Detach(t) ==
  /\ At(t, "idle") /\ owned[t] # 0
  /\ TokenCall("detach", owned[t])
  /\ UNCHANGED <<body, at, owned, borrow>>

(* lj_tgregistry_try_retire, lj_tgregistry_try_abort_attach: either one ends *)
(* the ownership of the claimer.                                             *)
Retire(t, op) ==
  /\ At(t, "idle") /\ owned[t] # 0
  /\ TokenCall(op, owned[t])
  /\ owned' = [owned EXCEPT ![t] = 0]
  /\ UNCHANGED <<body, at, borrow>>

-----------------------------------------------------------------------------
(* lj_tgregistry_try_borrowable_key: a scan that holds no key yet.  The key  *)
(* it yields is one of those Borrow may be entered with.                     *)
Lookup(t) ==
  /\ At(t, "idle")
  /\ token.state \in BorrowStates
  /\ at' = [at EXCEPT ![t] = [Idle EXCEPT !.pc = "lookup_body",
                                !.key = token.inc, !.snap = token]]
  /\ UNCHANGED <<token, body, owned, borrow>>

LookupBody(t) ==
  ReadBody(t, "lookup_body",
    IF \/ Published(body, Key(t))
       \/ at[t].snap.state = "ATTACHING" /\ Unpublished(body, Key(t))
    THEN Goto(t, "lookup_again") ELSE Goto(t, "pin"))

LookupAgain(t) == ReadBody(t, "lookup_again", Return(t))

(* lj_tgregistry_try_borrow. *)
BorrowSnap(t) ==
  /\ At(t, "borrow")
  /\ KeySnap(t, BorrowStates, "borrow_body")
  /\ UNCHANGED <<token, body, owned, borrow>>

(* Mutant: a slot that is being attached must have its body. *)
BorrowBodyStrict(t) ==
  ReadBody(t, "borrow_body",
    IF Published(body, Key(t)) /\ at[t].snap.leases # MaxLeases
    THEN TakeBody(t, "borrow_cas")
    ELSE Goto(t, "pin"))

BorrowBody(t) ==
  ReadBody(t, "borrow_body",
    IF Published(body, Key(t))
    THEN IF at[t].snap.leases = MaxLeases THEN Goto(t, "pin")
                                          ELSE TakeBody(t, "borrow_cas")
    ELSE IF at[t].snap.state = "ATTACHING" /\ Unpublished(body, Key(t))
    THEN Return(t) ELSE Goto(t, "pin"))

(* Mutant: the lease is added to whatever incarnation is there now. *)
BorrowCasAnyInc(t) ==
  /\ At(t, "borrow_cas")
  /\ IF token.state = at[t].snap.state /\ token.leases = at[t].snap.leases
     THEN /\ token' = Target("borrow", token)
          /\ borrow' = [borrow EXCEPT ![t] = [inc |-> Key(t), ptr |-> at[t].body.ptr]]
     ELSE UNCHANGED <<token, borrow>>
  /\ Return(t)
  /\ UNCHANGED <<body, owned>>

BorrowCas(t) ==
  /\ At(t, "borrow_cas")
  /\ IF token = at[t].snap
     THEN /\ token' = Target("borrow", token)
          /\ borrow' = [borrow EXCEPT ![t] = [inc |-> Key(t), ptr |-> at[t].body.ptr]]
     ELSE UNCHANGED <<token, borrow>>
  /\ Return(t)
  /\ UNCHANGED <<body, owned>>

(* lj_tgregistry_try_body_snapshot, under the held lease. *)
ReadSnap(t) ==
  /\ At(t, "read")
  /\ KeySnap(t, BorrowStates \cup {"RETIRED"}, "read_body")
  /\ UNCHANGED <<token, body, owned, borrow>>

ReadBodyAgain(t) ==
  ReadBody(t, "read_body", IF body = borrow[t] THEN Return(t) ELSE Goto(t, "pin"))

(* lj_tgregistry_release_to_completion: LOST is retried inside the call. *)
Release(t) ==
  /\ At(t, "idle") /\ borrow[t] # Inactive
  /\ TokenCall("release", borrow[t].inc)
  /\ borrow' = [borrow EXCEPT ![t] = Inactive]
  /\ UNCHANGED <<body, at, owned>>

-----------------------------------------------------------------------------
(* lj_tgregistry_try_reclaim. *)
ReclaimSnap(t) ==
  /\ At(t, "reclaim")
  /\ KeySnap(t, {"RETIRED"}, "reclaim_body")
  /\ UNCHANGED <<token, body, owned, borrow>>

ReclaimBody(t) ==
  ReadBody(t, "reclaim_body",
    Goto(t, IF Published(body, Key(t)) THEN "reclaim_call" ELSE "pin"))

ReclaimCall(t) ==
  /\ At(t, "reclaim_call")
  /\ TokenCall("reclaim", Key(t)) \/ UNCHANGED token
  /\ Return(t)
  /\ UNCHANGED <<body, owned, borrow>>

(* lj_tgregistry_try_clear. *)
ClearSnap(t) ==
  /\ At(t, "clear")
  /\ KeySnap(t, {"RECLAIMING"}, "clear_body")
  /\ UNCHANGED <<token, body, owned, borrow>>

ClearBody(t) ==
  ReadBody(t, "clear_body",
    IF body.inc # Key(t) THEN Return(t)
    ELSE IF body.ptr = NULL THEN Goto(t, "finish_body")
    ELSE TakeBody(t, "clear_again"))

(* lj_tgregistry_try_clear_captured revalidates the lifecycle ... *)
ClearAgain(t) ==
  /\ At(t, "clear_again")
  /\ IF token = EmptyToken(Key(t)) THEN Goto(t, "finish_body")
                                   ELSE KeySnap(t, {"RECLAIMING"}, "clear_cas")
  /\ UNCHANGED <<token, body, owned, borrow>>

(* Mutants: the erase compares the pointer only; it leaves the canonical   *)
(* value of the next incarnation.                                          *)
ClearCasPointer(t) ==
  /\ At(t, "clear_cas")
  /\ body' = IF body.ptr = at[t].body.ptr THEN NoBody(Key(t)) ELSE body
  /\ IF body' = NoBody(Key(t)) THEN Goto(t, "finish_body") ELSE Return(t)
  /\ UNCHANGED <<token, owned, borrow>>

ClearCasNext(t) ==
  /\ At(t, "clear_cas")
  /\ body' = IF body = at[t].body THEN NoBody(Key(t) + 1) ELSE body
  /\ IF body' # body THEN Goto(t, "finish_body") ELSE Return(t)
  /\ UNCHANGED <<token, owned, borrow>>

(* ... and erases exactly the captured pair. *)
ClearCas(t) ==
  /\ At(t, "clear_cas")
  /\ body' = IF body = at[t].body THEN NoBody(Key(t)) ELSE body
  /\ IF body' = NoBody(Key(t)) THEN Goto(t, "finish_body") ELSE Return(t)
  /\ UNCHANGED <<token, owned, borrow>>

(* lj_tgregistry_try_finish_clear. *)
FinishBody(t) ==
  ReadBody(t, "finish_body",
    IF body = NoBody(Key(t)) THEN Goto(t, "finish_call") ELSE Return(t))

FinishCall(t) ==
  /\ At(t, "finish_call")
  /\ TokenCall("finish", Key(t)) \/ UNCHANGED token
  /\ Return(t)
  /\ UNCHANGED <<body, owned, borrow>>

-----------------------------------------------------------------------------
(* Any thread may hold a key of any incarnation issued so far. *)
EnterAny(t) ==
  \E k \in 1..token.inc :
    \/ borrow[t] = Inactive /\ Enter(t, k, "borrow")
    \/ Enter(t, k, "reclaim")
    \/ Enter(t, k, "clear")

EnterOwned(t) ==
  \/ owned[t] # 0 /\ Enter(t, owned[t], "publish")
  \/ borrow[t] # Inactive /\ Enter(t, borrow[t].inc, "read")

OwnerStep(t) ==
  \/ Claim(t) \/ ClaimBody(t) \/ ClaimCall(t)
  \/ InitBodyEnter(t) \/ InitBodySnap(t) \/ InitBodyRead(t) \/ InitBodyCas(t)
  \/ PublishSnap(t) \/ PublishBody(t) \/ PublishCall(t)
  \/ Detach(t) \/ Retire(t, "retire") \/ Retire(t, "abort")

ClientStep(t) ==
  \/ Lookup(t) \/ LookupBody(t) \/ LookupAgain(t)
  \/ BorrowSnap(t) \/ BorrowBody(t) \/ BorrowCas(t)
  \/ ReadSnap(t) \/ ReadBodyAgain(t) \/ Release(t)

ReclaimStep(t) ==
  \/ ReclaimSnap(t) \/ ReclaimBody(t) \/ ReclaimCall(t)
  \/ ClearSnap(t) \/ ClearBody(t) \/ ClearAgain(t) \/ ClearCas(t)
  \/ FinishBody(t) \/ FinishCall(t)

Next == \E t \in Threads :
  \/ Pin(t) \/ EnterAny(t) \/ EnterOwned(t)
  \/ OwnerStep(t) \/ ClientStep(t) \/ ReclaimStep(t)

Spec == Init /\ [][Next]_vars

-----------------------------------------------------------------------------
Borrowers == {t \in Threads : borrow[t] # Inactive}

(* The two words of the slot agree in every state, although no operation   *)
(* writes both: a LIVE or DETACHING slot publishes a body of exactly its   *)
(* incarnation, an EMPTY one none, so a scanner that reads token and body  *)
(* one after the other finds a mismatch only if the slot changed.          *)
BodyMatchesToken ==
  /\ token.state \in {"EMPTY", "EXHAUSTED"} => body = NoBody(token.inc)
  /\ token.state \in {"LIVE", "DETACHING"} => Published(body, token.inc)
  /\ token.state = "RECLAIMING" => body.inc = token.inc
  /\ token.state \in {"ATTACHING", "RETIRED", "PINNED"} =>
       Published(body, token.inc) \/ Unpublished(body, token.inc)

(* What a borrower may dereference is there: an active borrow handle names *)
(* the pair the slot publishes, its incarnation has not been reclaimed,    *)
(* and its lease is counted (try_body_snapshot, lj_gc2.c guards).          *)
BorrowedBodyStable ==
  /\ \A t \in Borrowers : body = borrow[t] /\ token.inc = borrow[t].inc
  /\ IF token.state \in BorrowStates \cup {"RETIRED", "PINNED"}
     THEN token.leases = Cardinality(Borrowers) + 1
     ELSE Borrowers = {}

(* The body word changes twice per incarnation: once from the canonical    *)
(* unpublished value while ATTACHING, and once back to NULL while the slot *)
(* is RECLAIMING that incarnation with no lease.  A clear helper delayed   *)
(* across a reuse never erases the next body, even at the same address.    *)
BodyWrittenTwice ==
  [][body' # body =>
       \/ /\ token.state = "ATTACHING"
          /\ Unpublished(body, token.inc) /\ Published(body', token.inc)
       \/ /\ token.state = "RECLAIMING"
          /\ Published(body, token.inc) /\ body' = NoBody(token.inc)]_vars

(* No false corruption: the slot is pinned only when its lease count is    *)
(* saturated, or when a claimer aborted before it published a body.  No    *)
(* interleaving of a scan with a reuse makes the mismatch checks fire.     *)
PinnedOnlyForCause ==
  [][token.state # "PINNED" /\ token'.state = "PINNED" =>
       \/ token.leases = MaxLeases
       \/ token.state = "RETIRED" /\ body.ptr = NULL]_vars
=============================================================================
