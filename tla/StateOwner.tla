----------------------------- MODULE StateOwner -----------------------------
(***************************************************************************)
(* The ownership of one lua_State L (lj_thr.c) and what the collector does *)
(* with it: scan the stack under the GCSCAN sentinel, hand the scan to the *)
(* running owner by the NEEDSCAN token (lj_gc2.c), or prepare the dead     *)
(* state for its memory to be reused under GCPREP (lj_state.c).            *)
(*                                                                         *)
(* The owner word is {tid, actor}.  Every load and every CAS of it that a  *)
(* decision hangs on is a step; a loop that loads the word and retries a   *)
(* failed CAS takes effect at one step.  The traversal of a stack is one   *)
(* step, with the outcome "complete" or "retry".  Gc is the thread that    *)
(* holds the collector's worker token; which worker that is may change from *)
(* item to item, and the owner word records it.                            *)
(***************************************************************************)
EXTENDS Naturals, FiniteSets

CONSTANTS
  Mutators,    \* threads that run Lua, each with a live TG
  Workers,     \* actors that take the collector's worker token in turn
  Gc,          \* the holder of the worker token
  None,        \* tid and actor zero
  Scan, Prep,  \* LJ_THREAD_GCSCAN and LJ_THREAD_GCPREP
  MaxCycle,    \* collection cycles
  MaxRelease   \* claims of L by each mutator

ASSUME OwnerAssumption ==
  /\ None # Scan /\ None # Prep /\ Scan # Prep
  /\ Gc \notin Mutators
  /\ {None, Scan, Prep} \cap (Mutators \cup Workers) = {}
  /\ Mutators \cap Workers = {} /\ IsFiniteSet(Mutators)
  /\ MaxCycle \in Nat \ {0} /\ MaxRelease \in [Mutators -> Nat]

VARIABLES
  owner,         \* L->thr_owner
  gcprep,        \* L->gcprep_state
  token,         \* L->scan_needscan_counted
  pending,       \* g->gc2.thread_scan_needscan_pending
  work,          \* L is in an SSB, on the grey deque or in the recovery plane
  marked,        \* L was reached in this cycle
  sweeping,      \* the phase is SWEEP, else MARK or WEAK
  cycle,         \* g->gc2.thread_scan_cycle
  reference,     \* what leads to L: a mark root, a bare name, nothing
  scanEpoch, handoffEpoch, scanDirty,   \* the scan stamps of L
  stackDirty,    \* stack_dirty_epoch of the TG of each mutator
  pins,          \* the preparation pins of L (arena and global)
  queued,        \* L is on the preparation queue
  freed,         \* the memory of L may be reused
  pc,            \* where a thread is
  seen,          \* the owner word it loaded
  sample         \* the scan cycle a mutator's stack scan began in

claimVars == <<owner, gcprep>>
scanVars == <<scanEpoch, handoffEpoch, scanDirty>>
tokenVars == <<token, pending, work>>
cycleVars == <<marked, sweeping, cycle, reference>>
prepVars == <<pins, queued, freed>>
localVars == <<seen, sample>>
vars == <<claimVars, scanVars, tokenVars, cycleVars, prepVars, stackDirty,
          pc, localVars>>

Threads == Mutators \cup {Gc}
Word(tid, actor) == [tid |-> tid, actor |-> actor]
Free == Word(None, None)
Words == {Free} \cup {Word(m, m) : m \in Mutators}
           \cup {Word(s, a) : s \in {Scan, Prep}, a \in Mutators \cup Workers}

(* lj_thr_id_is_owner. *)
IsOwner(tid) == tid \in Mutators

HandoffPCs == {"install", "count", "publish", "edge", "rmw"}
StampPCs == {"payload", "stamp", "clear", "uncount"}
MutatorPCs == {"idle", "check", "cas", "confirm", "run", "hook", "wake", "zero"}
                \cup HandoffPCs \cup StampPCs
GcPCs == {"idle", "claim", "busy", "recheck", "drop", "requeue", "activate",
          "roots", "pinned", "drain"} \cup HandoffPCs \cup StampPCs

TypeOK ==
  /\ owner \in Words
  /\ gcprep \in {"none", "pending", "done"}
  /\ token \in {"none", "installing", "counted"}
  /\ pending \in 0..Cardinality(Threads) /\ pins \in 0..1
  /\ {work, marked, sweeping, queued, freed} \subseteq BOOLEAN
  /\ reference \in {"root", "named", "none"}
  /\ cycle \in 1..MaxCycle
  /\ {scanEpoch, handoffEpoch} \subseteq 0..cycle
  /\ scanDirty \in Nat
  /\ \A m \in Mutators : stackDirty[m] \in 0..MaxRelease[m]
  /\ pc \in [Threads -> MutatorPCs \cup GcPCs]
  /\ \A m \in Mutators : pc[m] \in MutatorPCs
  /\ pc[Gc] \in GcPCs
  /\ seen \in [Threads -> Words]
  /\ sample \in [Mutators -> 1..MaxCycle]

(* state_new_withenv_at_anchor, before L is first reached. *)
Init ==
  /\ owner = Free /\ gcprep = "none"
  /\ token = "none" /\ pending = 0 /\ work = FALSE
  /\ marked = FALSE /\ sweeping = FALSE /\ cycle = 1 /\ reference = "root"
  /\ scanEpoch = 0 /\ handoffEpoch = 0 /\ scanDirty = 0
  /\ stackDirty = [m \in Mutators |-> 0]
  /\ pins = 0 /\ queued = FALSE /\ freed = FALSE
  /\ pc = [t \in Threads |-> "idle"]
  /\ seen = [t \in Threads |-> Free]
  /\ sample = [m \in Mutators |-> 1]

-----------------------------------------------------------------------------
At(t, s) == pc[t] = s
Goto(t, s) == pc' = [pc EXCEPT ![t] = s]
Step(t, from, to) == At(t, from) /\ Goto(t, to)

(* gc2_thread_has_live_owner, for TGs that stay registered and live. *)
HasLiveOwner == IsOwner(owner.tid)

(* gc2_thread_owner_dirty. *)
OwnerDirty == IF HasLiveOwner THEN stackDirty[owner.tid] ELSE 0

(* gc2_thread_scan_current. *)
ScanCurrent ==
  token = "none" /\ scanEpoch = cycle /\ scanDirty = OwnerDirty

(* gc2_thread_owner_scans: an owner scan already answered this item. *)
OwnerScans ==
  /\ HasLiveOwner /\ token = "none"
  /\ handoffEpoch = cycle /\ scanEpoch = cycle
  /\ scanDirty = OwnerDirty

(* A mutator is between the start of its stack scan and the answer to the   *)
(* handshake that asked for it.                                             *)
OwnerScanning(m) == pc[m] \in HandoffPCs \cup StampPCs

-----------------------------------------------------------------------------
(* lj_state_tryclaim and lj_state_claim by mutator m, not yet the owner.    *)
(* MaxRelease bounds the claims.                                            *)
Enter(m) ==
  /\ reference # "none" /\ stackDirty[m] < MaxRelease[m]
  /\ Step(m, "idle", "check")
  /\ UNCHANGED <<claimVars, scanVars, tokenVars, cycleVars, prepVars,
                 stackDirty, localVars>>

ClaimCheck(m) ==
  /\ At(m, "check")
  /\ Goto(m, IF gcprep = "none" THEN "cas" ELSE "idle")
  /\ UNCHANGED <<claimVars, scanVars, tokenVars, cycleVars, prepVars,
                 stackDirty, localVars>>

(* Mutant: GCSCAN does not keep a claim out. *)
ClaimStore(m) ==
  /\ At(m, "cas")
  /\ \/ owner.tid \in {None, Scan} /\ owner' = Word(m, m) /\ Goto(m, "confirm")
     \/ owner.tid \notin {None, Scan} /\ Goto(m, "idle") /\ UNCHANGED owner
  /\ UNCHANGED <<gcprep, scanVars, tokenVars, cycleVars, prepVars,
                 stackDirty, localVars>>

ClaimCas(m) ==
  /\ At(m, "cas")
  /\ \/ owner = Free /\ owner' = Word(m, m) /\ Goto(m, "confirm")
     \/ owner.tid = Scan /\ Goto(m, "check") /\ UNCHANGED owner
     \/ owner.tid \notin {None, Scan} /\ Goto(m, "idle") /\ UNCHANGED owner
  /\ UNCHANGED <<gcprep, scanVars, tokenVars, cycleVars, prepVars,
                 stackDirty, localVars>>

(* The first half of state_release_exact: the stack becomes dirty and the   *)
(* word goes to GCSCAN with the actor of the owner.                         *)
ToSentinel(m) ==
  /\ owner = Word(m, m)
  /\ owner' = Word(Scan, m)
  /\ stackDirty' = [stackDirty EXCEPT ![m] = @ + 1]
  /\ Goto(m, "hook")

(* The second look at the preparation state; a refused claim is released. *)
ClaimConfirm(m) ==
  /\ At(m, "confirm")
  /\ IF gcprep = "none"
     THEN Goto(m, "run") /\ UNCHANGED <<owner, stackDirty>>
     ELSE ToSentinel(m)
  /\ UNCHANGED <<gcprep, scanVars, tokenVars, cycleVars, prepVars, localVars>>

Release(m) ==
  /\ At(m, "run") /\ ToSentinel(m)
  /\ UNCHANGED <<gcprep, scanVars, tokenVars, cycleVars, prepVars, localVars>>

(* Mutant: the release does not look at the token. *)
HookBlind(m) ==
  /\ Step(m, "hook", "wake")
  /\ UNCHANGED <<claimVars, scanVars, tokenVars, cycleVars, prepVars,
                 stackDirty, localVars>>

(* lj_gc2_thread_owner_releasing: a scan that was handed to this owner      *)
(* becomes a work item again.                                               *)
ReleaseHook(m) ==
  /\ Step(m, "hook", "wake")
  /\ work' = (work \/ (gcprep = "none" /\ token # "none"))
  /\ UNCHANGED <<claimVars, scanVars, token, pending, cycleVars, prepVars,
                 stackDirty, localVars>>

(* Mutant: the word is cleared before the waiters are woken. *)
ZeroThenWake(m) ==
  /\ Step(m, "wake", "zero")
  /\ owner' = Free
  /\ UNCHANGED <<gcprep, scanVars, tokenVars, cycleVars, prepVars,
                 stackDirty, localVars>>

ReleaseWake(m) ==
  /\ Step(m, "wake", "zero")
  /\ UNCHANGED <<claimVars, scanVars, tokenVars, cycleVars, prepVars,
                 stackDirty, localVars>>

(* The last access to L. *)
ReleaseZero(m) ==
  /\ Step(m, "zero", "idle")
  /\ owner' = Free
  /\ UNCHANGED <<gcprep, scanVars, tokenVars, cycleVars, prepVars,
                 stackDirty, localVars>>

-----------------------------------------------------------------------------
(* gc2_scan_thread_stack: the owner scans its own stack while it answers a  *)
(* handshake; L is marked first and no item is queued.                      *)
OwnerScanBegin(m) ==
  /\ Step(m, "run", "payload")
  /\ marked' = TRUE
  /\ sample' = [sample EXCEPT ![m] = cycle]
  /\ UNCHANGED <<claimVars, scanVars, tokenVars, sweeping, cycle, reference,
                 prepVars, stackDirty, seen>>

(* The payload of the stack is marked completely, or an admission fails.    *)
ScanOk(t) ==
  /\ Step(t, "payload", "stamp")
  /\ UNCHANGED <<claimVars, scanVars, tokenVars, cycleVars, prepVars,
                 stackDirty, localVars>>

ScanRetry(t) ==
  /\ Step(t, "payload", IF t = Gc THEN "requeue" ELSE "install")
  /\ UNCHANGED <<claimVars, scanVars, tokenVars, cycleVars, prepVars,
                 stackDirty, localVars>>

(* The owner's certificate also answers a grey item of this cycle.          *)
ScanStamp(t) ==
  /\ Step(t, "stamp", "clear")
  /\ scanDirty' = OwnerDirty
  /\ IF t = Gc
     THEN scanEpoch' = cycle /\ handoffEpoch' = 0 /\ UNCHANGED sample
     ELSE /\ scanEpoch' = sample[t] /\ handoffEpoch' = sample[t]
          /\ sample' = [sample EXCEPT ![t] = 1]
  /\ UNCHANGED <<claimVars, tokenVars, cycleVars, prepVars, stackDirty, seen>>

(* Where a scan goes on after gc2_thread_clear_needscan.                    *)
Cleared(t) == IF t = Gc THEN "drop" ELSE "run"
NotCleared(t) == IF t = Gc THEN "requeue" ELSE "run"

(* Mutant: a token that is being installed is dropped with the rest. *)
ClearAny(t) ==
  /\ At(t, "clear")
  /\ Goto(t, IF token = "counted" THEN "uncount" ELSE Cleared(t))
  /\ token' = "none"
  /\ UNCHANGED <<claimVars, scanVars, pending, work, cycleVars, prepVars,
                 stackDirty, localVars>>

ClearToken(t) ==
  /\ At(t, "clear")
  /\ \/ token = "installing" /\ Goto(t, NotCleared(t)) /\ UNCHANGED token
     \/ token = "counted" /\ Goto(t, "uncount") /\ token' = "none"
     \/ token = "none" /\ Goto(t, Cleared(t)) /\ UNCHANGED token
  /\ UNCHANGED <<claimVars, scanVars, pending, work, cycleVars, prepVars,
                 stackDirty, localVars>>

ClearCount(t) ==
  /\ Step(t, "uncount", Cleared(t))
  /\ pending' = pending - 1
  /\ UNCHANGED <<claimVars, scanVars, token, work, cycleVars, prepVars,
                 stackDirty, localVars>>

-----------------------------------------------------------------------------
(* Mutant: a publisher that lost the installation counts as well. *)
InstallAlways(t) ==
  /\ Step(t, "install", "count")
  /\ token' = "installing"
  /\ UNCHANGED <<claimVars, scanVars, pending, work, cycleVars, prepVars,
                 stackDirty, localVars>>

(* gc2_thread_set_needscan, by the collector or by the owner itself.        *)
Install(t) ==
  /\ At(t, "install")
  /\ \/ token = "none" /\ token' = "installing" /\ Goto(t, "count")
     \/ token # "none" /\ Goto(t, "edge") /\ UNCHANGED token
  /\ UNCHANGED <<claimVars, scanVars, pending, work, cycleVars, prepVars,
                 stackDirty, localVars>>

InstallCount(t) ==
  /\ Step(t, "count", "publish")
  /\ handoffEpoch' = cycle
  /\ pending' = pending + 1
  /\ UNCHANGED <<claimVars, scanEpoch, scanDirty, token, work, cycleVars,
                 prepVars, stackDirty, localVars>>

InstallPublish(t) ==
  /\ Step(t, "publish", "edge")
  /\ token' = "counted"
  /\ UNCHANGED <<claimVars, scanVars, pending, work, cycleVars, prepVars,
                 stackDirty, localVars>>

(* The ordering edge: the owner word is loaded, and a CAS to the same value *)
(* either finds that owner still there or a recovery item is published.     *)
EdgeLoad(t) ==
  /\ Step(t, "edge", "rmw")
  /\ seen' = [seen EXCEPT ![t] = owner]
  /\ UNCHANGED <<claimVars, scanVars, tokenVars, cycleVars, prepVars,
                 stackDirty, sample>>

EdgeCas(t) ==
  /\ Step(t, "rmw", IF t = Gc THEN "recheck" ELSE "run")
  /\ work' = (work \/ ~IsOwner(seen[t].tid) \/ owner # seen[t])
  /\ seen' = [seen EXCEPT ![t] = Free]
  /\ UNCHANGED <<claimVars, scanVars, token, pending, cycleVars, prepVars,
                 stackDirty, sample>>

-----------------------------------------------------------------------------
(* gc2_traverse_thread: a worker pops L from an SSB, the grey deque or the  *)
(* recovery plane.                                                          *)
Take ==
  /\ work
  /\ Step(Gc, "idle", "claim")
  /\ work' = FALSE
  /\ UNCHANGED <<claimVars, scanVars, token, pending, cycleVars, prepVars,
                 stackDirty, localVars>>

(* lj_state_gcscan_claim.  The cycle cannot change under Gc.                *)
ScanClaim ==
  /\ gcprep = "none" /\ owner = Free
  /\ \E w \in Workers : owner' = Word(Scan, w)
  /\ Goto(Gc, "payload")

GcClaim ==
  /\ At(Gc, "claim")
  /\ \/ ScanClaim
     \/ ~(gcprep = "none" /\ owner = Free) /\ Goto(Gc, "busy")
          /\ UNCHANGED owner
  /\ UNCHANGED <<gcprep, scanVars, tokenVars, cycleVars, prepVars, stackDirty,
                 localVars>>

(* Mutant: a state whose owner is just leaving is dropped, not requeued. *)
BusyForget ==
  /\ At(Gc, "busy")
  /\ \/ OwnerScans /\ handoffEpoch' = 0 /\ Goto(Gc, "idle")
     \/ ~OwnerScans /\ UNCHANGED handoffEpoch
          /\ Goto(Gc, IF HasLiveOwner THEN "install" ELSE "idle")
  /\ UNCHANGED <<claimVars, scanEpoch, scanDirty, tokenVars, cycleVars,
                 prepVars, stackDirty, localVars>>

(* The state is busy: an owner scan answered the item, or a live owner gets *)
(* the scan, or the state was let go meanwhile and is claimed after all.    *)
GcBusy ==
  /\ At(Gc, "busy")
  /\ \/ /\ OwnerScans /\ handoffEpoch' = 0 /\ Goto(Gc, "idle")
        /\ UNCHANGED owner
     \/ /\ ~OwnerScans /\ HasLiveOwner /\ Goto(Gc, "install")
        /\ UNCHANGED <<owner, handoffEpoch>>
     \/ ~HasLiveOwner /\ ScanClaim /\ UNCHANGED handoffEpoch
     \/ /\ ~HasLiveOwner /\ ~(gcprep = "none" /\ owner = Free)
        /\ Goto(Gc, "requeue") /\ UNCHANGED <<owner, handoffEpoch>>
  /\ UNCHANGED <<gcprep, scanEpoch, scanDirty, tokenVars, cycleVars, prepVars,
                 stackDirty, localVars>>

(* After the hand-off: the owner may have gone before the token was there.  *)
GcRecheck ==
  /\ Step(Gc, "recheck", IF HasLiveOwner THEN "idle" ELSE "requeue")
  /\ UNCHANGED <<claimVars, scanVars, tokenVars, cycleVars, prepVars,
                 stackDirty, localVars>>

(* lj_state_dropclaim, for a scan that is done.                             *)
GcHolds == owner.tid = Scan /\ owner.actor \in Workers
DropClaim == owner' = IF GcHolds THEN Free ELSE owner

GcDrop ==
  /\ Step(Gc, "drop", "idle")
  /\ DropClaim
  /\ UNCHANGED <<gcprep, scanVars, tokenVars, cycleVars, prepVars, stackDirty,
                 localVars>>

(* requeue_thread: the claim is released, then the item is published.       *)
GcRequeue ==
  /\ At(Gc, "requeue")
  /\ DropClaim
  /\ IF GcHolds
     THEN UNCHANGED <<work, pc>>
     ELSE work' = TRUE /\ Goto(Gc, "idle")
  /\ UNCHANGED <<gcprep, scanVars, token, pending, cycleVars, prepVars,
                 stackDirty, localVars>>

(* A mutator that runs the collector itself traverses the stack it owns:    *)
(* nobody else can touch the token or the word meanwhile.                   *)
SameOwnerTraverse(m) ==
  /\ work /\ At(Gc, "idle") /\ At(m, "run")
  /\ work' = FALSE
  /\ scanDirty' = OwnerDirty /\ scanEpoch' = cycle /\ handoffEpoch' = 0
  /\ token' = "none" /\ pending' = 0
  /\ UNCHANGED <<claimVars, cycleVars, prepVars, stackDirty, pc, localVars>>

-----------------------------------------------------------------------------
(* A root scan of this cycle reaches L: from a root, or as the state that a *)
(* running mutator names.                                                   *)
Discover ==
  /\ ~marked /\ ~sweeping /\ ~At(Gc, "activate")
  /\ reference = "root" \/ HasLiveOwner
  /\ marked' = TRUE /\ work' = TRUE
  /\ UNCHANGED <<claimVars, scanVars, token, pending, sweeping, cycle,
                 reference, prepVars, stackDirty, pc, localVars>>

(* gc2_thread_root_rescan_marked_obj_forced: a root leads to L again.       *)
Rediscover ==
  /\ marked /\ ~work /\ reference = "root" /\ ~At(Gc, "activate")
  /\ ~ScanCurrent
  /\ token = "none" \/ owner.tid \in {None, Scan}
  /\ work' = TRUE
  /\ UNCHANGED <<claimVars, scanVars, token, pending, cycleVars, prepVars,
                 stackDirty, pc, localVars>>

(* lj_gc2_weak_to_sweep, after a round of root scans that marked nothing    *)
(* new: the queues are empty and no scan is pending.                        *)
CloseMark ==
  /\ ~sweeping /\ At(Gc, "idle")
  /\ ~work /\ pending = 0
  /\ reference = "root" \/ HasLiveOwner => marked
  /\ \A m \in Mutators : ~OwnerScanning(m)
  /\ sweeping' = TRUE
  /\ UNCHANGED <<claimVars, scanVars, tokenVars, marked, cycle, reference,
                 prepVars, stackDirty, pc, localVars>>

(* Mutant: the cycle begins without its activation handshake. *)
BeginAtOnce ==
  /\ At(Gc, "idle") /\ cycle < MaxCycle
  /\ sweeping => pending = 0 /\ ~work /\ pins = 0
  /\ cycle' = cycle + 1 /\ marked' = FALSE /\ sweeping' = FALSE
  /\ UNCHANGED <<claimVars, scanVars, tokenVars, reference, prepVars,
                 stackDirty, pc, localVars>>

(* gc2_mark_begin, after a complete sweep or after a preserve root aborted  *)
(* MARK (gc2_preserve_abort_to_idle): then the item and the token are kept. *)
NewCycle ==
  /\ cycle < MaxCycle
  /\ sweeping => pending = 0 /\ ~work /\ pins = 0
  /\ Step(Gc, "idle", "activate")
  /\ cycle' = cycle + 1 /\ marked' = FALSE /\ sweeping' = FALSE
  /\ UNCHANGED <<claimVars, scanVars, tokenVars, reference, prepVars,
                 stackDirty, localVars>>

(* Every TG has acknowledged the activation.                                *)
Activated ==
  /\ \A m \in Mutators : ~OwnerScanning(m)
  /\ Step(Gc, "activate", "idle")
  /\ UNCHANGED <<claimVars, scanVars, tokenVars, cycleVars, prepVars,
                 stackDirty, localVars>>

(* The program drops its last reference, or keeps a bare name of L in a     *)
(* callback slot or a TG field, which is no mark root.                      *)
Unreference ==
  /\ \/ reference = "root" /\ reference' \in {"named", "none"}
     \/ reference = "named" /\ reference' = "none"
  /\ \A m \in Mutators : pc[m] \in {"idle", "hook", "wake", "zero"}
  /\ UNCHANGED <<claimVars, scanVars, tokenVars, marked, sweeping, cycle,
                 prepVars, stackDirty, pc, localVars>>

-----------------------------------------------------------------------------
(* lj_state_gcprep_claim_and_pin under the exclusive reclaim writer.        *)
PrepClaim ==
  /\ sweeping /\ ~marked /\ gcprep = "none" /\ owner = Free
  /\ Step(Gc, "idle", "roots")
  /\ \E w \in Workers : owner' = Word(Prep, w)
  /\ UNCHANGED <<gcprep, scanVars, tokenVars, cycleVars, prepVars, stackDirty,
                 localVars>>

(* state_gcprep_roots_absent, then both pins.                               *)
PrepRoots ==
  /\ At(Gc, "roots")
  /\ IF reference = "none"
     THEN pins' = 1 /\ Goto(Gc, "pinned") /\ UNCHANGED owner
     ELSE owner' = Free /\ Goto(Gc, "idle") /\ UNCHANGED pins
  /\ UNCHANGED <<gcprep, scanVars, tokenVars, cycleVars, queued, freed,
                 stackDirty, localVars>>

(* gc_destructor_enter was lost: lj_state_gcprep_cancel.                    *)
PrepCancel ==
  /\ Step(Gc, "pinned", "idle")
  /\ pins' = 0 /\ owner' = Free
  /\ UNCHANGED <<gcprep, scanVars, tokenVars, cycleVars, queued, freed,
                 stackDirty, localVars>>

(* The destructor was won: lj_state_gcprep_publish.                         *)
PrepPublish ==
  /\ Step(Gc, "pinned", "idle")
  /\ gcprep' = "pending" /\ queued' = TRUE
  /\ UNCHANGED <<owner, scanVars, tokenVars, cycleVars, pins, freed,
                 stackDirty, localVars>>

(* lj_state_gcprep_drain: any worker pops L, becomes its actor, frees the   *)
(* stack, and the last pin lets the memory go.                              *)
PrepDrain ==
  /\ queued /\ Step(Gc, "idle", "drain")
  /\ queued' = FALSE
  /\ \E w \in Workers : owner' = Word(Prep, w)
  /\ UNCHANGED <<gcprep, scanVars, tokenVars, cycleVars, pins, freed,
                 stackDirty, localVars>>

PrepDone ==
  /\ Step(Gc, "drain", "idle")
  /\ gcprep' = "done" /\ pins' = 0 /\ freed' = TRUE
  /\ UNCHANGED <<owner, scanVars, tokenVars, cycleVars, queued, stackDirty,
                 localVars>>

-----------------------------------------------------------------------------
(* What a thread does of itself; entering, releasing and scanning are its   *)
(* choice, and a new cycle, a preparation and the environment are Gc's.     *)
Handoff(t) ==
  Install(t) \/ InstallCount(t) \/ InstallPublish(t) \/ EdgeLoad(t) \/ EdgeCas(t)
Certify(t) == ScanStamp(t) \/ ClearToken(t) \/ ClearCount(t)
MutatorSteps(m) ==
  \/ ClaimCheck(m) \/ ClaimCas(m) \/ ClaimConfirm(m)
  \/ ReleaseHook(m) \/ ReleaseWake(m) \/ ReleaseZero(m)
  \/ Handoff(m) \/ Certify(m)
GcSteps ==
  \/ Take \/ GcClaim \/ GcBusy \/ GcRecheck \/ GcDrop \/ GcRequeue \/ Activated
  \/ Handoff(Gc) \/ Certify(Gc)
  \/ PrepRoots \/ PrepCancel \/ PrepPublish \/ PrepDone

Next ==
  \/ \E m \in Mutators : \/ Enter(m) \/ Release(m) \/ OwnerScanBegin(m)
                         \/ SameOwnerTraverse(m) \/ MutatorSteps(m)
  \/ \E t \in Threads : ScanOk(t) \/ ScanRetry(t)
  \/ GcSteps
  \/ PrepClaim \/ PrepDrain
  \/ Discover \/ Rediscover \/ CloseMark \/ NewCycle \/ Unreference

Spec == Init /\ [][Next]_vars

(* A pending scan makes the collector ask for root scans until it is done;  *)
(* an admission that fails is transient.                                    *)
Fairness ==
  /\ \A m \in Mutators : WF_vars(MutatorSteps(m))
  /\ SF_vars(\E m \in Mutators : OwnerScanBegin(m))
  /\ SF_vars(\E t \in Threads : ScanOk(t))
  /\ WF_vars(GcSteps)

FairSpec == Spec /\ Fairness

-----------------------------------------------------------------------------
(* Who works on L with which owner word: a running mutator, a mutator in    *)
(* its release, the scan of a worker, the preparation of a worker.          *)
Holds(m) == pc[m] \in {"confirm", "run"} \/ OwnerScanning(m)
Leaves(m) == pc[m] \in {"hook", "wake", "zero"}
GcScans == pc[Gc] \in StampPCs \cup {"drop"}
GcPrepares == pc[Gc] \in {"roots", "pinned", "drain"} \/ gcprep = "pending"

(* At most one of them at any time, and the owner word names it: nobody     *)
(* runs on a stack that is being scanned, released or destroyed.            *)
OneAuthority ==
  /\ \A m \in Mutators : /\ Holds(m) => owner = Word(m, m)
                         /\ Leaves(m) => owner = Word(Scan, m)
  /\ GcScans => GcHolds
  /\ GcPrepares => owner.tid = Prep

(* The aggregate that holds the phase back counts exactly the token that    *)
(* has been counted, whoever is between the token and the count.            *)
PendingExact ==
  pending = Cardinality({t \in Threads : pc[t] \in {"publish", "uncount"}})
              + (IF token = "counted" THEN 1 ELSE 0)

(* A hand-off never outlives its owner: when nobody owns L, a counted scan  *)
(* is a work item or in the hands of a collector that still acts on it.     *)
HandoffKept ==
  token = "counted" /\ owner = Free =>
    work \/ pc[Gc] \in {"claim", "busy", "edge", "rmw", "recheck", "requeue"}

(* Marking does not close over a stack that was reached and not scanned in  *)
(* this cycle.                                                              *)
ClosureScanned ==
  [][~sweeping /\ sweeping' /\ marked => scanEpoch = cycle]_vars

(* The memory of L is reusable only when no thread will touch L again and   *)
(* nothing still leads to it.                                               *)
FreedUntouched ==
  freed => /\ \A m \in Mutators : At(m, "idle")
           /\ At(Gc, "idle") \/ At(Gc, "activate")
           /\ ~work /\ token = "none" /\ ~queued /\ reference = "none"

(* A scan that was handed to an owner is done, though the owner lets the    *)
(* state go, another takes it, or the cycle is aborted.                     *)
PendingDrains == pending > 0 ~> pending = 0

=============================================================================
