----------------------------- MODULE Safepoint -----------------------------
(***************************************************************************)
(* The soft handshake of lj_safepoint.c: a leader publishes a request to   *)
(* every thread (TG), each request is consumed once, by the thread itself  *)
(* at a poll or by the leader on behalf of a thread that is in native      *)
(* code, and the leader goes on when a counter of outstanding requests is  *)
(* zero.  With attach and detach of threads (lj_tg.c).                     *)
(*                                                                         *)
(* One step is one access to shared memory or one owner-private action.    *)
(* Waits of the leader and of contenders last at most one millisecond, so  *)
(* they are the time between two looks; the wait on a thread's own poll    *)
(* word has no timeout and is modelled ("asleep").  No thread is in a      *)
(* trace (jit_base is NULL), and no request carries STOPREQ.               *)
(***************************************************************************)
EXTENDS Naturals, FiniteSets

CONSTANTS
  N,           \* threads are 1..N, and the registry is walked in that order
  Newcomers,   \* the threads that attach while the others run
  Kinds,       \* the requests that may be made
  MaxEpoch,    \* handshakes until nobody starts another
  MayDetach    \* the threads that may detach

Threads == 1..N

ASSUME SafepointAssumption ==
  /\ N \in Nat \ {0} /\ MaxEpoch \in Nat
  /\ Newcomers \subseteq Threads /\ MayDetach \subseteq Threads
  /\ Kinds \subseteq {"on", "scan", "owner", "off", "redispatch"}

(* The masks handed to lj_safepoint_handshake:                             *)
(*   on          ENABLE_BARRIER|ALLOC_BLACK|EXIT_TRACES|REDISPATCH|FLUSH_SSB *)
(*   scan        SCAN_ROOTS|FLUSH_SSB                                      *)
(*   owner       SCAN_OWNER_ROOTS|FLUSH_SSB                                *)
(*   off         DISABLE_BARRIER|ALLOC_WHITE                               *)
(*   redispatch  REDISPATCH                                                *)
(* Which of them scan roots, are held by safepoint_hold_poll_until_leader, *)
(* and make an attaching thread wait for the leader.                       *)
Scanning == {"scan", "owner"}
Traces   == {"on"}
HeldNoRoots == {"on", "owner"}        \* mutant: a scan of all roots is not held
Held     == {"on", "scan", "owner"}

VARIABLES
  phase, gc,                      \* GC phase; the thread that drives the GC, or 0
  epoch, actions, pending, leader,  \* hs_epoch, hs_actions, hs_pending, hs_leader
  linked, dead,                   \* threads on tg_list; flagged TGF_DEAD
  native, req, poll, ack,         \* per TG: in_native, reqmask, poll, hs_epoch_ack
  active,                         \* per TG: the barrier mirror mark_active
  want,                           \* per thread: the mask of the handshake it runs
  pc, fr,                         \* per thread: next access; frame of its ack call
  walk,                           \* the leader's walk: threads to visit, stage, late
  applied                         \* history: times this epoch was applied to a TG

global == <<phase, gc>>
hs == <<epoch, actions, pending, leader>>
registry == <<linked, dead>>
tg == <<native, req, poll, ack, active>>
leading == <<want, walk>>
vars == <<global, hs, registry, tg, leading, pc, fr, applied>>

NoFrame == [tgt |-> 0, acts |-> "none", epoch |-> 0, parked |-> FALSE,
            wait |-> FALSE, hold |-> FALSE, ret |-> "run"]
NoWalk == [todo |-> {}, stage |-> "first", late |-> {}]

Masks == {"on", "scan", "owner", "off", "redispatch", "none"}

AckPcs == {"k_xchg", "k_none", "k_epoch", "k_scan", "k_claim", "k_apply", "k_done",
           "k_clear", "k_fix", "k_sub", "w_load", "w_req", "w_futex", "asleep"}
RetirePcs == {"q_xchg", "q_clear", "q_claim", "q_sub"}
TailPcs == {"tail", "t_clear"}
LeaderPcs == {"h_prior", "h_pub", "sig", "sig_req", "sig_count", "sig_poll",
              "sig_dead", "acks", "h_drop", "h_wait"} \cup TailPcs
OwnerPcs == {"new", "a_epoch", "a_pend", "a_apply", "a_hold", "a_link", "a_bound",
             "a_claim", "run", "native", "poll", "poll2", "d_req", "d_native",
             "d_dead", "gone", "h_enter"}

TypeOK ==
  /\ phase \in {"IDLE", "MARK"} /\ gc \in Threads \cup {0}
  /\ epoch \in 0..MaxEpoch /\ actions \in Masks
  /\ pending \in 0 .. (2 * N + 1) /\ leader \in Threads \cup {0}
  /\ linked \subseteq Threads /\ dead \subseteq linked
  /\ native \in [Threads -> BOOLEAN] /\ active \in [Threads -> BOOLEAN]
  /\ req \in [Threads -> Masks]
  /\ poll \in [Threads -> BOOLEAN]
  /\ ack \in [Threads -> 0..MaxEpoch]
  /\ pc \in [Threads -> AckPcs \cup RetirePcs \cup LeaderPcs \cup OwnerPcs]
  /\ fr \in [Threads -> [tgt: Threads \cup {0}, acts: Masks, epoch: 0..MaxEpoch,
                         parked: BOOLEAN, wait: BOOLEAN, hold: BOOLEAN,
                         ret: LeaderPcs \cup OwnerPcs]]
  /\ want \in [Threads -> Masks]
  /\ walk \in [todo: SUBSET Threads, stage: {"prior", "first", "loop", "wait"},
               late: SUBSET Threads]
  /\ applied \in [Threads -> 0..2]

(* Between two handshakes, in a collection or not. *)
Init ==
  /\ phase \in {"IDLE", "MARK"} /\ gc = 0
  /\ epoch = 0 /\ actions = "none" /\ pending = 0 /\ leader = 0
  /\ linked = Threads \ Newcomers /\ dead = {}
  /\ native = [t \in Threads |-> FALSE]
  /\ active = [t \in Threads |-> phase = "MARK" /\ t \notin Newcomers]
  /\ req = [t \in Threads |-> "none"]
  /\ poll = [t \in Threads |-> FALSE]
  /\ ack = [t \in Threads |-> 0]
  /\ pc = [t \in Threads |-> IF t \in Newcomers THEN "new" ELSE "run"]
  /\ fr = [t \in Threads |-> NoFrame]
  /\ want = [t \in Threads |-> "none"] /\ walk = NoWalk
  /\ applied = [t \in Threads |-> 0]

-----------------------------------------------------------------------------
At(t, l) == pc[t] = l
Goto(t, l) == pc' = [pc EXCEPT ![t] = l]

(* t goes on at l and the thread asleep on the poll word of x is woken. *)
GotoWake(t, l, x) ==
  pc' = [pc EXCEPT ![x] = IF @ = "asleep" THEN "w_load" ELSE @, ![t] = l]

Enter(t, l, frame) == fr' = [fr EXCEPT ![t] = frame] /\ Goto(t, l)

(* safepoint_ack_tg by t on behalf of x *)
AckFrame(x, parked, wait, ret) ==
  [NoFrame EXCEPT !.tgt = x, !.parked = parked, !.wait = wait, !.ret = ret]

Return(t) == Enter(t, fr[t].ret, NoFrame)

Min(S) == CHOOSE x \in S : \A y \in S : x <= y

(* What applying a mask does to the barrier mirror of x. *)
Mirror(x, mask) ==
  IF mask \in {"on", "off"} THEN [active EXCEPT ![x] = (mask = "on")] ELSE active

-----------------------------------------------------------------------------
(* Running threads: polls, native regions. *)
PollStart(t) ==
  /\ At(t, "run")
  /\ Enter(t, "poll", AckFrame(t, FALSE, TRUE, "run"))
  /\ UNCHANGED <<global, hs, registry, tg, leading, applied>>

NativeEnter(t) ==
  /\ At(t, "run")
  /\ native' = [native EXCEPT ![t] = TRUE]
  /\ Goto(t, "native")
  /\ UNCHANGED <<global, hs, registry, req, poll, ack, active, fr, leading, applied>>

NativeLeave(t) ==
  /\ At(t, "native") \/ At(t, "a_claim")
  /\ native' = [native EXCEPT ![t] = FALSE]
  /\ Enter(t, "poll", AckFrame(t, FALSE, TRUE, "run"))
  /\ UNCHANGED <<global, hs, registry, req, poll, ack, active, leading, applied>>

(* lj_safepoint_poll, lj_safepoint_poll_tg *)
Poll(t) ==
  /\ At(t, "poll")
  /\ Goto(t, IF poll[t] THEN "k_xchg" ELSE "poll2")
  /\ UNCHANGED <<global, hs, registry, tg, fr, leading, applied>>

PollReq(t) ==
  /\ At(t, "poll2")
  /\ IF req[t] # "none" THEN Goto(t, "k_xchg") /\ UNCHANGED fr ELSE Return(t)
  /\ UNCHANGED <<global, hs, registry, tg, leading, applied>>

-----------------------------------------------------------------------------
(* safepoint_ack_tg by t for its target x. *)
AckXchg(t) ==
  LET x == fr[t].tgt IN
  /\ At(t, "k_xchg")
  /\ req' = [req EXCEPT ![x] = "none"]
  /\ fr' = [fr EXCEPT ![t].acts = req[x], ![t].hold = FALSE]
  /\ Goto(t, IF req[x] = "none" THEN "k_none" ELSE "k_epoch")
  /\ UNCHANGED <<global, hs, registry, native, poll, ack, active, leading, applied>>

(* Mutant: with nothing to consume, the poll word is not looked at. *)
AckNothingReturns(t) ==
  /\ At(t, "k_none")
  /\ IF req[fr[t].tgt] # "none" THEN Goto(t, "k_xchg") /\ UNCHANGED fr ELSE Return(t)
  /\ UNCHANGED <<global, hs, registry, tg, leading, applied>>

AckNothing(t) ==
  LET x == fr[t].tgt IN
  /\ At(t, "k_none")
  /\ \/ poll[x] /\ req[x] # "none" /\ Goto(t, "k_xchg") /\ UNCHANGED fr
     \/ poll[x] /\ req[x] = "none" /\ fr[t].wait /\ Goto(t, "w_load") /\ UNCHANGED fr
     \/ ~poll[x] /\ Return(t)
     \/ poll[x] /\ req[x] = "none" /\ ~fr[t].wait /\ Return(t)
  /\ UNCHANGED <<global, hs, registry, tg, leading, applied>>

AckEpoch(t) ==
  LET f == fr[t] IN
  /\ At(t, "k_epoch")
  /\ fr' = [fr EXCEPT ![t].epoch = epoch]
  /\ Goto(t, IF f.parked /\ ack[f.tgt] # epoch /\ f.acts \in Scanning
             THEN "k_scan" ELSE "k_claim")
  /\ UNCHANGED <<global, hs, registry, tg, leading, applied>>

(* lj_gc2_scan_cycle_owner_tg_roots_native_parked: done *)
RemoteScan(t) ==
  /\ At(t, "k_scan")
  /\ Goto(t, "k_claim")
  /\ UNCHANGED <<global, hs, registry, tg, fr, leading, applied>>

(* or refused by the SMR reclaimer: safepoint_requeue_consumed *)
RemoteScanRefused(t) ==
  LET x == fr[t].tgt IN
  /\ At(t, "k_scan")
  /\ req' = [req EXCEPT ![x] = fr[t].acts]
  /\ poll' = [poll EXCEPT ![x] = TRUE]
  /\ fr' = [fr EXCEPT ![t] = NoFrame]
  /\ GotoWake(t, fr[t].ret, x)
  /\ UNCHANGED <<global, hs, registry, native, ack, active, leading, applied>>

(* Mutants: the loser of the claim returns at once; the claim is no claim. *)
AckClaimLoserReturns(t) ==
  LET x == fr[t].tgt IN
  /\ At(t, "k_claim")
  /\ ack' = [ack EXCEPT ![x] = fr[t].epoch]
  /\ IF ack[x] # fr[t].epoch THEN Goto(t, "k_apply") /\ UNCHANGED fr ELSE Return(t)
  /\ UNCHANGED <<global, hs, registry, native, req, poll, active, leading, applied>>

AckClaimAll(t) ==
  /\ At(t, "k_claim")
  /\ ack' = [ack EXCEPT ![fr[t].tgt] = fr[t].epoch]
  /\ Goto(t, "k_apply")
  /\ UNCHANGED <<global, hs, registry, native, req, poll, active, fr, leading, applied>>

(* safepoint_claim_epoch: who moves the epoch applies the actions. *)
AckClaim(t) ==
  LET x == fr[t].tgt IN
  /\ At(t, "k_claim")
  /\ ack' = [ack EXCEPT ![x] = fr[t].epoch]
  /\ Goto(t, IF ack[x] # fr[t].epoch THEN "k_apply" ELSE "k_done")
  /\ UNCHANGED <<global, hs, registry, native, req, poll, active, fr, leading, applied>>

(* safepoint_apply_tg_mode, and safepoint_owner_roots_complete: the leader *)
(* finishes an owner request of a parked thread without a hold.            *)
AckApply(t) ==
  LET f == fr[t] IN
  /\ At(t, "k_apply")
  /\ active' = Mirror(f.tgt, f.acts)
  /\ applied' = [applied EXCEPT ![f.tgt] = @ + 1]
  /\ IF f.parked /\ f.acts = "owner" /\ phase = "MARK" /\ leader # 0 /\ f.tgt \notin dead
     THEN Goto(t, "k_clear")
     ELSE Goto(t, "k_done")
  /\ UNCHANGED <<global, hs, registry, native, req, poll, ack, fr, leading>>

(* safepoint_hold_poll_until_leader, and the clear of a poll not held. *)
AckDone(t) ==
  LET x == fr[t].tgt
      hold == fr[t].acts \in Held /\ leader # 0
  IN /\ At(t, "k_done")
     /\ fr' = [fr EXCEPT ![t].hold = hold]
     /\ poll' = IF hold THEN poll ELSE [poll EXCEPT ![x] = FALSE]
     /\ IF hold THEN Goto(t, "k_sub") ELSE GotoWake(t, "k_sub", x)
     /\ UNCHANGED <<global, hs, registry, native, req, ack, active, leading, applied>>

(* The request is complete: clear the poll, and put it back if a duplicate *)
(* of the request came in meanwhile (safepoint_restore_counted_poll).  The *)
(* leader is here, and the leader alone publishes: there is none to put    *)
(* back, as long as no other thread publishes.                             *)
AckClear(t) ==
  LET x == fr[t].tgt IN
  /\ At(t, "k_clear")
  /\ poll' = [poll EXCEPT ![x] = FALSE]
  /\ GotoWake(t, "k_fix", x)
  /\ UNCHANGED <<global, hs, registry, native, req, ack, active, fr, leading, applied>>

AckRestore(t) ==
  LET x == fr[t].tgt IN
  /\ At(t, "k_fix")
  /\ IF req[x] # "none"
     THEN poll' = [poll EXCEPT ![x] = TRUE] /\ GotoWake(t, "k_sub", x)
     ELSE Goto(t, "k_sub") /\ UNCHANGED poll
  /\ UNCHANGED <<global, hs, registry, native, req, ack, active, fr, leading, applied>>

AckSub(t) ==
  LET f == fr[t] IN
  /\ At(t, "k_sub")
  /\ pending' = pending - 1
  /\ IF f.hold /\ f.wait THEN Goto(t, "w_load") /\ UNCHANGED fr ELSE Return(t)
  /\ UNCHANGED <<global, epoch, actions, leader, registry, tg, leading, applied>>

(* safepoint_wait_consumed_ack, only on one's own poll word. *)
WaitLoad(t) ==
  /\ At(t, "w_load")
  /\ IF poll[t] THEN Goto(t, "w_req") /\ UNCHANGED fr ELSE Return(t)
  /\ UNCHANGED <<global, hs, registry, tg, leading, applied>>

WaitReq(t) ==
  /\ At(t, "w_req")
  /\ Goto(t, IF req[t] # "none" THEN "k_xchg" ELSE "w_futex")
  /\ UNCHANGED <<global, hs, registry, tg, fr, leading, applied>>

WaitFutex(t) ==
  /\ At(t, "w_futex")
  /\ Goto(t, IF poll[t] THEN "asleep" ELSE "w_load")
  /\ UNCHANGED <<global, hs, registry, tg, fr, leading, applied>>

AckStep(t) ==
  \/ AckXchg(t) \/ AckNothing(t) \/ AckEpoch(t) \/ RemoteScan(t) \/ AckClaim(t)
  \/ AckApply(t) \/ AckDone(t) \/ AckClear(t) \/ AckRestore(t) \/ AckSub(t)
  \/ WaitLoad(t) \/ WaitReq(t) \/ WaitFutex(t)
-----------------------------------------------------------------------------
(* lj_safepoint_retire_dead_tg by t for its target x. *)
RetireXchg(t) ==
  LET x == fr[t].tgt IN
  /\ At(t, "q_xchg")
  /\ req' = [req EXCEPT ![x] = "none"]
  /\ fr' = [fr EXCEPT ![t].acts = req[x]]
  /\ Goto(t, "q_clear")
  /\ UNCHANGED <<global, hs, registry, native, poll, ack, active, leading, applied>>

RetireClear(t) ==
  LET x == fr[t].tgt
      counted == fr[t].acts # "none"
  IN /\ At(t, "q_clear")
     /\ poll' = [poll EXCEPT ![x] = FALSE]
     /\ fr' = IF counted THEN fr ELSE [fr EXCEPT ![t] = NoFrame]
     /\ GotoWake(t, IF counted THEN "q_claim" ELSE fr[t].ret, x)
     /\ UNCHANGED <<global, hs, registry, native, req, ack, active, leading, applied>>

(* A signaler that retires the request it just made does not count it. *)
RetireClaim(t) ==
  LET x == fr[t].tgt IN
  /\ At(t, "q_claim")
  /\ ack' = [ack EXCEPT ![x] = epoch]
  /\ walk' = IF fr[t].ret = "sig" /\ ack[x] # epoch
             THEN [walk EXCEPT !.late = @ \ {x}] ELSE walk
  /\ Goto(t, "q_sub")
  /\ UNCHANGED <<global, hs, registry, native, req, poll, active, want, fr, applied>>

RetireSub(t) ==
  /\ At(t, "q_sub")
  /\ pending' = pending - 1
  /\ Return(t)
  /\ UNCHANGED <<global, epoch, actions, leader, registry, tg, leading, applied>>

(* lj_tg_detach: a last poll if something is visible, then in_native is    *)
(* cleared, then DEAD, then the retirement of whatever arrived in between. *)
(* A thread detaches when it has left native code, or gives up its attach  *)
(* while it is still in there (threading_attach_cleanup).                  *)
Detach(t) ==
  /\ \/ At(t, "run") /\ t \in MayDetach /\ gc # t
     \/ At(t, "a_claim")
  /\ Goto(t, "d_req")
  /\ UNCHANGED <<global, hs, registry, tg, fr, leading, applied>>

DetachPoll(t) ==
  /\ At(t, "d_req")
  /\ IF req[t] # "none" \/ poll[t]
     THEN Enter(t, "k_xchg", AckFrame(t, FALSE, TRUE, "d_native"))
     ELSE Goto(t, "d_native") /\ UNCHANGED fr
  /\ UNCHANGED <<global, hs, registry, tg, leading, applied>>

DetachNative(t) ==
  /\ At(t, "d_native")
  /\ native' = [native EXCEPT ![t] = FALSE]
  /\ Goto(t, "d_dead")
  /\ UNCHANGED <<global, hs, registry, req, poll, ack, active, leading, fr, applied>>

DetachDead(t) ==
  /\ At(t, "d_dead")
  /\ dead' = dead \cup {t}
  /\ Enter(t, "q_xchg", AckFrame(t, FALSE, FALSE, "gone"))
  /\ UNCHANGED <<global, hs, linked, tg, leading, applied>>

RetireStep(t) ==
  \/ RetireXchg(t) \/ RetireClear(t) \/ RetireClaim(t) \/ RetireSub(t)
  \/ DetachPoll(t) \/ DetachNative(t) \/ DetachDead(t)

-----------------------------------------------------------------------------
(* lj_tg_attach of a new thread, in native from before (the spawned worker *)
(* of lib_threading.c): adopt the phase (tg_adopt_gc2_phase), catch up with *)
(* the epoch (tg_attach_catchup), and only then link.                      *)
AttachPhase(t) ==
  /\ At(t, "new")
  /\ native' = [native EXCEPT ![t] = TRUE]
  /\ active' = [active EXCEPT ![t] = phase = "MARK"]
  /\ Goto(t, "a_epoch")
  /\ UNCHANGED <<global, hs, registry, req, poll, ack, fr, leading, applied>>

AttachEpoch(t) ==
  /\ At(t, "a_epoch")
  /\ fr' = [fr EXCEPT ![t].epoch = epoch]
  /\ Goto(t, "a_pend")
  /\ UNCHANGED <<global, hs, registry, tg, leading, applied>>

AttachPending(t) ==
  /\ At(t, "a_pend")
  /\ fr' = [fr EXCEPT ![t].acts = IF pending # 0 THEN actions ELSE "none"]
  /\ ack' = [ack EXCEPT ![t] = fr[t].epoch]
  /\ Goto(t, "a_apply")
  /\ UNCHANGED <<global, hs, registry, native, req, poll, active, leading, applied>>

AttachApply(t) ==
  LET f == fr[t] IN
  /\ At(t, "a_apply")
  /\ active' = Mirror(t, f.acts)
  /\ applied' = IF f.acts # "none" /\ f.epoch = epoch
                THEN [applied EXCEPT ![t] = @ + 1] ELSE applied
  /\ Goto(t, IF f.acts \in Traces THEN "a_hold" ELSE "a_link")
  /\ UNCHANGED <<global, hs, registry, native, req, poll, ack, fr, leading>>

(* tg_attach_wait_trace_boundary of a thread nobody can see yet. *)
AttachHold(t) ==
  /\ At(t, "a_hold")
  /\ leader = 0 \/ actions \notin Traces
  /\ Goto(t, "a_link")
  /\ UNCHANGED <<global, hs, registry, tg, leading, fr, applied>>

AttachLink(t) ==
  /\ At(t, "a_link")
  /\ linked' = linked \cup {t}
  /\ Enter(t, "a_bound", NoFrame)
  /\ UNCHANGED <<global, hs, dead, tg, leading, applied>>

(* tg_attach_wait_trace_boundary *)
AttachBoundary(t) ==
  /\ At(t, "a_bound")
  /\ \/ /\ leader = 0 \/ actions \notin Traces
        /\ Goto(t, "a_claim") /\ UNCHANGED fr
     \/ /\ leader # 0 /\ actions \in Traces
        /\ req[t] # "none" \/ poll[t]
        /\ Enter(t, "k_xchg", AckFrame(t, FALSE, TRUE, "a_bound"))
  /\ UNCHANGED <<global, hs, registry, tg, leading, applied>>

(* threading_worker_claim: it waits in native code for its lua_State, and  *)
(* polls there while the collector has it.  The foreign thread of          *)
(* threading_attach waits without a poll.                                  *)
ClaimPoll(t) ==
  /\ At(t, "a_claim")
  /\ Enter(t, "poll", AckFrame(t, FALSE, TRUE, "a_claim"))
  /\ UNCHANGED <<global, hs, registry, tg, leading, applied>>

AttachStep(t) ==
  \/ AttachEpoch(t) \/ AttachPending(t) \/ AttachApply(t) \/ AttachHold(t)
  \/ AttachLink(t) \/ AttachBoundary(t)

-----------------------------------------------------------------------------
(* Who may ask for what: the GC phases run under the worker token, a phase *)
(* is published before its handshake, hooks redispatch at any time.        *)
Request(t, kind) ==
  /\ At(t, "run") /\ kind \in Kinds
  /\ epoch + Cardinality({u \in Threads : want[u] # "none"}) < MaxEpoch
  /\ IF kind = "redispatch"
     THEN UNCHANGED global
     ELSE /\ gc = 0 /\ gc' = t
          /\ phase = IF kind = "on" THEN "IDLE" ELSE "MARK"
          /\ phase' = IF kind = "off" THEN "IDLE" ELSE "MARK"
  /\ want' = [want EXCEPT ![t] = kind]
  /\ Goto(t, "h_enter")
  /\ UNCHANGED <<hs, registry, tg, walk, fr, applied>>

(* safepoint_leader_enter: win the leader word, or help one's own TG. *)
LeaderEnter(t) ==
  /\ At(t, "h_enter") /\ leader = 0
  /\ leader' = t
  /\ Goto(t, "h_prior")
  /\ UNCHANGED <<global, epoch, actions, pending, registry, tg, leading, fr, applied>>

HelpSelf(t) ==
  /\ At(t, "h_enter") /\ leader # 0 /\ req[t] # "none"
  /\ Enter(t, "k_xchg", AckFrame(t, FALSE, FALSE, "h_enter"))
  /\ UNCHANGED <<global, hs, registry, tg, leading, applied>>

(* The leader walks tg_list from its head: l is the step done per thread.  *)
StartWalk(t, l, stage) ==
  /\ walk' = [todo |-> linked, stage |-> stage, late |-> {}]
  /\ Goto(t, l)

Walked == walk.todo = {}
Here == Min(walk.todo)
PassOn == [walk EXCEPT !.todo = @ \ {Here}]

(* safepoint_finish_prior_epoch *)
LeaderPrior(t) ==
  /\ At(t, "h_prior")
  /\ IF pending = 0
     THEN Goto(t, "h_pub") /\ UNCHANGED walk
     ELSE StartWalk(t, "acks", "prior")
  /\ UNCHANGED <<global, hs, registry, tg, want, fr, applied>>

(* Mutant: no sentinel, though one is dropped. *)
LeaderPublishBare(t) ==
  /\ At(t, "h_pub")
  /\ actions' = want[t] /\ pending' = 0 /\ epoch' = epoch + 1
  /\ applied' = [u \in Threads |-> 0]
  /\ StartWalk(t, "sig", "first")
  /\ UNCHANGED <<global, leader, registry, tg, want, fr>>

(* The new epoch, with the leader's own slot as a sentinel. *)
LeaderPublish(t) ==
  /\ At(t, "h_pub")
  /\ actions' = want[t] /\ pending' = 1 /\ epoch' = epoch + 1
  /\ applied' = [u \in Threads |-> 0]
  /\ StartWalk(t, "sig", "first")
  /\ UNCHANGED <<global, leader, registry, tg, want, fr>>

(* safepoint_signal_late *)
Signal(t) ==
  /\ At(t, "sig") /\ ~Walked
  /\ IF Here \in dead \/ ack[Here] = epoch
     THEN walk' = PassOn /\ UNCHANGED pc
     ELSE Goto(t, "sig_req") /\ UNCHANGED walk
  /\ UNCHANGED <<global, hs, registry, tg, want, fr, applied>>

SignalReq(t) ==
  /\ At(t, "sig_req")
  /\ IF req[Here] # "none"
     THEN walk' = PassOn /\ Goto(t, "sig")
     ELSE Goto(t, "sig_count") /\ UNCHANGED walk
  /\ UNCHANGED <<global, hs, registry, tg, want, fr, applied>>

SignalCount(t) ==
  /\ At(t, "sig_count")
  /\ pending' = pending + 1
  /\ req' = [req EXCEPT ![Here] = want[t]]
  /\ walk' = [walk EXCEPT !.late = @ \cup {Here}]
  /\ Goto(t, "sig_poll")
  /\ UNCHANGED <<global, epoch, actions, leader, registry, native, poll, ack, active,
                 want, fr, applied>>

SignalPoll(t) ==
  /\ At(t, "sig_poll")
  /\ poll' = [poll EXCEPT ![Here] = TRUE]
  /\ GotoWake(t, "sig_dead", Here)
  /\ UNCHANGED <<global, hs, registry, native, req, ack, active, leading, fr, applied>>

SignalDead(t) ==
  /\ At(t, "sig_dead")
  /\ IF Here \in dead
     THEN Enter(t, "q_xchg", AckFrame(Here, FALSE, FALSE, "sig"))
     ELSE Goto(t, "sig") /\ UNCHANGED fr
  /\ walk' = PassOn
  /\ UNCHANGED <<global, hs, registry, tg, want, applied>>

Signaled(t) ==
  /\ At(t, "sig") /\ Walked
  /\ IF walk.stage = "loop" /\ walk.late = {}
     THEN Goto(t, "h_drop") /\ UNCHANGED walk
     ELSE StartWalk(t, "acks", IF walk.stage = "wait" THEN "wait" ELSE "loop")
  /\ UNCHANGED <<global, hs, registry, tg, want, fr, applied>>

(* safepoint_ack_native: the leader's own request, and those in native. *)
AckWalk(t) ==
  /\ At(t, "acks") /\ ~Walked
  /\ IF Here \notin dead /\ (Here = t \/ native[Here])
     THEN Enter(t, "k_xchg", AckFrame(Here, Here # t, FALSE, "acks"))
     ELSE UNCHANGED <<pc, fr>>
  /\ walk' = PassOn
  /\ UNCHANGED <<global, hs, registry, tg, want, applied>>

AckWalked(t) ==
  /\ At(t, "acks") /\ Walked
  /\ IF walk.stage = "loop"
     THEN StartWalk(t, "sig", "loop")
     ELSE Goto(t, IF walk.stage = "prior" THEN "h_prior" ELSE "h_wait") /\ UNCHANGED walk
  /\ UNCHANGED <<global, hs, registry, tg, want, fr, applied>>

DropSentinel(t) ==
  /\ At(t, "h_drop")
  /\ pending' = pending - 1
  /\ Goto(t, "h_wait")
  /\ UNCHANGED <<global, epoch, actions, leader, registry, tg, leading, fr, applied>>

(* Mutant: the leader waits without acknowledging for threads that went    *)
(* into native code since.                                                 *)
LeaderWaitOnly(t) ==
  /\ At(t, "h_wait") /\ pending = 0
  /\ Goto(t, "tail")
  /\ UNCHANGED <<global, hs, registry, tg, leading, fr, applied>>

LeaderWait(t) ==
  /\ At(t, "h_wait")
  /\ IF pending = 0
     THEN Goto(t, "tail") /\ UNCHANGED walk
     ELSE StartWalk(t, "sig", "wait")
  /\ UNCHANGED <<global, hs, registry, tg, want, fr, applied>>

(* The leader's own part, global roots and lj_gc2_reclaim_retired, then    *)
(* safepoint_clear_consumed_polls.                                         *)
LeaderTail(t) ==
  /\ At(t, "tail")
  /\ StartWalk(t, "t_clear", "wait")
  /\ UNCHANGED <<global, hs, registry, tg, want, fr, applied>>

(* Mutant: the poll word is cleared and its sleeper not woken. *)
ClearPollQuietly(t) ==
  /\ At(t, "t_clear") /\ ~Walked
  /\ poll' = IF Here \notin dead /\ ack[Here] = epoch /\ req[Here] = "none"
             THEN [poll EXCEPT ![Here] = FALSE] ELSE poll
  /\ walk' = PassOn
  /\ UNCHANGED <<global, hs, registry, native, req, ack, active, want, pc, fr, applied>>

ClearPoll(t) ==
  /\ At(t, "t_clear") /\ ~Walked
  /\ IF Here \notin dead /\ ack[Here] = epoch /\ req[Here] = "none" /\ poll[Here]
     THEN poll' = [poll EXCEPT ![Here] = FALSE] /\ GotoWake(t, "t_clear", Here)
     ELSE UNCHANGED <<poll, pc>>
  /\ walk' = PassOn
  /\ UNCHANGED <<global, hs, registry, native, req, ack, active, want, fr, applied>>

LeaderLeave(t) ==
  /\ At(t, "t_clear") /\ Walked
  /\ leader' = 0
  /\ gc' = IF gc = t /\ want[t] # "redispatch" THEN 0 ELSE gc
  /\ want' = [want EXCEPT ![t] = "none"]
  /\ walk' = NoWalk
  /\ Goto(t, "run")
  /\ UNCHANGED <<phase, epoch, actions, pending, registry, tg, fr, applied>>

LeaderStep(t) ==
  \/ LeaderEnter(t) \/ HelpSelf(t) \/ LeaderPrior(t) \/ LeaderPublish(t)
  \/ Signal(t) \/ SignalReq(t) \/ SignalCount(t) \/ SignalPoll(t) \/ SignalDead(t)
  \/ Signaled(t) \/ AckWalk(t) \/ AckWalked(t) \/ DropSentinel(t) \/ LeaderWait(t)
  \/ LeaderTail(t) \/ ClearPoll(t) \/ LeaderLeave(t)

(* What a thread does once it is inside a call. *)
CallStep(t) ==
  Poll(t) \/ PollReq(t) \/ AckStep(t) \/ RetireStep(t) \/ AttachStep(t) \/ LeaderStep(t)

Next ==
  \E t \in Threads :
    \/ PollStart(t) \/ NativeEnter(t) \/ NativeLeave(t) \/ Detach(t) \/ AttachPhase(t)
    \/ ClaimPoll(t)
    \/ \E kind \in Kinds : Request(t, kind)
    \/ RemoteScanRefused(t) \/ CallStep(t)

Spec == Init /\ [][Next]_vars

(***************************************************************************)
(* A call that was entered goes on; code that keeps running reaches a      *)
(* safepoint; the SMR reclaimer does not refuse every remote scan.  A      *)
(* thread may stay in native code for ever, and nobody has to attach.      *)
(***************************************************************************)
Fairness ==
  \A t \in Threads :
    WF_vars(CallStep(t)) /\ WF_vars(PollStart(t)) /\ SF_vars(RemoteScan(t))

FairSpec == Spec /\ Fairness

-----------------------------------------------------------------------------
(* Threads executing safepoint_ack_tg or a retirement on a consumed request. *)
Owing == {t \in Threads :
            \/ pc[t] \in {"k_epoch", "k_scan", "k_claim", "k_apply", "k_done",
                          "k_clear", "k_fix", "k_sub"}
            \/ pc[t] \in {"q_clear", "q_claim", "q_sub"} /\ fr[t].acts # "none"}

Sentinel == {t \in Threads : leader = t /\ want[t] # "none" /\
               walk.stage \in {"first", "loop"} /\ pc[t] \notin {"h_enter", "h_prior",
               "h_pub", "h_wait"} \cup TailPcs}

(* The counter is exact: one for the leader's sentinel, one for every      *)
(* request published and not consumed, one for every request consumed and  *)
(* not yet dropped.  A request is not lost to, or dropped twice by, the    *)
(* poll, the leader's help, the duplicate of a late signal, a detach or an *)
(* attach, however they race.                                              *)
SlotsCounted ==
  pending = Cardinality(Sentinel) + Cardinality(Owing)
            + Cardinality({t \in Threads : req[t] # "none"})

(* While the leader scans the private roots of a thread it saw in native   *)
(* code, or applies a held request for it, that thread is not back in Lua, *)
(* nor detaching from there: the owner that leaves native after the        *)
(* request was consumed is held by its own poll word, and one that left    *)
(* before is not scanned remotely.  A newcomer that gives up its attach is *)
(* the exception: lj_tg_detach clears in_native after its last poll and    *)
(* holds for nobody, so a scan begun before may last until it is gone.     *)
(* (Without a hold this is not so: a thread that polls while it attaches   *)
(* is in native too, and need not wait for the helper that won its claim.) *)
RemoteScanExclusive ==
  \A e \in Threads :
    LET x == fr[e].tgt IN
    pc[e] \in {"k_scan", "k_apply"} /\ fr[e].parked /\ fr[e].acts \in Held =>
      /\ pc[x] \notin {"run", "h_enter"}
      /\ pc[x] \in {"d_req", "d_native"} => native[x]
      /\ pc[x] \in {"d_dead", "gone"} => x \in Newcomers

(* The tail of a handshake with root scans or a trace boundary runs while  *)
(* no other thread is in Lua, although every one of them has dropped its   *)
(* slot: "keep a native-to-Lua reentry parked until the leader completes   *)
(* the matching root, SSB, allocator, or trace boundary"                   *)
(* (safepoint_hold_poll_until_leader).  The code does not keep this: a     *)
(* thread may consume its request before its poll word is set.             *)
NotYetReleased(t) ==
  /\ leader # 0 /\ t # leader /\ want[leader] \in {"on", "scan"}
  /\ \/ pc[leader] = "tail"
     \/ pc[leader] = "t_clear" /\ t \in walk.todo
  /\ t \in linked \ (dead \cup Newcomers)

WorldHeld == \A t \in Threads : NotYetReleased(t) => pc[t] # "run"

(* What the code does keep: in that tail the poll word of every thread the *)
(* leader has not released is set, so that the thread stops at its next    *)
(* safepoint; neither the thread, nor a helper, nor the loser of a claim   *)
(* has cleared it.                                                         *)
TailArmed == \A t \in Threads : NotYetReleased(t) => poll[t]

(* No epoch is applied to a thread twice: not by the thread and its        *)
(* helper, nor by a newcomer that caught up with it and is then counted    *)
(* too.  When the counter lets the leader go on, every thread that was     *)
(* there from the start has acknowledged this epoch and its actions were   *)
(* applied to it: not skipped by a claim that was lost.  (A newcomer that  *)
(* read the epoch before and links after the walk is passed by.)           *)
GraceComplete ==
  /\ \A t \in Threads : applied[t] <= 1
  /\ leader # 0 /\ pc[leader] \in TailPcs =>
       \A t \in linked \ (dead \cup Newcomers) :
         /\ ack[t] = epoch /\ applied[t] = 1 /\ req[t] = "none"
         /\ want[leader] = "on" => active[t]
         /\ want[leader] = "off" => ~active[t]

(* A thread that joined runs with the barrier mirror of the phase: once    *)
(* the activation of a cycle is over, every linked thread has its barrier  *)
(* on (plan/09_threading_api.md, 9.3: an attach in the middle of a         *)
(* handshake acknowledges it before its first bytecode or is counted).     *)
MirrorsCurrent ==
  phase = "MARK" /\ gc = 0 => \A t \in linked \ dead : pc[t] = "run" => active[t]

(* Every handshake comes to its end (safepoint_wait_consumed_ack: "new     *)
(* request publication wakes poll waiters after storing reqmask, so this   *)
(* can wait ... without a timeout").  It does not: the wake is lost on a   *)
(* waiter that has looked at its request mask and not yet gone to sleep,   *)
(* and the poll word it sleeps on keeps its value.                         *)
HandshakeEnds == leader # 0 ~> leader = 0

WakeLost == \E t \in Threads : pc[t] = "asleep" /\ req[t] # "none"

(* A request whose remote scan was refused goes back to a thread that will *)
(* consume it (safepoint_requeue_consumed: "return the exact mask to the   *)
(* owner; it will consume this after closing native state").  It need not: *)
(* a newcomer that gives up its attach in native code may have retired its *)
(* request word by then, and nobody looks at it again.                     *)
Stranded == /\ leader # 0 /\ pc[leader] = "h_wait"
            /\ \E t \in Threads : pc[t] = "gone" /\ req[t] # "none"
RequeueReachesOwner == ~Stranded

(* These are the only two ways for a handshake to hang: it ends when       *)
(* threads poll, leave and enter native, stay in native for ever, detach,  *)
(* attach, give up their attach or compete for the leadership, unless one  *)
(* sleeps on its request or left one behind.                               *)
HandshakeEndsUnlessLost == leader # 0 ~> (leader = 0 \/ WakeLost \/ Stranded)

(* A thread parked behind a consumed request runs again, unless so.        *)
SleepersResume ==
  \A t \in Threads : pc[t] = "asleep" ~> (pc[t] # "asleep" \/ WakeLost \/ Stranded)
=============================================================================
