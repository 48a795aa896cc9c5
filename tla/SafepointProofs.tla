---------------------------- MODULE SafepointProofs ----------------------------
(* Proofs about Safepoint: its inductive invariant, and from it that the      *)
(* pending word counts the slots that are out, that a handshake is not over   *)
(* before every thread has applied its actions once, that a remote scan never *)
(* meets a running thread, and that the poll words stay set in the tail.      *)
EXTENDS Safepoint, FiniteSetTheorems, WellFoundedInduction, TLAPS

(* The pcs of a request consumed and not yet dropped. *)
Consumed == {"k_epoch", "k_scan", "k_claim", "k_apply", "k_done", "k_clear",
             "k_fix", "k_sub"}
Claiming == {"k_epoch", "k_scan", "k_claim"}    \* the epoch is not yet claimed
EpochRead == Consumed \ {"k_epoch"}
Waiting  == {"w_load", "w_req", "w_futex", "asleep"}
Catching == {"new", "a_epoch", "a_pend", "a_apply", "a_hold", "a_link"}
Visiting == {"sig_req", "sig_count", "sig_poll", "sig_dead"}

PCs == AckPcs \cup RetirePcs \cup LeaderPcs \cup OwnerPcs
Rets == LeaderPcs \cup OwnerPcs
Frames == [tgt: Threads \cup {0}, acts: Masks, epoch: Nat, parked: BOOLEAN,
           wait: BOOLEAN, hold: BOOLEAN, ret: Rets]

(* The variables, without the bounds of the counters. *)
Types ==
  /\ phase \in {"IDLE", "MARK"} /\ gc \in Threads \cup {0}
  /\ epoch \in Nat /\ actions \in Masks /\ pending \in Int
  /\ leader \in Threads \cup {0}
  /\ linked \subseteq Threads /\ dead \subseteq Threads
  /\ native \in [Threads -> BOOLEAN] /\ active \in [Threads -> BOOLEAN]
  /\ req \in [Threads -> Masks]
  /\ poll \in [Threads -> BOOLEAN]
  /\ ack \in [Threads -> Nat]
  /\ pc \in [Threads -> PCs] /\ fr \in [Threads -> Frames]
  /\ want \in [Threads -> Masks]
  /\ walk \in [todo: SUBSET Threads, stage: {"prior", "first", "loop", "wait"},
               late: SUBSET Threads]
  /\ applied \in [Threads -> Nat]

(* Whose request t works at, and where it goes on then. *)
Shape(t) ==
  /\ pc[t] \in {"poll", "poll2"} =>
       /\ fr[t].tgt = t /\ ~fr[t].parked /\ fr[t].wait
       /\ fr[t].ret \in {"run", "a_claim"}
  /\ pc[t] \in AckPcs =>
       \/ /\ fr[t].tgt = t /\ ~fr[t].parked /\ fr[t].wait
          /\ fr[t].ret \in {"run", "a_bound", "a_claim", "d_native"}
       \/ /\ fr[t].tgt = t /\ ~fr[t].parked /\ ~fr[t].wait /\ fr[t].ret = "h_enter"
       \/ /\ fr[t].tgt \in linked /\ ~fr[t].wait /\ fr[t].ret = "acks"
          /\ fr[t].parked <=> fr[t].tgt # t
  /\ pc[t] \in Waiting => fr[t].wait
  /\ pc[t] = "k_scan" => fr[t].parked
  /\ pc[t] \in {"k_clear", "k_fix"} => fr[t].parked /\ fr[t].acts = "owner"
  /\ pc[t] \in RetirePcs =>
       /\ ~fr[t].parked /\ ~fr[t].wait
       /\ fr[t].tgt \in dead
       /\ (fr[t].ret = "gone" /\ fr[t].tgt = t) \/ fr[t].ret = "sig"
  /\ pc[t] \in Consumed \cup {"q_claim", "q_sub"} => fr[t].acts # "none"

(* t is the leader of a handshake. *)
Leads(t) ==
  \/ pc[t] \in LeaderPcs
  \/ pc[t] \in AckPcs /\ fr[t].ret = "acks"
  \/ pc[t] \in RetirePcs /\ fr[t].ret = "sig"

(* t has asked for a handshake. *)
Wants(t) ==
  Leads(t) \/ pc[t] = "h_enter" \/ (pc[t] \in AckPcs /\ fr[t].ret = "h_enter")

(* Who leads, who wants to, and who is in the registry. *)
Roles(t) ==
  /\ Leads(t) <=> leader = t
  /\ Wants(t) <=> want[t] # "none"
  /\ t \notin linked <=> pc[t] \in Catching
  /\ t \in dead <=> \/ pc[t] = "gone"
                    \/ pc[t] \in RetirePcs /\ fr[t].ret = "gone"
  /\ t \notin Newcomers => t \in linked

(* t is linked and waits in native code to become a running thread. *)
Joining(t) ==
  \/ pc[t] \in {"a_bound", "a_claim"}
  \/ pc[t] \in AckPcs \cup {"poll", "poll2"} /\ fr[t].ret \in {"a_bound", "a_claim"}

(* Who is in native code. *)
Natives(t) ==
  /\ t \notin Newcomers => ~Joining(t) /\ (native[t] => pc[t] = "native")
  /\ Joining(t) => native[t]
  /\ pc[t] \in Catching \ {"new"} => native[t]
  /\ native[t] => \/ pc[t] \in Catching \cup {"native", "d_req", "d_native"}
                  \/ Joining(t)
                  \/ pc[t] \in AckPcs /\ fr[t].ret = "d_native"

(* How far the leader is in its walk. *)
Walks(l) ==
  /\ walk.todo \subseteq linked
  /\ pc[l] \in {"h_prior", "h_pub"} => walk.stage \in {"first", "prior"}
  /\ pc[l] \in Visiting \cup {"sig"} \cup RetirePcs =>
       walk.stage \in {"first", "loop", "wait"}
  /\ pc[l] \in AckPcs \cup {"acks"} => walk.stage \in {"prior", "loop", "wait"}
  /\ pc[l] = "h_drop" => walk.stage = "loop"
  /\ pc[l] \in {"h_wait", "tail"} => walk.stage \in {"loop", "wait"}
  /\ pc[l] = "t_clear" => walk.stage = "wait"
  /\ pc[l] \in Visiting => walk.todo # {}
  /\ pc[l] = "sig_count" => req[Here] = "none"
  /\ pc[l] \in Consumed \cup {"k_none"} => req[fr[l].tgt] = "none"

Shapes ==
  /\ Types
  /\ \A t \in Threads : Shape(t) /\ Roles(t) /\ Natives(t)
  /\ \A l \in Threads : leader = l => Walks(l)
  /\ leader = 0 => walk = NoWalk

(* The leader has published its epoch and not gone yet. *)
Published ==
  /\ leader # 0 /\ pc[leader] \notin {"h_prior", "h_pub"}
  /\ walk.stage # "prior"

Reqs == {t \in Threads : req[t] # "none"}
Counted == pending = Cardinality(Sentinel) + Cardinality(Owing) + Cardinality(Reqs)

Quiet ==
  /\ ~Published \/ pc[leader] \in TailPcs => pending = 0
  /\ walk.stage # "prior"

(* The threads that asked for an epoch that is not published.              *)
Unpublished == {t \in Threads : want[t] # "none" /\ ~(Published /\ leader = t)}
Budget == epoch + Cardinality(Unpublished) <= MaxEpoch

Slots == Counted /\ Quiet /\ Budget

(* Everything that is out belongs to the published epoch. *)
Fits(t) ==
  /\ pc[t] \in Consumed => fr[t].acts = actions
  /\ pc[t] \in EpochRead => fr[t].epoch = epoch
  /\ fr[t].epoch <= epoch

Current ==
  /\ Published => actions = want[leader]
  /\ \A t \in Threads : req[t] \in {"none", actions} /\ ack[t] <= epoch /\ Fits(t)

(* The leader of a new epoch has not come to x with its request. *)
Unsignaled(x) ==
  /\ walk.stage = "first" /\ x \in walk.todo
  /\ ~(pc[leader] \in {"sig_poll", "sig_dead"} /\ x = Here)

(* x is done with its request of this epoch, or somebody is to see to it. *)
Covered(x) ==
  \/ x \in dead \/ ack[x] = epoch \/ req[x] # "none"
  \/ \E t \in Threads : pc[t] \in Claiming /\ fr[t].tgt = x

Applies(t, x) == pc[t] = "k_apply" /\ fr[t].tgt = x

(* The actions of an epoch are applied to x at most once, *)
Once(x) ==
  /\ ack[x] # epoch => applied[x] = 0
  /\ \A t \in Threads : Applies(t, x) => ack[x] = epoch /\ applied[x] = 0
  /\ \A t, u \in Threads : Applies(t, x) /\ Applies(u, x) => t = u
  /\ applied[x] <= 1
  /\ pc[x] \in {"new", "a_epoch", "a_pend", "a_apply"} => applied[x] = 0
  /\ pc[x] = "a_apply" => ack[x] = fr[x].epoch

(* and not skipped. *)
Done(x) ==
  /\ epoch # 0 /\ ack[x] = epoch /\ x \notin dead =>
       applied[x] = 1 \/ \E t \in Threads : Applies(t, x)
  /\ applied[x] = 1 => /\ actions = "on" => active[x]
                       /\ actions = "off" => ~active[x]
  /\ Published /\ ~Unsignaled(x) => Covered(x)

Grace ==
  /\ \A x \in Threads : Once(x)
  /\ \A x \in Threads \ Newcomers : Done(x)
  /\ Published => epoch # 0

Owes(t) ==
  \/ pc[t] \in Consumed
  \/ pc[t] \in {"q_clear", "q_claim", "q_sub"} /\ fr[t].acts # "none"

(* Nothing is under way for x before the leader comes to it. *)
Fresh(x) ==
  Published /\ Unsignaled(x) =>
    /\ req[x] = "none" /\ ack[x] # epoch
    /\ \A t \in Threads : Owes(t) => fr[t].tgt # x

(* The poll word of x is set from its signal to its release. *)
Unarmed(x) ==
  /\ walk.stage = "first" /\ x \in walk.todo
  /\ ~(pc[leader] = "sig_dead" /\ x = Here)

Armed(x) ==
  Published /\ actions \in {"on", "scan"} /\ x # leader /\ x \notin dead =>
    Unarmed(x) \/ (pc[leader] = "t_clear" /\ x \notin walk.todo) \/ poll[x]

(* A request that will be held has its poll word set, *)
Polled(x) ==
  actions \in Held /\ req[x] # "none" =>
    poll[x] \/ x \in dead \/ (leader # 0 /\ pc[leader] = "sig_poll" /\ Here = x)

(* and a thread that consumed one will wait. *)
Holds(t) ==
  pc[t] = "k_sub" /\ fr[t].wait /\ fr[t].acts \in Held => fr[t].hold

(* x does not come back to Lua as long as its poll word is set. *)
Stopped(x) ==
  \/ pc[x] \in {"native", "a_bound", "a_claim", "poll"}
  \/ pc[x] = "poll2" /\ fr[x].ret = "a_claim"
  \/ pc[x] = "d_req" /\ native[x]
  \/ pc[x] \in AckPcs /\ fr[x].wait

(* x gave up its attach and never comes to Lua. *)
Leaving(x) ==
  /\ x \in Newcomers
  /\ \/ pc[x] = "d_native" /\ native[x]
     \/ pc[x] \in {"d_dead", "gone"}
     \/ pc[x] \in RetirePcs /\ fr[x].ret = "gone"

(* The target of a remote acknowledgement has nothing to give, is stopped, *)
(* or leaves.                                                              *)
Guarded(e) ==
  pc[e] \in {"k_xchg", "k_epoch", "k_scan", "k_claim", "k_apply"}
  /\ fr[e].parked /\ actions \in Held =>
       \/ pc[e] = "k_xchg" /\ req[fr[e].tgt] = "none"
       \/ Stopped(fr[e].tgt) /\ poll[fr[e].tgt]
       \/ Leaving(fr[e].tgt)

Hold ==
  /\ \A x \in Threads \ Newcomers : Fresh(x) /\ Armed(x)
  /\ \A x \in Threads : Polled(x) /\ Holds(x) /\ Guarded(x)

IInv == Shapes /\ Slots /\ Current /\ Grace /\ Hold

(* What Next lets the thread t do. *)
Moves(t) ==
  \/ PollStart(t) \/ NativeEnter(t) \/ NativeLeave(t) \/ Detach(t) \/ AttachPhase(t)
  \/ ClaimPoll(t)
  \/ \E kind \in Kinds : Request(t, kind)
  \/ RemoteScanRefused(t) \/ CallStep(t)

-----------------------------------------------------------------------------
(* The walk has a least thread as long as it has one. *)
LEMMA MinIn ==
  ASSUME NEW S, S \subseteq Nat, S # {}
  PROVE  Min(S) \in S
<1> DEFINE R == OpToRel(<, Nat)
<1>1. \E x \in S : \A y \in S : ~(<<y, x>> \in R)
  <2>1. IsWellFoundedOn(R, Nat)
    BY NatLessThanWellFounded
  <2> HIDE DEF R
  <2> QED BY <2>1, WFMin
<1>2. \A x, y \in Nat : y < x => <<y, x>> \in R
  BY DEF OpToRel
<1> HIDE DEF R
<1>3. PICK x \in S : \A y \in S : ~(<<y, x>> \in R)
  BY <1>1
<1>4. ASSUME NEW y \in S
      PROVE  x <= y
  <2>1. x \in Nat /\ y \in Nat /\ ~(y < x)
    BY <1>2, <1>3
  <2> QED BY <2>1
<1> QED BY <1>4 DEF Min

(* The thread of the walk that the leader is at is one of the walk. *)
LEMMA HereIn ==
  ASSUME walk.todo \subseteq Threads, walk.todo # {}
  PROVE  Here \in walk.todo /\ Here \in Threads
BY SafepointAssumption, MinIn DEF Here, Threads

(* What a wake changes. *)
LEMMA Woken ==
  ASSUME pc \in [Threads -> PCs], NEW t \in Threads, NEW x \in Threads,
         NEW l \in PCs, GotoWake(t, l, x)
  PROVE  /\ pc' \in [Threads -> PCs] /\ pc'[t] = l
         /\ \A u \in Threads \ {t} :
              pc'[u] = pc[u] \/ (pc[u] = "asleep" /\ pc'[u] = "w_load")
<1>1. "w_load" \in PCs
  BY DEF PCs, AckPcs
<1> QED BY <1>1 DEF GotoWake

(* The frames of a call. *)
LEMMA FrameFields ==
  ASSUME NEW f \in Frames
  PROVE  /\ f.tgt \in Threads \cup {0} /\ f.acts \in Masks /\ f.epoch \in Nat
         /\ f.parked \in BOOLEAN /\ f.wait \in BOOLEAN /\ f.hold \in BOOLEAN
         /\ f.ret \in Rets /\ f.ret \in PCs
BY DEF Frames, PCs, Rets

(* What the actions write to a frame keeps it a frame; *)
LEMMA FrameUpdates ==
  ASSUME NEW f \in Frames, NEW a \in Masks, NEW e \in Nat, NEW h \in BOOLEAN
  PROVE  /\ [f EXCEPT !.acts = a] \in Frames
         /\ [f EXCEPT !.epoch = e] \in Frames
         /\ [f EXCEPT !.hold = h] \in Frames
         /\ [f EXCEPT !.acts = a, !.hold = h] \in Frames
<1> USE DEF Frames
<1>1. [f EXCEPT !.acts = a] \in Frames
  OBVIOUS
<1>2. [f EXCEPT !.epoch = e] \in Frames
  OBVIOUS
<1>3. [f EXCEPT !.hold = h] \in Frames
  OBVIOUS
<1>4. [f EXCEPT !.acts = a, !.hold = h] \in Frames
  OBVIOUS
<1> QED BY <1>1, <1>2, <1>3, <1>4

(* the frame of a thread at rest is one, *)
LEMMA NoFrameIs == NoFrame \in Frames
BY DEF NoFrame, Frames, Masks, Rets, OwnerPcs

(* and so is the frame of safepoint_ack_tg on its entry. *)
LEMMA AckFrameIs ==
  ASSUME NEW x \in Threads, NEW p \in BOOLEAN, NEW w \in BOOLEAN, NEW r \in Rets
  PROVE  AckFrame(x, p, w, r) \in Frames
BY DEF NoFrame, AckFrame, Frames, Masks

(* The variables keep their types. *)
LEMMA TypesStep ==
  ASSUME Shapes, NEW t \in Threads, Moves(t)
  PROVE  Types'
<1>ty. Types
  BY DEF Shapes
<1>pc. pc \in [Threads -> PCs]
  BY <1>ty DEF Types
<1>frt. fr \in [Threads -> Frames]
  BY <1>ty DEF Types
<1>val. /\ epoch \in Nat /\ actions \in Masks
        /\ \A u \in Threads : req[u] \in Masks
  BY <1>ty DEF Types
<1>fr. fr[t] \in Frames /\ fr[t].ret \in PCs /\ fr[t].acts \in Masks /\ fr[t].epoch \in Nat
  BY <1>frt, FrameFields
<1>tgt. pc[t] \in Consumed \cup {"k_xchg", "k_none", "q_xchg", "q_clear", "q_claim"}
          => fr[t].tgt \in Threads
  BY <1>ty DEF Shapes, Types, Shape, AckPcs, RetirePcs, Consumed
<1>here. /\ walk.todo # {} => Here \in walk.todo /\ Here \in Threads
         /\ At(t, "sig_req") \/ At(t, "sig_count") \/ At(t, "sig_poll")
              \/ At(t, "sig_dead") => walk.todo # {}
  BY <1>ty, HereIn DEF At, Types, Shapes, Roles, Leads, Walks, Visiting, LeaderPcs
<1>kind. Kinds \subseteq Masks
  BY SafepointAssumption DEF Masks
<1>rets. /\ "run" \in Rets /\ "d_native" \in Rets /\ "a_claim" \in Rets /\ "gone" \in Rets /\ "acks" \in Rets
         /\ "a_bound" \in Rets /\ "h_enter" \in Rets /\ "sig" \in Rets
  BY DEF Rets, OwnerPcs, LeaderPcs
<1>names. /\ "k_sub" \in PCs /\ "k_fix" \in PCs /\ "q_claim" \in PCs
          /\ "sig_dead" \in PCs /\ "t_clear" \in PCs
  BY DEF PCs, AckPcs, RetirePcs, LeaderPcs, TailPcs
<1> USE DEF Types, Goto, global, hs, registry, tg, leading
<1>1. CASE PollStart(t)
  <2>1. pc' \in [Threads -> PCs]
    BY <1>1, <1>pc DEF PollStart, Enter, PCs, OwnerPcs
  <2>2. fr' \in [Threads -> Frames]
    BY <1>1, <1>frt, AckFrameIs, <1>rets DEF PollStart, Enter
  <2> QED BY <1>1, <1>ty, <2>1, <2>2 DEF PollStart
<1>2. CASE NativeEnter(t)
  <2>1. pc' \in [Threads -> PCs]
    BY <1>2, <1>pc DEF NativeEnter, PCs, OwnerPcs
  <2> QED BY <1>2, <1>ty, <2>1 DEF NativeEnter
<1>3. CASE NativeLeave(t)
  <2>1. pc' \in [Threads -> PCs]
    BY <1>3, <1>pc DEF NativeLeave, Enter, PCs, OwnerPcs
  <2>2. fr' \in [Threads -> Frames]
    BY <1>3, <1>frt, AckFrameIs, <1>rets DEF NativeLeave, Enter
  <2> QED BY <1>3, <1>ty, <2>1, <2>2 DEF NativeLeave
<1>4. CASE Detach(t)
  <2>1. pc' \in [Threads -> PCs]
    BY <1>4, <1>pc DEF Detach, PCs, OwnerPcs
  <2> QED BY <1>4, <1>ty, <2>1 DEF Detach
<1>5. CASE AttachPhase(t)
  <2>1. pc' \in [Threads -> PCs]
    BY <1>5, <1>pc DEF AttachPhase, PCs, OwnerPcs
  <2> QED BY <1>5, <1>ty, <2>1 DEF AttachPhase
<1>6. ASSUME NEW kind \in Kinds, Request(t, kind)
      PROVE  Types'
  <2>1. pc' \in [Threads -> PCs]
    BY <1>6, <1>pc DEF Request, PCs, OwnerPcs
  <2> QED BY <1>6, <1>ty, <2>1, <1>kind DEF Request, Masks
<1>7. CASE RemoteScanRefused(t)
  <2>0. fr[t].tgt \in Threads
    BY <1>7, <1>tgt DEF RemoteScanRefused, At, Consumed
  <2>1. pc' \in [Threads -> PCs]
    BY <1>7, <1>pc, <2>0, Woken, <1>names, <1>fr DEF RemoteScanRefused
  <2>2. fr' \in [Threads -> Frames]
    BY <1>7, <1>frt, NoFrameIs DEF RemoteScanRefused
  <2> QED BY <1>7, <1>ty, <2>1, <2>2, <2>0, <1>fr DEF RemoteScanRefused
<1>8. CASE Poll(t)
  <2>1. pc' \in [Threads -> PCs]
    BY <1>8, <1>pc DEF Poll, PCs, AckPcs, OwnerPcs
  <2> QED BY <1>8, <1>ty, <2>1 DEF Poll
<1>9. CASE PollReq(t)
  <2>1. pc' \in [Threads -> PCs]
    BY <1>9, <1>pc, <1>fr DEF PollReq, Return, Enter, PCs, AckPcs
  <2>2. fr' \in [Threads -> Frames]
    BY <1>9, <1>frt, NoFrameIs DEF PollReq, Enter, Return
  <2> QED BY <1>9, <1>ty, <2>1, <2>2 DEF PollReq
<1>10. CASE AckStep(t)
  <2>1. CASE AckXchg(t)
    <3>0. fr[t].tgt \in Threads
      BY <2>1, <1>tgt DEF AckXchg, At, Consumed
    <3>1. pc' \in [Threads -> PCs]
      BY <2>1, <1>pc, <3>0 DEF AckXchg, PCs, AckPcs
    <3>2. fr' \in [Threads -> Frames]
      BY <2>1, <1>frt, <3>0, <1>val, <1>fr, FrameUpdates DEF AckXchg
    <3> QED BY <2>1, <1>ty, <3>1, <3>2, <3>0 DEF AckXchg, Masks
  <2>2. CASE AckNothing(t)
    <3>0. fr[t].tgt \in Threads
      BY <2>2, <1>tgt DEF AckNothing, At, Consumed
    <3>1. pc' \in [Threads -> PCs]
      BY <2>2, <1>pc, <3>0, <1>fr DEF AckNothing, Return, Enter, PCs, AckPcs
    <3>2. fr' \in [Threads -> Frames]
      BY <2>2, <1>frt, NoFrameIs DEF AckNothing, Enter, Return
    <3> QED BY <2>2, <1>ty, <3>1, <3>2, <3>0 DEF AckNothing
  <2>3. CASE AckEpoch(t)
    <3>0. fr[t].tgt \in Threads
      BY <2>3, <1>tgt DEF AckEpoch, At, Consumed
    <3>1. pc' \in [Threads -> PCs]
      BY <2>3, <1>pc, <3>0 DEF AckEpoch, PCs, AckPcs
    <3>2. fr' \in [Threads -> Frames]
      BY <2>3, <1>frt, <3>0, <1>val, <1>fr, FrameUpdates DEF AckEpoch
    <3> QED BY <2>3, <1>ty, <3>1, <3>2, <3>0 DEF AckEpoch
  <2>4. CASE RemoteScan(t)
    <3>1. pc' \in [Threads -> PCs]
      BY <2>4, <1>pc DEF RemoteScan, PCs, AckPcs
    <3> QED BY <2>4, <1>ty, <3>1 DEF RemoteScan
  <2>5. CASE AckClaim(t)
    <3>0. fr[t].tgt \in Threads
      BY <2>5, <1>tgt DEF AckClaim, At, Consumed
    <3>1. pc' \in [Threads -> PCs]
      BY <2>5, <1>pc, <3>0 DEF AckClaim, PCs, AckPcs
    <3> QED BY <2>5, <1>ty, <3>1, <3>0, <1>fr DEF AckClaim
  <2>6. CASE AckApply(t)
    <3>0. fr[t].tgt \in Threads
      BY <2>6, <1>tgt DEF AckApply, At, Consumed
    <3>1. pc' \in [Threads -> PCs]
      BY <2>6, <1>pc, <3>0 DEF AckApply, PCs, AckPcs
    <3>2. active' \in [Threads -> BOOLEAN]
      BY <2>6, <1>ty, <3>0 DEF AckApply, Mirror
    <3>3. applied' \in [Threads -> Nat]
      BY <2>6, <1>ty, <3>0 DEF AckApply
    <3> QED BY <2>6, <1>ty, <3>1, <3>2, <3>3, <3>0 DEF AckApply
  <2>7. CASE AckDone(t)
    <3>0. fr[t].tgt \in Threads
      BY <2>7, <1>tgt DEF AckDone, At, Consumed
    <3>1. pc' \in [Threads -> PCs]
      BY <2>7, <1>pc, <3>0, Woken, <1>names DEF AckDone
    <3>2. fr' \in [Threads -> Frames]
      BY <2>7, <1>frt, <3>0, <1>val, <1>fr, FrameUpdates DEF AckDone
    <3> QED BY <2>7, <1>ty, <3>1, <3>2, <3>0 DEF AckDone
  <2>8. CASE AckClear(t)
    <3>0. fr[t].tgt \in Threads
      BY <2>8, <1>tgt DEF AckClear, At, Consumed
    <3>1. pc' \in [Threads -> PCs]
      BY <2>8, <1>pc, <3>0, Woken, <1>names DEF AckClear
    <3> QED BY <2>8, <1>ty, <3>1, <3>0 DEF AckClear
  <2>9. CASE AckRestore(t)
    <3>0. fr[t].tgt \in Threads
      BY <2>9, <1>tgt DEF AckRestore, At, Consumed
    <3>1. pc' \in [Threads -> PCs]
      BY <2>9, <1>pc, <3>0, Woken, <1>names DEF AckRestore
    <3> QED BY <2>9, <1>ty, <3>1, <3>0 DEF AckRestore
  <2>10. CASE AckSub(t)
    <3>1. pc' \in [Threads -> PCs]
      BY <2>10, <1>pc, <1>fr DEF AckSub, Return, Enter, PCs, AckPcs
    <3>2. fr' \in [Threads -> Frames]
      BY <2>10, <1>frt, NoFrameIs DEF AckSub, Enter, Return
    <3> QED BY <2>10, <1>ty, <3>1, <3>2 DEF AckSub
  <2>11. CASE WaitLoad(t)
    <3>1. pc' \in [Threads -> PCs]
      BY <2>11, <1>pc, <1>fr DEF WaitLoad, Return, Enter, PCs, AckPcs
    <3>2. fr' \in [Threads -> Frames]
      BY <2>11, <1>frt, NoFrameIs DEF WaitLoad, Enter, Return
    <3> QED BY <2>11, <1>ty, <3>1, <3>2 DEF WaitLoad
  <2>12. CASE WaitReq(t)
    <3>1. pc' \in [Threads -> PCs]
      BY <2>12, <1>pc DEF WaitReq, PCs, AckPcs
    <3> QED BY <2>12, <1>ty, <3>1 DEF WaitReq
  <2>13. CASE WaitFutex(t)
    <3>1. pc' \in [Threads -> PCs]
      BY <2>13, <1>pc DEF WaitFutex, PCs, AckPcs
    <3> QED BY <2>13, <1>ty, <3>1 DEF WaitFutex
  <2> QED BY <1>10, <2>1, <2>2, <2>3, <2>4, <2>5, <2>6, <2>7, <2>8, <2>9,
    <2>10, <2>11, <2>12, <2>13 DEF AckStep
<1>11. CASE RetireStep(t)
  <2>1. CASE RetireXchg(t)
    <3>0. fr[t].tgt \in Threads
      BY <2>1, <1>tgt DEF RetireXchg, At, Consumed
    <3>1. pc' \in [Threads -> PCs]
      BY <2>1, <1>pc, <3>0 DEF RetireXchg, PCs, RetirePcs
    <3>2. fr' \in [Threads -> Frames]
      BY <2>1, <1>frt, <3>0, <1>val, <1>fr, FrameUpdates DEF RetireXchg
    <3> QED BY <2>1, <1>ty, <3>1, <3>2, <3>0 DEF RetireXchg, Masks
  <2>2. CASE RetireClear(t)
    <3>0. fr[t].tgt \in Threads
      BY <2>2, <1>tgt DEF RetireClear, At, Consumed
    <3>1. pc' \in [Threads -> PCs]
      BY <2>2, <1>pc, <3>0, Woken, <1>names, <1>fr DEF RetireClear
    <3>2. fr' \in [Threads -> Frames]
      BY <2>2, <1>frt, NoFrameIs DEF RetireClear
    <3> QED BY <2>2, <1>ty, <3>1, <3>2, <3>0 DEF RetireClear
  <2>3. CASE RetireClaim(t)
    <3>0. fr[t].tgt \in Threads
      BY <2>3, <1>tgt DEF RetireClaim, At, Consumed
    <3>1. pc' \in [Threads -> PCs]
      BY <2>3, <1>pc, <3>0 DEF RetireClaim, PCs, RetirePcs, LeaderPcs
    <3> QED BY <2>3, <1>ty, <3>1, <3>0 DEF RetireClaim
  <2>4. CASE RetireSub(t)
    <3>1. pc' \in [Threads -> PCs]
      BY <2>4, <1>pc, <1>fr DEF RetireSub, Return, Enter
    <3>2. fr' \in [Threads -> Frames]
      BY <2>4, <1>frt, NoFrameIs DEF RetireSub, Enter, Return
    <3> QED BY <2>4, <1>ty, <3>1, <3>2 DEF RetireSub
  <2>5. CASE DetachPoll(t)
    <3>1. pc' \in [Threads -> PCs]
      BY <2>5, <1>pc DEF DetachPoll, Enter, PCs, AckPcs, OwnerPcs
    <3>2. fr' \in [Threads -> Frames]
      BY <2>5, <1>frt, AckFrameIs, <1>rets DEF DetachPoll, Enter
    <3> QED BY <2>5, <1>ty, <3>1, <3>2 DEF DetachPoll
  <2>6. CASE DetachDead(t)
    <3>1. pc' \in [Threads -> PCs]
      BY <2>6, <1>pc DEF DetachDead, Enter, PCs, RetirePcs, OwnerPcs
    <3>2. fr' \in [Threads -> Frames]
      BY <2>6, <1>frt, AckFrameIs, <1>rets DEF DetachDead, Enter
    <3> QED BY <2>6, <1>ty, <3>1, <3>2 DEF DetachDead
  <2>7. CASE DetachNative(t)
    <3>1. pc' \in [Threads -> PCs]
      BY <2>7, <1>pc DEF DetachNative, PCs, OwnerPcs
    <3> QED BY <2>7, <1>ty, <3>1 DEF DetachNative
  <2> QED BY <1>11, <2>1, <2>2, <2>3, <2>4, <2>5, <2>6, <2>7 DEF RetireStep
<1>12. CASE AttachStep(t)
  <2>1. CASE AttachEpoch(t)
    <3>1. pc' \in [Threads -> PCs]
      BY <2>1, <1>pc DEF AttachEpoch, PCs, OwnerPcs
    <3>2. fr' \in [Threads -> Frames]
      BY <2>1, <1>frt, <1>val, <1>fr, FrameUpdates DEF AttachEpoch
    <3> QED BY <2>1, <1>ty, <3>1, <3>2 DEF AttachEpoch
  <2>2. CASE AttachPending(t)
    <3>1. pc' \in [Threads -> PCs]
      BY <2>2, <1>pc DEF AttachPending, PCs, OwnerPcs
    <3>2. fr' \in [Threads -> Frames]
      BY <2>2, <1>frt, <1>val, <1>fr, FrameUpdates DEF AttachPending, Masks
    <3> QED BY <2>2, <1>ty, <3>1, <3>2, <1>fr DEF AttachPending
  <2>3. CASE AttachApply(t)
    <3>1. pc' \in [Threads -> PCs]
      BY <2>3, <1>pc DEF AttachApply, PCs, OwnerPcs
    <3> QED BY <2>3, <1>ty, <3>1 DEF AttachApply, Mirror
  <2>4. CASE AttachHold(t)
    <3>1. pc' \in [Threads -> PCs]
      BY <2>4, <1>pc DEF AttachHold, PCs, OwnerPcs
    <3> QED BY <2>4, <1>ty, <3>1 DEF AttachHold
  <2>5. CASE AttachLink(t)
    <3>1. pc' \in [Threads -> PCs]
      BY <2>5, <1>pc DEF AttachLink, Enter, PCs, OwnerPcs
    <3>2. fr' \in [Threads -> Frames]
      BY <2>5, <1>frt, NoFrameIs DEF AttachLink, Enter
    <3> QED BY <2>5, <1>ty, <3>1, <3>2 DEF AttachLink
  <2>6. CASE AttachBoundary(t)
    <3>1. pc' \in [Threads -> PCs]
      BY <2>6, <1>pc DEF AttachBoundary, Enter, PCs, AckPcs, OwnerPcs
    <3>2. fr' \in [Threads -> Frames]
      BY <2>6, <1>frt, AckFrameIs, <1>rets DEF AttachBoundary, Enter
    <3> QED BY <2>6, <1>ty, <3>1, <3>2 DEF AttachBoundary
  <2> QED BY <1>12, <2>1, <2>2, <2>3, <2>4, <2>5, <2>6 DEF AttachStep
<1>13. CASE LeaderStep(t)
  <2>1. CASE LeaderEnter(t)
    <3>1. pc' \in [Threads -> PCs]
      BY <2>1, <1>pc DEF LeaderEnter, PCs, LeaderPcs
    <3> QED BY <2>1, <1>ty, <3>1 DEF LeaderEnter
  <2>2. CASE HelpSelf(t)
    <3>1. pc' \in [Threads -> PCs]
      BY <2>2, <1>pc DEF HelpSelf, Enter, PCs, AckPcs, OwnerPcs
    <3>2. fr' \in [Threads -> Frames]
      BY <2>2, <1>frt, AckFrameIs, <1>rets DEF HelpSelf, Enter
    <3> QED BY <2>2, <1>ty, <3>1, <3>2 DEF HelpSelf
  <2>3. CASE LeaderPrior(t)
    <3>1. pc' \in [Threads -> PCs]
      BY <2>3, <1>pc DEF LeaderPrior, StartWalk, PCs, LeaderPcs
    <3> QED BY <2>3, <1>ty, <3>1 DEF LeaderPrior, StartWalk
  <2>4. CASE LeaderPublish(t)
    <3>1. pc' \in [Threads -> PCs]
      BY <2>4, <1>pc DEF LeaderPublish, StartWalk, PCs, LeaderPcs
    <3> QED BY <2>4, <1>ty, <3>1 DEF LeaderPublish, StartWalk
  <2>5. CASE Signal(t)
    <3>1. pc' \in [Threads -> PCs]
      BY <2>5, <1>pc DEF Signal, PCs, LeaderPcs
    <3> QED BY <2>5, <1>ty, <3>1, <1>here DEF Signal, At, Walked, PassOn
  <2>6. CASE SignalReq(t)
    <3>1. pc' \in [Threads -> PCs]
      BY <2>6, <1>pc DEF SignalReq, PCs, LeaderPcs
    <3> QED BY <2>6, <1>ty, <3>1, <1>here DEF SignalReq, At, Walked, PassOn
  <2>7. CASE SignalCount(t)
    <3>1. pc' \in [Threads -> PCs]
      BY <2>7, <1>pc DEF SignalCount, PCs, LeaderPcs
    <3> QED BY <2>7, <1>ty, <3>1, <1>here DEF SignalCount, At, Walked
  <2>8. CASE SignalPoll(t)
    <3>1. pc' \in [Threads -> PCs]
      BY <2>8, <1>pc, <1>here, Woken, <1>names DEF SignalPoll, At, Walked
    <3> QED BY <2>8, <1>ty, <3>1, <1>here DEF SignalPoll, At, Walked
  <2>9. CASE SignalDead(t)
    <3>1. pc' \in [Threads -> PCs]
      BY <2>9, <1>pc DEF SignalDead, Enter, PCs, RetirePcs, LeaderPcs
    <3>2. fr' \in [Threads -> Frames]
      BY <2>9, <1>frt, <1>here, AckFrameIs, <1>rets DEF SignalDead, At, Walked,
        Enter
    <3> QED BY <2>9, <1>ty, <3>1, <3>2, <1>here DEF SignalDead, At, Walked, PassOn
  <2>10. CASE Signaled(t)
    <3>1. pc' \in [Threads -> PCs]
      BY <2>10, <1>pc DEF Signaled, StartWalk, PCs, LeaderPcs
    <3> QED BY <2>10, <1>ty, <3>1 DEF Signaled, StartWalk
  <2>11. CASE AckWalk(t)
    <3>1. pc' \in [Threads -> PCs]
      BY <2>11, <1>pc DEF AckWalk, Enter, PCs, AckPcs, LeaderPcs
    <3>2. fr' \in [Threads -> Frames]
      <4>1. AckFrame(Here, Here # t, FALSE, "acks") \in Frames
        BY <2>11, <1>here, AckFrameIs, <1>rets DEF AckWalk, Walked
      <4>2. fr' = fr \/ fr' = [fr EXCEPT ![t] = AckFrame(Here, Here # t, FALSE, "acks")]
        BY <2>11 DEF AckWalk, Enter
      <4> QED BY <4>1, <4>2, <1>frt
    <3> QED BY <2>11, <1>ty, <3>1, <3>2, <1>here DEF AckWalk, At, Walked, PassOn
  <2>12. CASE AckWalked(t)
    <3>1. pc' \in [Threads -> PCs]
      BY <2>12, <1>pc DEF AckWalked, StartWalk, PCs, LeaderPcs
    <3> QED BY <2>12, <1>ty, <3>1 DEF AckWalked, StartWalk
  <2>13. CASE DropSentinel(t)
    <3>1. pc' \in [Threads -> PCs]
      BY <2>13, <1>pc DEF DropSentinel, PCs, LeaderPcs
    <3> QED BY <2>13, <1>ty, <3>1 DEF DropSentinel
  <2>14. CASE LeaderWait(t)
    <3>1. pc' \in [Threads -> PCs]
      BY <2>14, <1>pc DEF LeaderWait, StartWalk, PCs, LeaderPcs, TailPcs
    <3> QED BY <2>14, <1>ty, <3>1 DEF LeaderWait, StartWalk
  <2>15. CASE LeaderTail(t)
    <3>1. pc' \in [Threads -> PCs]
      BY <2>15, <1>pc DEF LeaderTail, StartWalk, PCs, LeaderPcs, TailPcs
    <3> QED BY <2>15, <1>ty, <3>1 DEF LeaderTail, StartWalk
  <2>16. CASE ClearPoll(t)
    <3>1. pc' \in [Threads -> PCs]
      BY <2>16, <1>pc, <1>here, Woken, <1>names DEF ClearPoll, At, Walked
    <3> QED BY <2>16, <1>ty, <3>1, <1>here DEF ClearPoll, At, Walked, PassOn
  <2>17. CASE LeaderLeave(t)
    <3>1. pc' \in [Threads -> PCs]
      BY <2>17, <1>pc DEF LeaderLeave, PCs, OwnerPcs
    <3> QED BY <2>17, <1>ty, <3>1 DEF LeaderLeave, NoWalk, Masks
  <2> QED BY <1>13, <2>1, <2>2, <2>3, <2>4, <2>5, <2>6, <2>7, <2>8, <2>9,
    <2>10, <2>11, <2>12, <2>13, <2>14, <2>15, <2>16, <2>17 DEF LeaderStep
<1>14. CASE ClaimPoll(t)
  <2>1. pc' \in [Threads -> PCs]
    BY <1>14, <1>pc DEF ClaimPoll, Enter, PCs, OwnerPcs
  <2>2. fr' \in [Threads -> Frames]
    BY <1>14, <1>frt, AckFrameIs, <1>rets DEF ClaimPoll, Enter
  <2> QED BY <1>14, <1>ty, <2>1, <2>2 DEF ClaimPoll
<1> QED BY <1>1, <1>2, <1>3, <1>4, <1>5, <1>6, <1>7, <1>8, <1>9, <1>10, <1>11,
  <1>12, <1>13, <1>14 DEF Moves, CallStep

-----------------------------------------------------------------------------
(* Which steps write the words of a TG and of the handshake, *)
Writes(t) ==
  /\ ack' = ack \/ AckClaim(t) \/ RetireClaim(t) \/ AttachPending(t)
  /\ applied' = applied \/ AckApply(t) \/ AttachApply(t) \/ LeaderPublish(t)
  /\ active' = active \/ AckApply(t) \/ AttachPhase(t) \/ AttachApply(t)
  /\ req' = req \/ AckXchg(t) \/ RetireXchg(t) \/ SignalCount(t) \/ RemoteScanRefused(t)
  /\ \/ poll' = poll \/ RemoteScanRefused(t) \/ AckDone(t) \/ AckClear(t)
     \/ AckRestore(t) \/ RetireClear(t) \/ SignalPoll(t) \/ ClearPoll(t)
  /\ walk' = walk \/ RetireClaim(t) \/ LeaderStep(t)
  /\ leader' = leader \/ LeaderEnter(t) \/ LeaderLeave(t)
  /\ want' = want \/ LeaderLeave(t) \/ \E kind \in Kinds : Request(t, kind)
  /\ (epoch' = epoch /\ actions' = actions) \/ LeaderPublish(t)

(* by the text of the actions: *)
LEMMA WritesStep ==
  ASSUME NEW t \in Threads, Moves(t)
  PROVE  Writes(t)
<1>1. ASSUME PollStart(t) \/ NativeEnter(t) \/ NativeLeave(t) \/ Detach(t) \/
  AttachPhase(t) \/ ClaimPoll(t) \/ RemoteScanRefused(t) \/ Poll(t) \/ PollReq(t)
      PROVE  Writes(t)
  BY <1>1 DEF PollStart, NativeEnter, NativeLeave, Detach, AttachPhase, ClaimPoll,
    RemoteScanRefused, Poll, PollReq, Writes, tg, leading, hs
<1>2. ASSUME NEW kind \in Kinds, Request(t, kind)
      PROVE  Writes(t)
  BY <1>2 DEF Request, Writes, tg, leading, hs
<1>3. CASE AckStep(t)
  BY <1>3 DEF AckStep, AckXchg, AckNothing, AckEpoch, RemoteScan, AckClaim,
    AckApply, AckDone, AckClear, AckRestore, AckSub, WaitLoad, WaitReq,
    WaitFutex, Writes, tg, leading, hs
<1>4. CASE RetireStep(t)
  BY <1>4 DEF RetireStep, RetireXchg, RetireClear, RetireClaim, RetireSub,
    DetachPoll, DetachNative, DetachDead, Writes, tg, leading, hs
<1>5. CASE AttachStep(t)
  BY <1>5 DEF AttachStep, AttachEpoch, AttachPending, AttachApply, AttachHold,
    AttachLink, AttachBoundary, Writes, tg, leading, hs
<1>6. CASE LeaderStep(t)
  BY <1>6 DEF LeaderStep, LeaderEnter, HelpSelf, LeaderPrior, LeaderPublish,
    Signal, SignalReq, SignalCount, SignalPoll, SignalDead, Signaled, AckWalk,
    AckWalked, DropSentinel, LeaderWait, LeaderTail, ClearPoll, LeaderLeave,
    Writes, tg, leading, hs
<1> QED BY <1>1, <1>2, <1>3, <1>4, <1>5, <1>6 DEF Moves, CallStep

(* and which one a thread is at. *)
Departs(t) ==
  /\ pc[t] \in AckPcs => AckStep(t) \/ RemoteScanRefused(t)
  /\ pc[t] = "k_apply" => AckApply(t)
  /\ pc[t] = "a_apply" => AttachApply(t)
  /\ pc[t] = "native" => NativeLeave(t)
  /\ pc[t] = "a_bound" => AttachBoundary(t)
  /\ pc[t] = "a_claim" => NativeLeave(t) \/ Detach(t) \/ ClaimPoll(t)
  /\ pc[t] = "poll" => Poll(t)
  /\ pc[t] = "poll2" => PollReq(t)
  /\ pc[t] = "d_req" => DetachPoll(t)
  /\ pc[t] = "d_native" => DetachNative(t)
  /\ pc[t] = "d_dead" => DetachDead(t)
  /\ pc[t] \in RetirePcs =>
       RetireXchg(t) \/ RetireClear(t) \/ RetireClaim(t) \/ RetireSub(t)
  /\ pc[t] # "gone"
  /\ pc[t] \in LeaderPcs => LeaderStep(t)
  /\ pc[t] = "sig_poll" => SignalPoll(t)
  /\ pc[t] = "t_clear" => ClearPoll(t) \/ LeaderLeave(t)

(* by the text of the actions: *)
LEMMA DepartsStep ==
  ASSUME NEW t \in Threads, Moves(t)
  PROVE  Departs(t)
<1>1. ASSUME PollStart(t) \/ NativeEnter(t) \/ NativeLeave(t) \/ Detach(t) \/
  AttachPhase(t) \/ ClaimPoll(t) \/ RemoteScanRefused(t) \/ Poll(t) \/ PollReq(t)
      PROVE  Departs(t)
  BY <1>1 DEF PollStart, NativeEnter, NativeLeave, Detach, AttachPhase, ClaimPoll,
    RemoteScanRefused, Poll, PollReq, Departs, At, AckPcs, RetirePcs, LeaderPcs, TailPcs
<1>2. ASSUME NEW kind \in Kinds, Request(t, kind)
      PROVE  Departs(t)
  BY <1>2 DEF Request, Departs, At, AckPcs, RetirePcs, LeaderPcs, TailPcs
<1>3. CASE AckStep(t)
  BY <1>3 DEF AckStep, AckXchg, AckNothing, AckEpoch, RemoteScan, AckClaim,
    AckApply, AckDone, AckClear, AckRestore, AckSub, WaitLoad, WaitReq,
    WaitFutex, Departs, At, AckPcs, RetirePcs, LeaderPcs, TailPcs
<1>4. CASE RetireStep(t)
  BY <1>4 DEF RetireStep, RetireXchg, RetireClear, RetireClaim, RetireSub,
    DetachPoll, DetachNative, DetachDead, Departs, At, AckPcs, RetirePcs, LeaderPcs, TailPcs
<1>5. CASE AttachStep(t)
  BY <1>5 DEF AttachStep, AttachEpoch, AttachPending, AttachApply, AttachHold,
    AttachLink, AttachBoundary, Departs, At, AckPcs, RetirePcs, LeaderPcs, TailPcs
<1>6. CASE LeaderStep(t)
  BY <1>6 DEF LeaderStep, LeaderEnter, HelpSelf, LeaderPrior, LeaderPublish,
    Signal, SignalReq, SignalCount, SignalPoll, SignalDead, Signaled, AckWalk,
    AckWalked, DropSentinel, LeaderWait, LeaderTail, ClearPoll, LeaderLeave,
    Departs, At, AckPcs, RetirePcs, LeaderPcs, TailPcs
<1> QED BY <1>1, <1>2, <1>3, <1>4, <1>5, <1>6 DEF Moves, CallStep

(* Which step brings a thread where it is. *)
Comes(t) ==
  /\ pc'[t] = "k_apply" => AckClaim(t)
  /\ pc'[t] = "a_apply" => AttachPending(t)
  /\ pc'[t] \in {"new", "a_epoch", "a_pend"} => AttachPhase(t) \/ AttachEpoch(t)
  /\ pc'[t] \in Consumed => AckStep(t)
  /\ pc'[t] \in Claiming => AckXchg(t) \/ AckEpoch(t) \/ RemoteScan(t)
  /\ pc'[t] \in Visiting \cup TailPcs \cup {"h_prior", "h_pub"} => LeaderStep(t)
  /\ pc'[t] = "k_sub" => AckDone(t) \/ AckRestore(t)
  /\ pc'[t] = "k_xchg" => \/ Poll(t) \/ PollReq(t) \/ AckNothing(t) \/ WaitReq(t)
                          \/ DetachPoll(t) \/ AttachBoundary(t) \/ HelpSelf(t)
                          \/ AckWalk(t)
  /\ pc'[t] \in {"q_clear", "q_claim", "q_sub"} => RetireStep(t)

(* by the text of the actions and the return addresses in the frames: *)
LEMMA ComesStep ==
  ASSUME Shapes, NEW t \in Threads, Moves(t)
  PROVE  Comes(t)
<1>ty. pc \in [Threads -> PCs] /\ fr \in [Threads -> Frames]
  BY DEF Shapes, Types
<1>ret. /\ pc[t] \in {"poll", "poll2"} => fr[t].ret \in {"run", "a_claim"}
        /\ pc[t] \in AckPcs =>
             fr[t].ret \in {"run", "a_bound", "a_claim", "d_native", "h_enter", "acks"}
        /\ pc[t] \in RetirePcs => fr[t].ret \in {"gone", "sig"}
  BY DEF Shapes, Shape
<1>1. ASSUME PollStart(t) \/ NativeEnter(t) \/ NativeLeave(t) \/ Detach(t) \/
  AttachPhase(t) \/ ClaimPoll(t) \/ RemoteScanRefused(t) \/ Poll(t) \/ PollReq(t)
      PROVE  Comes(t)
  BY <1>1, <1>ty, <1>ret DEF PollStart, NativeEnter, NativeLeave, Detach,
    AttachPhase, ClaimPoll, RemoteScanRefused, Poll, PollReq, Comes, At, Consumed,
    Claiming, Visiting, TailPcs, AckPcs, RetirePcs, Goto, GotoWake, Enter,
    Return, StartWalk
<1>2. ASSUME NEW kind \in Kinds, Request(t, kind)
      PROVE  Comes(t)
  BY <1>2, <1>ty, <1>ret DEF Request, Comes, At, Consumed, Claiming, Visiting,
    TailPcs, AckPcs, RetirePcs, Goto, GotoWake, Enter, Return, StartWalk
<1>3. CASE AckStep(t)
  BY <1>3, <1>ty, <1>ret DEF AckStep, AckXchg, AckNothing, AckEpoch,
    RemoteScan, AckClaim, AckApply, AckDone, AckClear, AckRestore, AckSub,
    WaitLoad, WaitReq, WaitFutex, Comes, At, Consumed, Claiming, Visiting,
    TailPcs, AckPcs, RetirePcs, Goto, GotoWake, Enter, Return, StartWalk
<1>4. CASE RetireStep(t)
  BY <1>4, <1>ty, <1>ret DEF RetireStep, RetireXchg, RetireClear, RetireClaim,
    RetireSub, DetachPoll, DetachNative, DetachDead, Comes, At, Consumed, Claiming,
    Visiting, TailPcs, AckPcs, RetirePcs, Goto, GotoWake, Enter, Return,
    StartWalk
<1>5. CASE AttachStep(t)
  BY <1>5, <1>ty, <1>ret DEF AttachStep, AttachEpoch, AttachPending,
    AttachApply, AttachHold, AttachLink, AttachBoundary, Comes, At, Consumed,
    Claiming, Visiting, TailPcs, AckPcs, RetirePcs, Goto, GotoWake, Enter,
    Return, StartWalk
<1>6. CASE LeaderStep(t)
  BY <1>6, <1>ty, <1>ret DEF LeaderStep, LeaderEnter, HelpSelf, LeaderPrior,
    LeaderPublish, Signal, SignalReq, SignalCount, SignalPoll, SignalDead,
    Signaled, AckWalk, AckWalked, DropSentinel, LeaderWait, LeaderTail,
    ClearPoll, LeaderLeave, Comes, At, Consumed, Claiming, Visiting, TailPcs,
    AckPcs, RetirePcs, Goto, GotoWake, Enter, Return, StartWalk
<1> QED BY <1>1, <1>2, <1>3, <1>4, <1>5, <1>6 DEF Moves, CallStep

-----------------------------------------------------------------------------
(* What a step of t leaves alone of another thread. *)
Same(u) ==
  /\ fr'[u] = fr[u] /\ want'[u] = want[u] /\ native'[u] = native[u]
  /\ pc'[u] = pc[u] \/ (pc[u] = "asleep" /\ pc'[u] = "w_load")
  /\ (u \in linked' <=> u \in linked) /\ (u \in dead' <=> u \in dead)

(* A step of t writes the locals of t alone; it may wake another thread. *)
LEMMA Bystanders ==
  ASSUME Shapes, NEW t \in Threads, Moves(t), NEW u \in Threads \ {t}
  PROVE  Same(u)
<1>ty. /\ pc \in [Threads -> PCs] /\ fr \in [Threads -> Frames]
       /\ want \in [Threads -> Masks] /\ native \in [Threads -> BOOLEAN]
  BY DEF Shapes, Types
<1>1. ASSUME PollStart(t) \/ NativeEnter(t) \/ NativeLeave(t) \/ Detach(t) \/
  AttachPhase(t) \/ ClaimPoll(t) \/ RemoteScanRefused(t) \/ Poll(t) \/ PollReq(t)
      PROVE  Same(u)
  BY <1>1, <1>ty DEF PollStart, NativeEnter, NativeLeave, Detach, AttachPhase, ClaimPoll,
    RemoteScanRefused, Poll, PollReq, Same, registry, tg, leading, Goto,
    GotoWake, Enter, Return, StartWalk
<1>2. ASSUME NEW kind \in Kinds, Request(t, kind)
      PROVE  Same(u)
  BY <1>2, <1>ty DEF Request, Same, registry, tg, leading, Goto, GotoWake,
    Enter, Return, StartWalk
<1>3. CASE AckStep(t)
  BY <1>3, <1>ty DEF AckStep, AckXchg, AckNothing, AckEpoch, RemoteScan,
    AckClaim, AckApply, AckDone, AckClear, AckRestore, AckSub, WaitLoad,
    WaitReq, WaitFutex, Same, registry, tg, leading, Goto, GotoWake, Enter,
    Return, StartWalk
<1>4. CASE RetireStep(t)
  BY <1>4, <1>ty DEF RetireStep, RetireXchg, RetireClear, RetireClaim,
    RetireSub, DetachPoll, DetachNative, DetachDead, Same, registry, tg, leading, Goto,
    GotoWake, Enter, Return, StartWalk
<1>5. CASE AttachStep(t)
  BY <1>5, <1>ty DEF AttachStep, AttachEpoch, AttachPending, AttachApply,
    AttachHold, AttachLink, AttachBoundary, Same, registry, tg, leading, Goto,
    GotoWake, Enter, Return, StartWalk
<1>6. CASE LeaderStep(t)
  BY <1>6, <1>ty DEF LeaderStep, LeaderEnter, HelpSelf, LeaderPrior,
    LeaderPublish, Signal, SignalReq, SignalCount, SignalPoll, SignalDead,
    Signaled, AckWalk, AckWalked, DropSentinel, LeaderWait, LeaderTail,
    ClearPoll, LeaderLeave, Same, registry, tg, leading, Goto, GotoWake,
    Enter, Return, StartWalk
<1> QED BY <1>1, <1>2, <1>3, <1>4, <1>5, <1>6 DEF Moves, CallStep

(* What a step of t leaves alone of the handshake unless t is its leader. *)
Words(t) ==
  /\ linked \subseteq linked' /\ dead \subseteq dead'
  /\ leader = t => leader' \in {t, 0}
  /\ leader # t =>
       /\ walk' = walk /\ epoch' = epoch /\ actions' = actions
       /\ leader' = leader \/ (leader = 0 /\ leader' = t)
       /\ \A u \in Threads : req'[u] \in {req[u], "none"}

(* Only the leader moves the walk, the epoch and its actions, and adds requests. *)
LEMMA WordsStep ==
  ASSUME Shapes, NEW t \in Threads, Moves(t)
  PROVE  Words(t)
<1>ty. req \in [Threads -> Masks]
  BY DEF Shapes, Types
<1>lead. /\ pc[t] \in LeaderPcs => leader = t
         /\ pc[t] = "q_claim" /\ fr[t].ret = "sig" => leader = t
         /\ pc[t] = "k_scan" => leader = t
  BY DEF Shapes, Shape, Roles, Leads, AckPcs, RetirePcs
<1>1. ASSUME PollStart(t) \/ NativeEnter(t) \/ NativeLeave(t) \/ Detach(t) \/
  AttachPhase(t) \/ ClaimPoll(t) \/ RemoteScanRefused(t) \/ Poll(t) \/ PollReq(t)
      PROVE  Words(t)
  BY <1>1, <1>ty, <1>lead DEF PollStart, NativeEnter, NativeLeave, Detach,
    AttachPhase, ClaimPoll, RemoteScanRefused, Poll, PollReq, Words, At, LeaderPcs,
    TailPcs, hs, registry, leading, tg
<1>2. ASSUME NEW kind \in Kinds, Request(t, kind)
      PROVE  Words(t)
  BY <1>2, <1>ty, <1>lead DEF Request, Words, At, LeaderPcs, TailPcs, hs,
    registry, leading, tg
<1>3. CASE AckStep(t)
  BY <1>3, <1>ty, <1>lead DEF AckStep, AckXchg, AckNothing, AckEpoch,
    RemoteScan, AckClaim, AckApply, AckDone, AckClear, AckRestore, AckSub,
    WaitLoad, WaitReq, WaitFutex, Words, At, LeaderPcs, TailPcs, hs, registry,
    leading, tg
<1>4. CASE RetireStep(t)
  BY <1>4, <1>ty, <1>lead DEF RetireStep, RetireXchg, RetireClear,
    RetireClaim, RetireSub, DetachPoll, DetachNative, DetachDead, Words, At, LeaderPcs,
    TailPcs, hs, registry, leading, tg
<1>5. CASE AttachStep(t)
  BY <1>5, <1>ty, <1>lead DEF AttachStep, AttachEpoch, AttachPending,
    AttachApply, AttachHold, AttachLink, AttachBoundary, Words, At, LeaderPcs,
    TailPcs, hs, registry, leading, tg
<1>6. CASE LeaderStep(t)
  BY <1>6, <1>ty, <1>lead DEF LeaderStep, LeaderEnter, HelpSelf, LeaderPrior,
    LeaderPublish, Signal, SignalReq, SignalCount, SignalPoll, SignalDead,
    Signaled, AckWalk, AckWalked, DropSentinel, LeaderWait, LeaderTail,
    ClearPoll, LeaderLeave, Words, At, LeaderPcs, TailPcs, hs, registry,
    leading, tg
<1> QED BY <1>1, <1>2, <1>3, <1>4, <1>5, <1>6 DEF Moves, CallStep

(* A step keeps the frame and the roles of its thread, one action after the other; *)
LEMMA ShapeOfStep ==
  ASSUME Shapes, NEW t \in Threads, Moves(t)
  PROVE  Shape(t)' /\ Roles(t)'
<1>sh. Types
  BY DEF Shapes
<1>ty. /\ pc \in [Threads -> PCs] /\ fr \in [Threads -> Frames]
       /\ want \in [Threads -> Masks] /\ native \in [Threads -> BOOLEAN]
  BY <1>sh DEF Types
<1>fr. fr[t].ret \in PCs
  BY <1>ty, FrameFields
<1>tgt. pc[t] \in Consumed \cup {"k_xchg", "k_none", "q_xchg", "q_clear", "q_claim"}
          => fr[t].tgt \in Threads
  BY <1>sh DEF Shapes, Types, Shape, AckPcs, RetirePcs, Consumed
<1>here. /\ walk.todo # {} => Here \in walk.todo /\ Here \in Threads
         /\ At(t, "sig_req") \/ At(t, "sig_count") \/ At(t, "sig_poll")
              \/ At(t, "sig_dead") => walk.todo # {}
  BY <1>sh, HereIn DEF At, Types, Shapes, Roles, Leads, Walks, Visiting, LeaderPcs
<1>names. /\ "k_sub" \in PCs /\ "k_fix" \in PCs /\ "q_claim" \in PCs
          /\ "sig_dead" \in PCs /\ "t_clear" \in PCs
  BY DEF PCs, AckPcs, RetirePcs, LeaderPcs, TailPcs
<1>me. /\ Shape(t) /\ Roles(t) /\ linked \subseteq Threads /\ dead \subseteq Threads
       /\ leader \in Threads \cup {0} /\ 0 \notin Threads
       /\ req \in [Threads -> Masks] /\ (leader = t => walk.todo \subseteq linked)
  BY <1>sh DEF Shapes, Types, Threads, Walks
<1>kind. "none" \notin Kinds
  BY SafepointAssumption
<1> USE DEF Goto, At, Shape, Roles, Leads, Wants, registry, tg, leading, hs, global,
  AckPcs, RetirePcs, LeaderPcs, TailPcs, Consumed, Catching, Waiting
<1>1. CASE PollStart(t)
  BY <1>1, <1>ty, <1>me DEF PollStart, Enter, AckFrame, NoFrame
<1>2. CASE NativeEnter(t)
  BY <1>2, <1>ty, <1>me DEF NativeEnter
<1>3. CASE NativeLeave(t)
  BY <1>3, <1>ty, <1>me DEF NativeLeave, Enter, AckFrame, NoFrame
<1>4. CASE Detach(t)
  BY <1>4, <1>ty, <1>me DEF Detach
<1>5. CASE AttachPhase(t)
  BY <1>5, <1>ty, <1>me DEF AttachPhase
<1>6. ASSUME NEW kind \in Kinds, Request(t, kind)
      PROVE  Shape(t)' /\ Roles(t)'
  BY <1>6, <1>ty, <1>me, <1>kind DEF Request
<1>7. CASE RemoteScanRefused(t)
  <2>0. fr[t].tgt \in Threads
    BY <1>7, <1>tgt DEF RemoteScanRefused
  <2> QED BY <1>7, <1>ty, <1>me, <1>names, Woken, <2>0, <1>fr DEF RemoteScanRefused,
    NoFrame
<1>8. CASE Poll(t)
  BY <1>8, <1>ty, <1>me DEF Poll
<1>9. CASE PollReq(t)
  BY <1>9, <1>ty, <1>me DEF PollReq, Return, Enter, NoFrame
<1>10. CASE AckStep(t)
  <2>1. CASE AckXchg(t)
    BY <2>1, <1>ty, <1>me DEF AckXchg
  <2>2. CASE AckNothing(t)
    BY <2>2, <1>ty, <1>me DEF AckNothing, Return, Enter, NoFrame
  <2>3. CASE AckEpoch(t)
    BY <2>3, <1>ty, <1>me DEF AckEpoch
  <2>4. CASE RemoteScan(t)
    BY <2>4, <1>ty, <1>me DEF RemoteScan
  <2>5. CASE AckClaim(t)
    BY <2>5, <1>ty, <1>me DEF AckClaim
  <2>6. CASE AckApply(t)
    BY <2>6, <1>ty, <1>me DEF AckApply
  <2>7. CASE AckDone(t)
    <3>0. fr[t].tgt \in Threads
      BY <2>7, <1>tgt DEF AckDone
    <3> QED BY <2>7, <1>ty, <1>me, <1>names, Woken, <3>0 DEF AckDone
  <2>8. CASE AckClear(t)
    <3>0. fr[t].tgt \in Threads
      BY <2>8, <1>tgt DEF AckClear
    <3> QED BY <2>8, <1>ty, <1>me, <1>names, Woken, <3>0 DEF AckClear
  <2>9. CASE AckRestore(t)
    <3>0. fr[t].tgt \in Threads
      BY <2>9, <1>tgt DEF AckRestore
    <3> QED BY <2>9, <1>ty, <1>me, <1>names, Woken, <3>0 DEF AckRestore
  <2>10. CASE AckSub(t)
    BY <2>10, <1>ty, <1>me DEF AckSub, Return, Enter, NoFrame
  <2>11. CASE WaitLoad(t)
    BY <2>11, <1>ty, <1>me DEF WaitLoad, Return, Enter, NoFrame
  <2>12. CASE WaitReq(t)
    BY <2>12, <1>ty, <1>me DEF WaitReq
  <2>13. CASE WaitFutex(t)
    BY <2>13, <1>ty, <1>me DEF WaitFutex
  <2> QED BY <1>10, <2>1, <2>2, <2>3, <2>4, <2>5, <2>6, <2>7, <2>8, <2>9, <2>10,
    <2>11, <2>12, <2>13 DEF AckStep
<1>11. CASE RetireStep(t)
  <2>1. CASE RetireXchg(t)
    BY <2>1, <1>ty, <1>me DEF RetireXchg
  <2>2. CASE RetireClear(t)
    <3>0. fr[t].tgt \in Threads
      BY <2>2, <1>tgt DEF RetireClear
    <3> QED BY <2>2, <1>ty, <1>me, <1>names, Woken, <3>0, <1>fr DEF RetireClear,
      NoFrame
  <2>3. CASE RetireClaim(t)
    BY <2>3, <1>ty, <1>me DEF RetireClaim
  <2>4. CASE RetireSub(t)
    BY <2>4, <1>ty, <1>me DEF RetireSub, Return, Enter, NoFrame
  <2>5. CASE DetachPoll(t)
    <3>1. CASE req[t] # "none" \/ poll[t]
      <4>1. Enter(t, "k_xchg", AckFrame(t, FALSE, TRUE, "d_native"))
        BY <2>5, <3>1 DEF DetachPoll
      <4>2. pc'[t] = "k_xchg" /\ fr'[t] = AckFrame(t, FALSE, TRUE, "d_native")
        BY <4>1, <1>ty DEF Enter
      <4>3. /\ fr'[t].tgt = t /\ fr'[t].parked = (FALSE) /\ fr'[t].wait = TRUE
             /\ fr'[t].ret = "d_native"
        BY <4>2 DEF AckFrame, NoFrame
      <4>4. Shape(t)'
        BY <2>5, <1>ty, <1>me, <3>1, <4>2, <4>3 DEF DetachPoll
      <4>5. Roles(t)'
        BY <2>5, <1>ty, <1>me, <3>1, <4>2, <4>3 DEF DetachPoll, Roles, Leads, Wants
      <4> QED BY <4>4, <4>5
    <3>2. CASE ~(req[t] # "none" \/ poll[t])
      <4>4. Shape(t)'
        BY <2>5, <1>ty, <1>me, <3>2 DEF DetachPoll
      <4>5. Roles(t)'
        BY <2>5, <1>ty, <1>me, <3>2 DEF DetachPoll, Roles, Leads, Wants
      <4> QED BY <4>4, <4>5
    <3> QED BY <3>1, <3>2
  <2>6. CASE DetachDead(t)
    BY <2>6, <1>ty, <1>me DEF DetachDead, Enter, AckFrame, NoFrame
  <2>7. CASE DetachNative(t)
    BY <2>7, <1>ty, <1>me DEF DetachNative
  <2> QED BY <1>11, <2>1, <2>2, <2>3, <2>4, <2>5, <2>6, <2>7 DEF RetireStep
<1>12. CASE AttachStep(t)
  <2>1. CASE AttachEpoch(t)
    BY <2>1, <1>ty, <1>me DEF AttachEpoch
  <2>2. CASE AttachPending(t)
    BY <2>2, <1>ty, <1>me DEF AttachPending
  <2>3. CASE AttachApply(t)
    BY <2>3, <1>ty, <1>me DEF AttachApply
  <2>4. CASE AttachHold(t)
    BY <2>4, <1>ty, <1>me DEF AttachHold
  <2>5. CASE AttachLink(t)
    BY <2>5, <1>ty, <1>me DEF AttachLink, Enter, NoFrame
  <2>6. CASE AttachBoundary(t)
    <3>1. CASE leader = 0 \/ actions \notin Traces
      <4>1. pc'[t] = "a_claim" /\ fr'[t] = fr[t]
        BY <2>6, <3>1, <1>ty DEF AttachBoundary
      <4>4. Shape(t)'
        BY <2>6, <1>ty, <1>me, <3>1, <4>1 DEF AttachBoundary
      <4>5. Roles(t)'
        BY <2>6, <1>ty, <1>me, <3>1, <4>1 DEF AttachBoundary, Roles, Leads, Wants
      <4> QED BY <4>4, <4>5
    <3>2. CASE ~(leader = 0 \/ actions \notin Traces)
      <4>1. Enter(t, "k_xchg", AckFrame(t, FALSE, TRUE, "a_bound"))
        BY <2>6, <3>2 DEF AttachBoundary
      <4>2. pc'[t] = "k_xchg" /\ fr'[t] = AckFrame(t, FALSE, TRUE, "a_bound")
        BY <4>1, <1>ty DEF Enter
      <4>3. /\ fr'[t].tgt = t /\ fr'[t].parked = (FALSE) /\ fr'[t].wait = TRUE
             /\ fr'[t].ret = "a_bound"
        BY <4>2 DEF AckFrame, NoFrame
      <4>4. Shape(t)'
        BY <2>6, <1>ty, <1>me, <3>2, <4>2, <4>3 DEF AttachBoundary
      <4>5. Roles(t)'
        BY <2>6, <1>ty, <1>me, <3>2, <4>2, <4>3 DEF AttachBoundary, Roles, Leads,
          Wants
      <4> QED BY <4>4, <4>5
    <3> QED BY <3>1, <3>2
  <2> QED BY <1>12, <2>1, <2>2, <2>3, <2>4, <2>5, <2>6 DEF AttachStep
<1>13. CASE LeaderStep(t)
  <2>1. CASE LeaderEnter(t)
    BY <2>1, <1>ty, <1>me DEF LeaderEnter
  <2>2. CASE HelpSelf(t)
    BY <2>2, <1>ty, <1>me DEF HelpSelf, Enter, AckFrame, NoFrame
  <2>3. CASE LeaderPrior(t)
    BY <2>3, <1>ty, <1>me DEF LeaderPrior, StartWalk
  <2>4. CASE LeaderPublish(t)
    BY <2>4, <1>ty, <1>me DEF LeaderPublish, StartWalk
  <2>5. CASE Signal(t)
    BY <2>5, <1>ty, <1>me, <1>here DEF Signal, Walked
  <2>6. CASE SignalReq(t)
    BY <2>6, <1>ty, <1>me, <1>here DEF SignalReq, Walked
  <2>7. CASE SignalCount(t)
    BY <2>7, <1>ty, <1>me, <1>here DEF SignalCount, Walked
  <2>8. CASE SignalPoll(t)
    <3>0. Here \in Threads
      BY <2>8, <1>here DEF SignalPoll, Walked
    <3> QED BY <2>8, <1>ty, <1>me, <1>here, <1>names, Woken, <3>0 DEF SignalPoll,
      Walked
  <2>9. CASE SignalDead(t)
    <3>1. CASE ~(Here \in dead)
      <4>4. Shape(t)'
        BY <2>9, <1>ty, <1>me, <1>here, <3>1 DEF SignalDead, Walked
      <4>5. Roles(t)'
        BY <2>9, <1>ty, <1>me, <1>here, <3>1 DEF SignalDead, Roles, Leads, Wants,
          Walked
      <4> QED BY <4>4, <4>5
    <3>2. CASE ~(~(Here \in dead))
      <4>1. Enter(t, "q_xchg", AckFrame(Here, FALSE, FALSE, "sig"))
        BY <2>9, <3>2 DEF SignalDead
      <4>2. pc'[t] = "q_xchg" /\ fr'[t] = AckFrame(Here, FALSE, FALSE, "sig")
        BY <4>1, <1>ty DEF Enter
      <4>3. /\ fr'[t].tgt = Here /\ fr'[t].parked = (FALSE) /\ fr'[t].wait = FALSE
             /\ fr'[t].ret = "sig"
        BY <4>2 DEF AckFrame, NoFrame
      <4>4. Shape(t)'
        BY <2>9, <1>ty, <1>me, <1>here, <3>2, <4>2, <4>3 DEF SignalDead, Walked
      <4>5. Roles(t)'
        BY <2>9, <1>ty, <1>me, <1>here, <3>2, <4>2, <4>3 DEF SignalDead, Roles,
          Leads, Wants, Walked
      <4> QED BY <4>4, <4>5
    <3> QED BY <3>1, <3>2
  <2>10. CASE Signaled(t)
    BY <2>10, <1>ty, <1>me DEF Signaled, StartWalk
  <2>11. CASE AckWalk(t)
    <3>1. CASE ~(Here \notin dead /\ (Here = t \/ native[Here]))
      <4>4. Shape(t)'
        BY <2>11, <1>ty, <1>me, <1>here, <3>1 DEF AckWalk, Walked
      <4>5. Roles(t)'
        BY <2>11, <1>ty, <1>me, <1>here, <3>1 DEF AckWalk, Roles, Leads, Wants,
          Walked
      <4> QED BY <4>4, <4>5
    <3>2. CASE ~(~(Here \notin dead /\ (Here = t \/ native[Here])))
      <4>1. Enter(t, "k_xchg", AckFrame(Here, Here # t, FALSE, "acks"))
        BY <2>11, <3>2 DEF AckWalk
      <4>2. pc'[t] = "k_xchg" /\ fr'[t] = AckFrame(Here, Here # t, FALSE, "acks")
        BY <4>1, <1>ty DEF Enter
      <4>3. /\ fr'[t].tgt = Here /\ fr'[t].parked = (Here # t) /\ fr'[t].wait = FALSE
             /\ fr'[t].ret = "acks"
        BY <4>2 DEF AckFrame, NoFrame
      <4>9. Here \in linked'
        BY <2>11, <1>here, <1>me DEF AckWalk, Walked, Roles, Leads
      <4>4. Shape(t)'
        BY <2>11, <1>ty, <1>me, <1>here, <3>2, <4>2, <4>3, <4>9 DEF AckWalk, Walked
      <4>5. Roles(t)'
        BY <2>11, <1>ty, <1>me, <1>here, <3>2, <4>2, <4>3, <4>9 DEF AckWalk, Roles,
          Leads, Wants, Walked
      <4> QED BY <4>4, <4>5
    <3> QED BY <3>1, <3>2
  <2>12. CASE AckWalked(t)
    BY <2>12, <1>ty, <1>me DEF AckWalked, StartWalk
  <2>13. CASE DropSentinel(t)
    BY <2>13, <1>ty, <1>me DEF DropSentinel
  <2>14. CASE LeaderWait(t)
    BY <2>14, <1>ty, <1>me DEF LeaderWait, StartWalk
  <2>15. CASE LeaderTail(t)
    BY <2>15, <1>ty, <1>me DEF LeaderTail, StartWalk
  <2>16. CASE ClearPoll(t)
    <3>0. Here \in Threads
      BY <2>16, <1>here DEF ClearPoll, Walked
    <3> QED BY <2>16, <1>ty, <1>me, <1>here, <1>names, Woken, <3>0 DEF ClearPoll,
      Walked
  <2>17. CASE LeaderLeave(t)
    BY <2>17, <1>ty, <1>me DEF LeaderLeave, NoWalk
  <2> QED BY <1>13, <2>1, <2>2, <2>3, <2>4, <2>5, <2>6, <2>7, <2>8, <2>9, <2>10,
    <2>11, <2>12, <2>13, <2>14, <2>15, <2>16, <2>17 DEF LeaderStep
<1>14. CASE ClaimPoll(t)
  BY <1>14, <1>ty, <1>me DEF ClaimPoll, Enter, AckFrame, NoFrame
<1> QED BY <1>1, <1>2, <1>3, <1>4, <1>5, <1>6, <1>7, <1>8, <1>9, <1>10, <1>11,
  <1>12, <1>13, <1>14 DEF Moves, CallStep

(* A call goes on with the same return address, or returns to it; *)
LEMMA ReturnsStep ==
  ASSUME Shapes, NEW t \in Threads, AckStep(t) \/ RemoteScanRefused(t) \/ PollReq(t)
  PROVE  pc'[t] = fr[t].ret \/ (pc'[t] \in AckPcs /\ fr'[t].ret = fr[t].ret)
<1>ty. pc \in [Threads -> PCs] /\ fr \in [Threads -> Frames] /\ fr[t] \in Frames
  BY DEF Shapes, Types
<1>fr. fr[t].ret \in PCs
  BY <1>ty, FrameFields
<1>tgt. pc[t] \in Consumed \cup {"k_xchg", "k_none"} => fr[t].tgt \in Threads
  BY DEF Shapes, Types, Shape, AckPcs, Consumed
<1>names. "k_sub" \in PCs /\ "k_fix" \in PCs
  BY DEF PCs, AckPcs
<1> USE DEF Goto, At, AckPcs
<1>1. CASE AckXchg(t)
  BY <1>1, <1>ty DEF AckXchg, Frames
<1>2. CASE AckNothing(t)
  BY <1>2, <1>ty DEF AckNothing, Return, Enter
<1>3. CASE AckEpoch(t)
  BY <1>3, <1>ty DEF AckEpoch, Frames
<1>4. CASE RemoteScan(t)
  BY <1>4, <1>ty DEF RemoteScan
<1>5. CASE AckClaim(t)
  BY <1>5, <1>ty DEF AckClaim
<1>6. CASE AckApply(t)
  BY <1>6, <1>ty DEF AckApply
<1>7. CASE AckDone(t)
  <2>0. fr[t].tgt \in Threads
    BY <1>7, <1>tgt DEF AckDone, Consumed
  <2> QED BY <1>7, <1>ty, <1>fr, <1>names, Woken, <2>0 DEF AckDone, Frames
<1>8. CASE AckClear(t)
  <2>0. fr[t].tgt \in Threads
    BY <1>8, <1>tgt DEF AckClear, Consumed
  <2> QED BY <1>8, <1>ty, <1>fr, <1>names, Woken, <2>0 DEF AckClear, Frames
<1>9. CASE AckRestore(t)
  <2>0. fr[t].tgt \in Threads
    BY <1>9, <1>tgt DEF AckRestore, Consumed
  <2> QED BY <1>9, <1>ty, <1>fr, <1>names, Woken, <2>0 DEF AckRestore, Frames
<1>10. CASE AckSub(t)
  BY <1>10, <1>ty DEF AckSub, Return, Enter
<1>11. CASE WaitLoad(t)
  BY <1>11, <1>ty DEF WaitLoad, Return, Enter
<1>12. CASE WaitReq(t)
  BY <1>12, <1>ty DEF WaitReq
<1>13. CASE WaitFutex(t)
  BY <1>13, <1>ty DEF WaitFutex
<1>14. CASE RemoteScanRefused(t)
  <2>0. fr[t].tgt \in Threads
    BY <1>14, <1>tgt DEF RemoteScanRefused, Consumed
  <2> QED BY <1>14, <1>ty, <1>fr, <1>names, Woken, <2>0 DEF RemoteScanRefused, Frames
<1>15. CASE PollReq(t)
  BY <1>15, <1>ty DEF PollReq, Return, Enter
<1> QED BY <1>1, <1>2, <1>3, <1>4, <1>5, <1>6, <1>7, <1>8,
  <1>9, <1>10, <1>11, <1>12, <1>13, <1>14, <1>15 DEF AckStep

(* a retirement goes on or returns; *)
LEMMA RetiresStep ==
  ASSUME Shapes, NEW t \in Threads,
         RetireXchg(t) \/ RetireClear(t) \/ RetireClaim(t) \/ RetireSub(t)
  PROVE  pc'[t] = fr[t].ret \/ (pc'[t] \in RetirePcs /\ fr'[t].ret = fr[t].ret)
<1>ty. pc \in [Threads -> PCs] /\ fr \in [Threads -> Frames] /\ fr[t] \in Frames
  BY DEF Shapes, Types
<1>fr. fr[t].ret \in PCs
  BY <1>ty, FrameFields
<1>tgt. pc[t] = "q_clear" => fr[t].tgt \in Threads
  BY DEF Shapes, Types, Shape, RetirePcs
<1>names. "q_claim" \in PCs
  BY DEF PCs, RetirePcs
<1> USE DEF Goto, At, RetirePcs
<1>1. CASE RetireXchg(t)
  BY <1>1, <1>ty DEF RetireXchg, Frames
<1>2. CASE RetireClear(t)
  <2>0. fr[t].tgt \in Threads
    BY <1>2, <1>tgt DEF RetireClear
  <2>1. CASE fr[t].acts # "none"
    BY <1>2, <2>1, <1>ty, <1>names, Woken, <2>0 DEF RetireClear
  <2>2. CASE fr[t].acts = "none"
    BY <1>2, <2>2, <1>fr, <1>ty, Woken, <2>0 DEF RetireClear
  <2> QED BY <2>1, <2>2
<1>3. CASE RetireClaim(t)
  BY <1>3, <1>ty DEF RetireClaim
<1>4. CASE RetireSub(t)
  BY <1>4, <1>ty DEF RetireSub, Return, Enter
<1> QED BY <1>1, <1>2, <1>3, <1>4

(* a leader is in Lua and stays there; *)
LEMMA LeadsOnStep ==
  ASSUME Shapes, NEW t \in Threads, LeaderStep(t)
  PROVE  ~Joining(t)' /\ pc'[t] \notin Catching
<1>ty. pc \in [Threads -> PCs] /\ fr \in [Threads -> Frames]
  BY DEF Shapes, Types
<1>here. At(t, "sig_poll") \/ (At(t, "t_clear") /\ ~Walked) => Here \in Threads
  BY HereIn DEF At, Walked, Types, Shapes, Roles, Leads, Walks, Visiting, LeaderPcs,
     TailPcs
<1>names. "sig_dead" \in PCs /\ "t_clear" \in PCs
  BY DEF PCs, LeaderPcs, TailPcs
<1> USE DEF Goto, At, Joining, Catching, AckPcs
<1>1. CASE HelpSelf(t)
  BY <1>1, <1>ty DEF HelpSelf, Enter, AckFrame, NoFrame
<1>2. CASE AckWalk(t)
  <2>1. CASE pc' = pc /\ fr' = fr
    BY <1>2, <2>1 DEF AckWalk
  <2>2. CASE Enter(t, "k_xchg", AckFrame(Here, Here # t, FALSE, "acks"))
    <3>1. pc'[t] = "k_xchg" /\ fr'[t] = AckFrame(Here, Here # t, FALSE, "acks")
      BY <2>2, <1>ty DEF Enter
    <3> QED BY <3>1 DEF AckFrame, NoFrame
  <2> QED BY <1>2, <2>1, <2>2 DEF AckWalk
<1>3. CASE SignalPoll(t)
  BY <1>3, <1>ty, <1>here, <1>names, Woken DEF SignalPoll
<1>4. CASE SignalDead(t)
  BY <1>4, <1>ty DEF SignalDead, Enter
<1>5. CASE ClearPoll(t)
  BY <1>5, <1>ty, <1>here, <1>names, Woken DEF ClearPoll
<1>6. CASE \/ LeaderEnter(t) \/ LeaderPrior(t) \/ LeaderPublish(t) \/ Signal(t)
           \/ SignalReq(t) \/ SignalCount(t) \/ Signaled(t) \/ AckWalked(t)
           \/ DropSentinel(t) \/ LeaderWait(t) \/ LeaderTail(t) \/ LeaderLeave(t)
  BY <1>6, <1>ty DEF LeaderEnter, LeaderPrior, LeaderPublish, Signal, SignalReq,
    SignalCount, Signaled, AckWalked, DropSentinel, LeaderWait, LeaderTail,
    LeaderLeave, StartWalk
<1> QED BY <1>1, <1>2, <1>3, <1>4, <1>5, <1>6 DEF LeaderStep

(* who is in native code when t has moved; *)
LEMMA NativesOfStep ==
  ASSUME Shapes, NEW t \in Threads, Moves(t)
  PROVE  Natives(t)'
<1>ty. /\ pc \in [Threads -> PCs] /\ fr \in [Threads -> Frames]
       /\ native \in [Threads -> BOOLEAN]
  BY DEF Shapes, Types
<1>me. Shape(t) /\ Roles(t) /\ Natives(t)
  BY DEF Shapes
<1> USE DEF Natives, Joining, Catching, AckPcs
<1>1. CASE PollStart(t)
  BY <1>1, <1>ty, <1>me DEF PollStart, At, Enter, Goto, AckFrame, NoFrame, tg
<1>2. CASE NativeEnter(t)
  BY <1>2, <1>ty, <1>me DEF NativeEnter, At, Goto
<1>3. CASE NativeLeave(t)
  BY <1>3, <1>ty, <1>me DEF NativeLeave, At, Enter, Goto, AckFrame, NoFrame
<1>4. CASE Detach(t)
  BY <1>4, <1>ty, <1>me DEF Detach, At, Goto, tg
<1>5. CASE AttachPhase(t)
  BY <1>5, <1>ty, <1>me DEF AttachPhase, At, Goto, Roles
<1>6. ASSUME NEW kind \in Kinds, Request(t, kind)
      PROVE  Natives(t)'
  BY <1>6, <1>ty, <1>me DEF Request, At, Goto, tg
<1>7. CASE ClaimPoll(t)
  BY <1>7, <1>ty, <1>me DEF ClaimPoll, At, Enter, Goto, AckFrame, NoFrame, tg
<1>8. CASE Poll(t)
  BY <1>8, <1>ty, <1>me DEF Poll, At, Goto, tg, Shape
<1>9. CASE AckStep(t) \/ RemoteScanRefused(t) \/ PollReq(t)
  <2>1. pc'[t] = fr[t].ret \/ (pc'[t] \in AckPcs /\ fr'[t].ret = fr[t].ret)
    BY <1>9, ReturnsStep
  <2>2. native' = native
    BY <1>9 DEF AckStep, AckXchg, AckNothing, AckEpoch, RemoteScan, AckClaim, AckApply,
      AckDone, AckClear, AckRestore, AckSub, WaitLoad, WaitReq, WaitFutex,
      RemoteScanRefused, PollReq, tg
  <2>3. pc[t] \in AckPcs \cup {"poll2"}
    BY <1>9 DEF AckStep, AckXchg, AckNothing, AckEpoch, RemoteScan, AckClaim, AckApply,
      AckDone, AckClear, AckRestore, AckSub, WaitLoad, WaitReq, WaitFutex,
      RemoteScanRefused, PollReq, At
  <2>4. fr[t].ret \in {"run", "a_bound", "a_claim", "d_native", "h_enter", "acks"}
    BY <2>3, <1>me DEF Shape
  <2> QED BY <2>1, <2>2, <2>3, <2>4, <1>me
<1>10. CASE RetireXchg(t) \/ RetireClear(t) \/ RetireClaim(t) \/ RetireSub(t)
  <2>1. pc[t] \in RetirePcs /\ native' = native
    BY <1>10 DEF RetireXchg, RetireClear, RetireClaim, RetireSub, At, RetirePcs, tg
  <2>2. fr[t].ret \in {"gone", "sig"}
    BY <2>1, <1>me DEF Shape
  <2>3. pc'[t] \in RetirePcs \cup {"gone", "sig"}
    BY <1>10, <2>1, <2>2, RetiresStep
  <2> QED BY <2>1, <2>3, <1>me DEF RetirePcs
<1>11. CASE DetachPoll(t)
  <2>1. native' = native /\ pc[t] = "d_req"
    BY <1>11 DEF DetachPoll, At, tg
  <2>2. CASE Goto(t, "d_native")
    BY <2>1, <2>2, <1>ty, <1>me DEF Goto
  <2>3. CASE Enter(t, "k_xchg", AckFrame(t, FALSE, TRUE, "d_native"))
    <3>1. pc'[t] = "k_xchg" /\ fr'[t] = AckFrame(t, FALSE, TRUE, "d_native")
      BY <2>3, <1>ty DEF Enter, Goto
    <3>2. pc'[t] = "k_xchg" /\ fr'[t].ret = "d_native"
      BY <3>1 DEF AckFrame, NoFrame
    <3> QED BY <2>1, <3>2, <1>me
  <2> QED BY <1>11, <2>2, <2>3 DEF DetachPoll
<1>12. CASE DetachNative(t)
  BY <1>12, <1>ty, <1>me DEF DetachNative, At, Goto
<1>13. CASE DetachDead(t)
  BY <1>13, <1>ty, <1>me DEF DetachDead, At, Enter, Goto, tg
<1>14. CASE AttachStep(t)
  BY <1>14, <1>ty, <1>me DEF AttachStep, AttachEpoch, AttachPending, AttachApply,
    AttachHold, AttachLink, AttachBoundary, At, Enter, Goto, AckFrame, NoFrame, tg
<1>15. CASE LeaderStep(t)
  <2>1. native' = native /\ pc[t] \in LeaderPcs \cup {"h_enter"}
    BY <1>15 DEF LeaderStep, LeaderEnter, HelpSelf, LeaderPrior, LeaderPublish,
      Signal, SignalReq, SignalCount, SignalPoll, SignalDead, Signaled, AckWalk,
      AckWalked, DropSentinel, LeaderWait, LeaderTail, ClearPoll, LeaderLeave,
      At, LeaderPcs, TailPcs, tg
  <2>2. ~native[t] /\ t \in linked
    BY <2>1, <1>me DEF LeaderPcs, TailPcs, Roles
  <2>3. ~Joining(t)' /\ pc'[t] \notin Catching
    BY <1>15, LeadsOnStep
  <2> QED BY <2>1, <2>2, <2>3
<1> QED BY <1>1, <1>2, <1>3, <1>4, <1>5, <1>6, <1>7, <1>8, <1>9, <1>10, <1>11,
  <1>12, <1>13, <1>14, <1>15 DEF Moves, CallStep, RetireStep

(* How the walk goes on when t leads. *)
Leading(t) ==
  /\ leader' = t => Walks(t)'
  /\ leader = t /\ leader' = 0 => walk' = NoWalk

(* it keeps the walk of its thread, if that leads after the step, *)
LEMMA WalksOfStep ==
  ASSUME Shapes, NEW t \in Threads, Moves(t)
  PROVE  Leading(t)
<1>sh. Types
  BY DEF Shapes
<1>ty. /\ pc \in [Threads -> PCs] /\ fr \in [Threads -> Frames]
       /\ want \in [Threads -> Masks] /\ native \in [Threads -> BOOLEAN]
  BY <1>sh DEF Types
<1>fr. fr[t].ret \in PCs
  BY <1>ty, FrameFields
<1>tgt. pc[t] \in Consumed \cup {"k_xchg", "k_none", "q_xchg", "q_clear", "q_claim"}
          => fr[t].tgt \in Threads
  BY <1>sh DEF Shapes, Types, Shape, AckPcs, RetirePcs, Consumed
<1>here. /\ walk.todo # {} => Here \in walk.todo /\ Here \in Threads
         /\ At(t, "sig_req") \/ At(t, "sig_count") \/ At(t, "sig_poll")
              \/ At(t, "sig_dead") => walk.todo # {}
  BY <1>sh, HereIn DEF At, Types, Shapes, Roles, Leads, Walks, Visiting, LeaderPcs
<1>names. /\ "k_sub" \in PCs /\ "k_fix" \in PCs /\ "q_claim" \in PCs
          /\ "sig_dead" \in PCs /\ "t_clear" \in PCs
  BY DEF PCs, AckPcs, RetirePcs, LeaderPcs, TailPcs
<1>me. /\ Shape(t) /\ (Leads(t) <=> leader = t)
       /\ leader = t => Walks(t)
       /\ leader = 0 => walk = NoWalk
       /\ linked \subseteq Threads /\ 0 \notin Threads /\ req \in [Threads -> Masks]
       /\ walk \in [todo: SUBSET Threads, stage: {"prior", "first", "loop", "wait"},
                    late: SUBSET Threads]
  BY <1>sh DEF Shapes, Types, Roles, Threads
<1>own. pc[t] \in OwnerPcs => leader # t
  BY <1>sh DEF Shapes, Roles, Leads, OwnerPcs, LeaderPcs, TailPcs, AckPcs, RetirePcs
<1> USE DEF At, hs, Leading, AckPcs, Consumed, Goto, Leads, Shape, Walks, leading,
  registry, tg, RetirePcs, LeaderPcs, TailPcs, Catching, Waiting, Visiting
<1>1. CASE PollStart(t)
  BY <1>1, <1>own, <1>me DEF PollStart, OwnerPcs
<1>2. CASE NativeEnter(t)
  BY <1>2, <1>own, <1>me DEF NativeEnter, OwnerPcs
<1>3. CASE NativeLeave(t)
  BY <1>3, <1>own, <1>me DEF NativeLeave, OwnerPcs
<1>4. CASE Detach(t)
  BY <1>4, <1>own, <1>me DEF Detach, OwnerPcs
<1>5. CASE AttachPhase(t)
  BY <1>5, <1>own, <1>me DEF AttachPhase, OwnerPcs
<1>6. ASSUME NEW kind \in Kinds, Request(t, kind)
      PROVE  Leading(t)
  BY <1>6, <1>own, <1>me DEF Request, OwnerPcs
<1>7. CASE RemoteScanRefused(t)
  <2>0. fr[t].tgt \in Threads
    BY <1>7, <1>tgt DEF RemoteScanRefused
  <2> QED BY <1>7, <1>ty, <1>me, <1>names, Woken, <2>0, <1>fr DEF RemoteScanRefused,
    NoFrame, Here
<1>8. CASE Poll(t)
  BY <1>8, <1>own, <1>me DEF Poll, OwnerPcs
<1>9. CASE PollReq(t)
  BY <1>9, <1>own, <1>me DEF PollReq, OwnerPcs
<1>10. CASE AckStep(t)
  <2>1. CASE AckXchg(t)
    BY <2>1, <1>ty, <1>me DEF AckXchg, Here
  <2>2. CASE AckNothing(t)
    BY <2>2, <1>ty, <1>me DEF AckNothing, Return, Enter, NoFrame, Here
  <2>3. CASE AckEpoch(t)
    BY <2>3, <1>ty, <1>me DEF AckEpoch, Here
  <2>4. CASE RemoteScan(t)
    BY <2>4, <1>ty, <1>me DEF RemoteScan, Here
  <2>5. CASE AckClaim(t)
    BY <2>5, <1>ty, <1>me DEF AckClaim, Here
  <2>6. CASE AckApply(t)
    BY <2>6, <1>ty, <1>me DEF AckApply, Here
  <2>7. CASE AckDone(t)
    <3>0. fr[t].tgt \in Threads
      BY <2>7, <1>tgt DEF AckDone
    <3> QED BY <2>7, <1>ty, <1>me, <1>names, Woken, <3>0 DEF AckDone, Here
  <2>8. CASE AckClear(t)
    <3>0. fr[t].tgt \in Threads
      BY <2>8, <1>tgt DEF AckClear
    <3> QED BY <2>8, <1>ty, <1>me, <1>names, Woken, <3>0 DEF AckClear, Here
  <2>9. CASE AckRestore(t)
    <3>0. fr[t].tgt \in Threads
      BY <2>9, <1>tgt DEF AckRestore
    <3> QED BY <2>9, <1>ty, <1>me, <1>names, Woken, <3>0 DEF AckRestore, Here
  <2>10. CASE AckSub(t)
    BY <2>10, <1>ty, <1>me DEF AckSub, Return, Enter, NoFrame, Here
  <2>11. CASE WaitLoad(t)
    BY <2>11, <1>ty, <1>me DEF WaitLoad, Return, Enter, NoFrame, Here
  <2>12. CASE WaitReq(t)
    BY <2>12, <1>ty, <1>me DEF WaitReq, Here
  <2>13. CASE WaitFutex(t)
    BY <2>13, <1>ty, <1>me DEF WaitFutex, Here
  <2> QED BY <1>10, <2>1, <2>2, <2>3, <2>4, <2>5, <2>6, <2>7, <2>8, <2>9, <2>10,
    <2>11, <2>12, <2>13 DEF AckStep
<1>11. CASE RetireStep(t)
  <2>1. CASE RetireXchg(t)
    BY <2>1, <1>ty, <1>me DEF RetireXchg, Here
  <2>2. CASE RetireClear(t)
    <3>0. fr[t].tgt \in Threads
      BY <2>2, <1>tgt DEF RetireClear
    <3> QED BY <2>2, <1>ty, <1>me, <1>names, Woken, <3>0, <1>fr DEF RetireClear,
      NoFrame, Here
  <2>3. CASE RetireClaim(t)
    BY <2>3, <1>ty, <1>me DEF RetireClaim, Here
  <2>4. CASE RetireSub(t)
    BY <2>4, <1>ty, <1>me DEF RetireSub, Return, Enter, NoFrame, Here
  <2>5. CASE DetachPoll(t)
    BY <2>5, <1>own, <1>me DEF DetachPoll, OwnerPcs
  <2>6. CASE DetachDead(t)
    BY <2>6, <1>own, <1>me DEF DetachDead, OwnerPcs
  <2>7. CASE DetachNative(t)
    BY <2>7, <1>own, <1>me DEF DetachNative, OwnerPcs
  <2> QED BY <1>11, <2>1, <2>2, <2>3, <2>4, <2>5, <2>6, <2>7 DEF RetireStep
<1>12. CASE AttachStep(t)
  <2>1. CASE AttachEpoch(t)
    BY <2>1, <1>own, <1>me DEF AttachEpoch, OwnerPcs
  <2>2. CASE AttachPending(t)
    BY <2>2, <1>own, <1>me DEF AttachPending, OwnerPcs
  <2>3. CASE AttachApply(t)
    BY <2>3, <1>own, <1>me DEF AttachApply, OwnerPcs
  <2>4. CASE AttachHold(t)
    BY <2>4, <1>own, <1>me DEF AttachHold, OwnerPcs
  <2>5. CASE AttachLink(t)
    BY <2>5, <1>own, <1>me DEF AttachLink, OwnerPcs
  <2>6. CASE AttachBoundary(t)
    BY <2>6, <1>own, <1>me DEF AttachBoundary, OwnerPcs
  <2> QED BY <1>12, <2>1, <2>2, <2>3, <2>4, <2>5, <2>6 DEF AttachStep
<1>13. CASE LeaderStep(t)
  <2>1. CASE LeaderEnter(t)
    BY <2>1, <1>ty, <1>me DEF LeaderEnter, Here, NoWalk
  <2>2. CASE HelpSelf(t)
    BY <2>2, <1>own, <1>me DEF HelpSelf, OwnerPcs
  <2>3. CASE LeaderPrior(t)
    BY <2>3, <1>ty, <1>me DEF LeaderPrior, StartWalk
  <2>4. CASE LeaderPublish(t)
    BY <2>4, <1>ty, <1>me DEF LeaderPublish, StartWalk
  <2>5. CASE Signal(t)
    BY <2>5, <1>ty, <1>me, <1>here DEF Signal, Here, Walked, PassOn
  <2>6. CASE SignalReq(t)
    BY <2>6, <1>ty, <1>me, <1>here DEF SignalReq, Here, PassOn
  <2>7. CASE SignalCount(t)
    BY <2>7, <1>ty, <1>me, <1>here DEF SignalCount, Here
  <2>8. CASE SignalPoll(t)
    <3>0. Here \in Threads
      BY <2>8, <1>here DEF SignalPoll, Walked
    <3> QED BY <2>8, <1>ty, <1>me, <1>here, <1>names, Woken, <3>0 DEF SignalPoll,
      Here
  <2>9. CASE SignalDead(t)
    BY <2>9, <1>ty, <1>me, <1>here DEF SignalDead, Enter, AckFrame, NoFrame, Here,
      PassOn
  <2>10. CASE Signaled(t)
    BY <2>10, <1>ty, <1>me DEF Signaled, StartWalk, Walked
  <2>11. CASE AckWalk(t)
    BY <2>11, <1>ty, <1>me, <1>here DEF AckWalk, Enter, AckFrame, NoFrame, Here,
      Walked, PassOn
  <2>12. CASE AckWalked(t)
    BY <2>12, <1>ty, <1>me DEF AckWalked, StartWalk, Walked
  <2>13. CASE DropSentinel(t)
    BY <2>13, <1>ty, <1>me DEF DropSentinel, Here
  <2>14. CASE LeaderWait(t)
    BY <2>14, <1>ty, <1>me DEF LeaderWait, StartWalk
  <2>15. CASE LeaderTail(t)
    BY <2>15, <1>ty, <1>me DEF LeaderTail, StartWalk
  <2>16. CASE ClearPoll(t)
    <3>0. Here \in Threads
      BY <2>16, <1>here DEF ClearPoll, Walked
    <3> QED BY <2>16, <1>ty, <1>me, <1>here, <1>names, Woken, <3>0 DEF ClearPoll,
      Here, Walked, PassOn
  <2>17. CASE LeaderLeave(t)
    BY <2>17, <1>ty, <1>me DEF LeaderLeave, NoWalk, Here, Walked
  <2> QED BY <1>13, <2>1, <2>2, <2>3, <2>4, <2>5, <2>6, <2>7, <2>8, <2>9, <2>10,
    <2>11, <2>12, <2>13, <2>14, <2>15, <2>16, <2>17 DEF LeaderStep
<1>14. CASE ClaimPoll(t)
  BY <1>14, <1>own, <1>me DEF ClaimPoll, OwnerPcs
<1> QED BY <1>1, <1>2, <1>3, <1>4, <1>5, <1>6, <1>7, <1>8, <1>9, <1>10, <1>11,
  <1>12, <1>13, <1>14 DEF Moves, CallStep

(* and so the control part of the invariant is inductive. *)
LEMMA ShapesStep ==
  ASSUME Shapes, NEW t \in Threads, Moves(t)
  PROVE  Shapes'
<1>ty. Types /\ Types'
  BY TypesStep DEF Shapes
<1>w. Words(t)
  BY WordsStep
<1>0. 0 \notin Threads /\ leader \in Threads \cup {0}
  BY <1>ty DEF Threads, Types
<1>1. ASSUME NEW u \in Threads
      PROVE  Shape(u)' /\ Roles(u)' /\ Natives(u)'
  <2>1. CASE u = t
    BY <2>1, ShapeOfStep, NativesOfStep
  <2>2. CASE u # t
    <3>1. Same(u)
      BY <2>2, Bystanders
    <3>2. Shape(u) /\ Roles(u) /\ Natives(u)
      BY DEF Shapes
    <3>3. pc'[u] = pc[u] \/ (pc[u] \in AckPcs /\ pc'[u] \in AckPcs
                             /\ pc[u] = "asleep" /\ pc'[u] = "w_load")
      BY <3>1 DEF Same, AckPcs
    <3>4. leader' = u <=> leader = u
      BY <2>2, <1>w, <1>0 DEF Words
    <3>5. Shape(u)'
      BY <3>1, <3>2, <3>3, <1>w DEF Same, Shape, Words, Waiting, AckPcs, RetirePcs, Consumed
    <3>6. Roles(u)'
      BY <3>1, <3>2, <3>3, <3>4 DEF Same, Roles, Leads, Wants, AckPcs, RetirePcs,
         LeaderPcs, TailPcs, Catching
    <3>7. Natives(u)'
      BY <3>1, <3>2, <3>3 DEF Same, Natives, Joining, AckPcs, Catching
    <3> QED BY <3>5, <3>6, <3>7
  <2> QED BY <2>1, <2>2
<1>2. ASSUME NEW l \in Threads, leader' = l
      PROVE  Walks(l)'
  <2>1. CASE l = t
    BY <1>2, <2>1, WalksOfStep DEF Leading
  <2>2. CASE l # t
    <3>1. Same(l)
      BY <2>2, Bystanders
    <3>2. leader = l
      BY <1>2, <2>2, <1>w, <1>0 DEF Words
    <3>3. Shape(l) /\ Roles(l) /\ Walks(l)
      BY <3>2 DEF Shapes
    <3>4. pc'[l] = pc[l] /\ fr'[l] = fr[l]
      BY <3>1, <3>2, <3>3 DEF Same, Shape, Roles, Leads, AckPcs, RetirePcs, LeaderPcs,
         TailPcs, Waiting
    <3>5. walk' = walk /\ linked \subseteq linked' /\ Here' = Here
          /\ \A u \in Threads : req'[u] \in {req[u], "none"}
      BY <1>w, <2>2, <3>2 DEF Words, Here
    <3>6. pc[l] = "sig_count" => Here \in Threads
      BY <3>3, <1>ty, HereIn DEF Types, Walks, Visiting
    <3>7. pc[l] \in Consumed \cup {"k_none"} => fr[l].tgt \in Threads
      BY <3>3, <1>ty DEF Shape, Consumed, AckPcs, Types
    <3> QED BY <3>3, <3>4, <3>5, <3>6, <3>7 DEF Walks
  <2> QED BY <2>1, <2>2
<1>3. leader' = 0 => walk' = NoWalk
  BY <1>w, <1>0, WalksOfStep DEF Words, Leading, Shapes
<1> QED BY <1>ty, <1>1, <1>2, <1>3 DEF Shapes

(* Between two handshakes nothing is under way. *)
LEMMA ShapesInit == Init => Shapes
<1> SUFFICES ASSUME Init PROVE Shapes
  OBVIOUS
<1> USE SafepointAssumption DEF Init
<1>1. Types
  <2>1. pc \in [Threads -> PCs]
    BY DEF PCs, OwnerPcs
  <2>2. fr \in [Threads -> Frames]
    BY NoFrameIs
  <2>3. walk \in [todo: SUBSET Threads, stage: {"prior", "first", "loop", "wait"},
               late: SUBSET Threads]
    BY DEF NoWalk
  <2> QED BY <2>1, <2>2, <2>3 DEF Types, Masks
<1>2. ASSUME NEW t \in Threads
      PROVE  Shape(t) /\ Roles(t) /\ Natives(t)
  <2>1. pc[t] = IF t \in Newcomers THEN "new" ELSE "run"
    OBVIOUS
  <2>2. Shape(t)
    BY <2>1 DEF Shape, AckPcs, RetirePcs, Waiting, Consumed
  <2>3. Roles(t)
    BY <2>1 DEF Roles, Leads, Wants, LeaderPcs, TailPcs, AckPcs, RetirePcs, Catching,
       Threads
  <2>4. Natives(t)
    BY <2>1 DEF Natives, Joining, AckPcs, Catching
  <2> QED BY <2>2, <2>3, <2>4
<1>3. leader = 0 /\ walk = NoWalk /\ 0 \notin Threads
  BY DEF Threads
<1> QED BY <1>1, <1>2, <1>3 DEF Shapes

-----------------------------------------------------------------------------
(* The slots that pending counts, and where a step moves them. *)
(* The leader's own slot is counted. *)
Holding ==
  /\ leader # 0 /\ want[leader] # "none" /\ walk.stage \in {"first", "loop"}
  /\ pc[leader] \notin {"h_enter", "h_prior", "h_pub", "h_wait"} \cup TailPcs

Idle(t) ==
  /\ req' = req /\ pending' = pending
  /\ (Owes(t)' <=> Owes(t)) /\ (Holding' <=> Holding)

(* A request is consumed, *)
Take(t) ==
  /\ \E x \in Threads : req[x] # "none" /\ req' = [req EXCEPT ![x] = "none"]
  /\ pending' = pending
  /\ ~Owes(t) /\ Owes(t)' /\ (Holding' <=> Holding)

(* put back, *)
PutBack(t) ==
  /\ \E x \in Threads : \E m \in Masks :
       m # "none" /\ req[x] = "none" /\ req' = [req EXCEPT ![x] = m]
  /\ pending' = pending
  /\ Owes(t) /\ ~Owes(t)' /\ (Holding' <=> Holding)

(* or its slot dropped. *)
Drop(t) ==
  /\ req' = req /\ pending' = pending - 1
  /\ Owes(t) /\ ~Owes(t)' /\ (Holding' <=> Holding)

(* The leader makes a request, takes its own slot, and drops it. *)
Count(t) ==
  /\ \E x \in Threads : \E m \in Masks :
       m # "none" /\ req[x] = "none" /\ req' = [req EXCEPT ![x] = m]
  /\ pending' = pending + 1 /\ pc[t] = "sig_count" /\ pc'[t] = "sig_poll"
  /\ (Owes(t)' <=> Owes(t)) /\ (Holding' <=> Holding)

Open(t) ==
  /\ req' = req /\ pending' = 1
  /\ leader = t /\ pc[t] = "h_pub" /\ leader' = t /\ pc'[t] = "sig" /\ walk'.stage = "first"
  /\ (Owes(t)' <=> Owes(t)) /\ Holding'

Close(t) ==
  /\ req' = req /\ pending' = pending - 1
  /\ (Owes(t)' <=> Owes(t)) /\ Holding /\ ~Holding'

Transfer(t) ==
  \/ Idle(t) \/ Take(t) \/ PutBack(t) \/ Drop(t) \/ Count(t) \/ Open(t) \/ Close(t)

(* A step of another thread leaves the slot of the leader where it is, *)
LEMMA HoldingAlone ==
  ASSUME Shapes, NEW t \in Threads, Moves(t), leader # t, leader' = leader
  PROVE  Holding' <=> Holding
<1>1. CASE leader = 0
  BY <1>1 DEF Holding
<1>2. CASE leader # 0
  <2>1. leader \in Threads \ {t} /\ 0 \notin Threads
    BY <1>2 DEF Shapes, Types, Threads
  <2>2. Same(leader)
    BY <2>1, Bystanders
  <2>3. walk' = walk
    BY WordsStep DEF Words
  <2> HIDE DEF Threads
  <2> QED BY <2>1, <2>2, <2>3 DEF Same, Holding, TailPcs
<1> QED BY <1>1, <1>2

(* Every step moves at most one slot. *)
LEMMA TransferStep ==
  ASSUME Shapes, NEW t \in Threads, Moves(t)
  PROVE  Transfer(t)
<1>sh. Types
  BY DEF Shapes
<1>ty. /\ pc \in [Threads -> PCs] /\ fr \in [Threads -> Frames]
       /\ want \in [Threads -> Masks] /\ native \in [Threads -> BOOLEAN]
  BY <1>sh DEF Types
<1>fr. fr[t].ret \in PCs
  BY <1>ty, FrameFields
<1>tgt. pc[t] \in Consumed \cup {"k_xchg", "k_none", "q_xchg", "q_clear", "q_claim"}
          => fr[t].tgt \in Threads
  BY <1>sh DEF Shapes, Types, Shape, AckPcs, RetirePcs, Consumed
<1>here. /\ walk.todo # {} => Here \in walk.todo /\ Here \in Threads
         /\ At(t, "sig_req") \/ At(t, "sig_count") \/ At(t, "sig_poll")
              \/ At(t, "sig_dead") => walk.todo # {}
  BY <1>sh, HereIn DEF At, Types, Shapes, Roles, Leads, Walks, Visiting, LeaderPcs
<1>names. /\ "k_sub" \in PCs /\ "k_fix" \in PCs /\ "q_claim" \in PCs
          /\ "sig_dead" \in PCs /\ "t_clear" \in PCs
  BY DEF PCs, AckPcs, RetirePcs, LeaderPcs, TailPcs
<1>me. /\ Shape(t) /\ (Leads(t) <=> leader = t) /\ (Leads(t) => want[t] # "none")
       /\ 0 \notin Threads /\ req \in [Threads -> Masks] /\ pending \in Int
       /\ leader = t => Walks(t)
  BY <1>sh DEF Shapes, Types, Roles, Wants, Threads
<1>wk. walk \in [todo: SUBSET Threads, stage: {"prior", "first", "loop", "wait"},
               late: SUBSET Threads]
  BY <1>sh DEF Types
<1>wt. want[t] \in Masks
  BY <1>ty
<1>hold. leader # t /\ leader' = leader => (Holding' <=> Holding)
  BY HoldingAlone
<1>walks. /\ leader = t /\ pc[t] = "sig_count" => req[Here] = "none"
          /\ leader = t /\ pc[t] = "k_scan" => req[fr[t].tgt] = "none"
          /\ pc[t] = "k_scan" => leader = t /\ fr[t].acts # "none" /\ fr[t].acts \in Masks
  BY <1>sh, <1>ty, FrameFields DEF Shapes, Roles, Leads, Shape, Walks, Consumed, AckPcs
<1> USE DEF Goto, At, Owes, Holding, hs, leading, Leads, AckPcs, RetirePcs,
  LeaderPcs, TailPcs, Consumed, Waiting
<1>1. CASE PollStart(t)
  BY <1>1, <1>ty, <1>me, <1>hold DEF PollStart, Enter, AckFrame, NoFrame, tg,
    Transfer, Idle
<1>2. CASE NativeEnter(t)
  BY <1>2, <1>ty, <1>me, <1>hold DEF NativeEnter, tg, Transfer, Idle
<1>3. CASE NativeLeave(t)
  BY <1>3, <1>ty, <1>me, <1>hold DEF NativeLeave, Enter, AckFrame, NoFrame, tg,
    Transfer, Idle
<1>4. CASE Detach(t)
  BY <1>4, <1>ty, <1>me, <1>hold DEF Detach, tg, Transfer, Idle
<1>5. CASE AttachPhase(t)
  BY <1>5, <1>ty, <1>me, <1>hold DEF AttachPhase, tg, Transfer, Idle
<1>6. ASSUME NEW kind \in Kinds, Request(t, kind)
      PROVE  Transfer(t)
  BY <1>6, <1>ty, <1>me, <1>hold DEF Request, tg, Transfer, Idle
<1>7. CASE RemoteScanRefused(t)
  <2>0. fr[t].tgt \in Threads
    BY <1>7, <1>tgt DEF RemoteScanRefused
  <2>1. Holding' <=> Holding
    BY <1>7, <1>ty, <1>me, <1>hold, <1>names, Woken, <2>0, <1>fr, <1>walks DEF
      RemoteScanRefused, NoFrame
  <2>2. Owes(t) /\ ~Owes(t)'
    BY <1>7, <1>ty, <1>me, <1>names, Woken, <2>0, <1>fr, <1>walks DEF
      RemoteScanRefused, NoFrame, Shape
  <2> QED BY <1>7, <2>1, <2>2, <1>walks, <2>0 DEF RemoteScanRefused, tg, Transfer,
    PutBack
<1>8. CASE Poll(t)
  BY <1>8, <1>ty, <1>me, <1>hold DEF Poll, tg, Transfer, Idle
<1>9. CASE PollReq(t)
  <2>1. Holding' <=> Holding
    BY <1>9, <1>ty, <1>me, <1>hold DEF PollReq, Return, Enter, NoFrame
  <2>2. Owes(t)' <=> Owes(t)
    BY <1>9, <1>ty, <1>me DEF PollReq, Return, Enter, NoFrame, Shape
  <2> QED BY <1>9, <2>1, <2>2 DEF PollReq, tg, Transfer, Idle
<1>10. CASE AckStep(t)
  <2>1. CASE AckXchg(t)
    <3>0. fr[t].tgt \in Threads
      BY <2>1, <1>tgt DEF AckXchg
    <3>1. CASE req[fr[t].tgt] = "none"
      <4>1. Owes(t)' <=> Owes(t)
        BY <2>1, <1>ty, <3>1 DEF AckXchg
      <4>2. Holding' <=> Holding
        BY <2>1, <1>ty, <1>me, <1>hold DEF AckXchg
      <4> QED BY <2>1, <1>me, <3>0, <3>1, <4>1, <4>2 DEF AckXchg, Transfer, Idle
    <3>2. CASE req[fr[t].tgt] # "none"
      <4>1. ~Owes(t) /\ Owes(t)'
        BY <2>1, <1>ty, <3>2 DEF AckXchg
      <4>2. Holding' <=> Holding
        BY <2>1, <1>ty, <1>me, <1>hold DEF AckXchg
      <4> QED BY <2>1, <1>me, <3>0, <3>2, <4>1, <4>2 DEF AckXchg, Transfer, Take
    <3> QED BY <3>1, <3>2
  <2>2. CASE AckNothing(t)
    <3>1. Holding' <=> Holding
      BY <2>2, <1>ty, <1>me, <1>hold DEF AckNothing, Return, Enter, NoFrame
    <3>2. Owes(t)' <=> Owes(t)
      BY <2>2, <1>ty, <1>me DEF AckNothing, Return, Enter, NoFrame, Shape
    <3> QED BY <2>2, <3>1, <3>2 DEF AckNothing, tg, Transfer, Idle
  <2>3. CASE AckEpoch(t)
    BY <2>3, <1>ty, <1>me, <1>hold DEF AckEpoch, tg, Transfer, Idle
  <2>4. CASE RemoteScan(t)
    BY <2>4, <1>ty, <1>me, <1>hold DEF RemoteScan, tg, Transfer, Idle
  <2>5. CASE AckClaim(t)
    BY <2>5, <1>ty, <1>me, <1>hold DEF AckClaim, tg, Transfer, Idle
  <2>6. CASE AckApply(t)
    BY <2>6, <1>ty, <1>me, <1>hold DEF AckApply, tg, Transfer, Idle
  <2>7. CASE AckDone(t)
    <3>0. fr[t].tgt \in Threads
      BY <2>7, <1>tgt DEF AckDone
    <3> QED BY <2>7, <1>ty, <1>me, <1>hold, <1>names, Woken, <3>0 DEF AckDone, tg,
      Transfer, Idle
  <2>8. CASE AckClear(t)
    <3>0. fr[t].tgt \in Threads
      BY <2>8, <1>tgt DEF AckClear
    <3> QED BY <2>8, <1>ty, <1>me, <1>hold, <1>names, Woken, <3>0 DEF AckClear, tg,
      Transfer, Idle
  <2>9. CASE AckRestore(t)
    <3>0. fr[t].tgt \in Threads
      BY <2>9, <1>tgt DEF AckRestore
    <3> QED BY <2>9, <1>ty, <1>me, <1>hold, <1>names, Woken, <3>0 DEF AckRestore,
      tg, Transfer, Idle
  <2>10. CASE AckSub(t)
    <3>1. Holding' <=> Holding
      BY <2>10, <1>ty, <1>me, <1>hold DEF AckSub, Return, Enter, NoFrame
    <3>2. Owes(t) /\ ~Owes(t)'
      BY <2>10, <1>ty, <1>me DEF AckSub, Return, Enter, NoFrame, Shape
    <3> QED BY <2>10, <3>1, <3>2 DEF AckSub, tg, Transfer, Drop
  <2>11. CASE WaitLoad(t)
    <3>1. Holding' <=> Holding
      BY <2>11, <1>ty, <1>me, <1>hold DEF WaitLoad, Return, Enter, NoFrame
    <3>2. Owes(t)' <=> Owes(t)
      BY <2>11, <1>ty, <1>me DEF WaitLoad, Return, Enter, NoFrame, Shape
    <3> QED BY <2>11, <3>1, <3>2 DEF WaitLoad, tg, Transfer, Idle
  <2>12. CASE WaitReq(t)
    BY <2>12, <1>ty, <1>me, <1>hold DEF WaitReq, tg, Transfer, Idle
  <2>13. CASE WaitFutex(t)
    BY <2>13, <1>ty, <1>me, <1>hold DEF WaitFutex, tg, Transfer, Idle
  <2> QED BY <1>10, <2>1, <2>2, <2>3, <2>4, <2>5, <2>6, <2>7, <2>8, <2>9, <2>10,
    <2>11, <2>12, <2>13 DEF AckStep
<1>11. CASE RetireStep(t)
  <2>1. CASE RetireXchg(t)
    <3>0. fr[t].tgt \in Threads
      BY <2>1, <1>tgt DEF RetireXchg
    <3>1. CASE req[fr[t].tgt] = "none"
      <4>1. Owes(t)' <=> Owes(t)
        BY <2>1, <1>ty, <3>1 DEF RetireXchg
      <4>2. Holding' <=> Holding
        BY <2>1, <1>ty, <1>me, <1>hold DEF RetireXchg
      <4> QED BY <2>1, <1>me, <3>0, <3>1, <4>1, <4>2 DEF RetireXchg, Transfer, Idle
    <3>2. CASE req[fr[t].tgt] # "none"
      <4>1. ~Owes(t) /\ Owes(t)'
        BY <2>1, <1>ty, <3>2 DEF RetireXchg
      <4>2. Holding' <=> Holding
        BY <2>1, <1>ty, <1>me, <1>hold DEF RetireXchg
      <4> QED BY <2>1, <1>me, <3>0, <3>2, <4>1, <4>2 DEF RetireXchg, Transfer, Take
    <3> QED BY <3>1, <3>2
  <2>2. CASE RetireClear(t)
    <3>0. fr[t].tgt \in Threads
      BY <2>2, <1>tgt DEF RetireClear
    <3>1. Holding' <=> Holding
      BY <2>2, <1>ty, <1>me, <1>hold, <1>names, Woken, <3>0, <1>fr DEF RetireClear,
        NoFrame
    <3>2. Owes(t)' <=> Owes(t)
      BY <2>2, <1>ty, <1>me, <1>names, Woken, <3>0, <1>fr DEF RetireClear, NoFrame,
        Shape
    <3> QED BY <2>2, <3>1, <3>2 DEF RetireClear, tg, Transfer, Idle
  <2>3. CASE RetireClaim(t)
    BY <2>3, <1>ty, <1>me, <1>hold DEF RetireClaim, tg, Transfer, Idle
  <2>4. CASE RetireSub(t)
    <3>1. Holding' <=> Holding
      BY <2>4, <1>ty, <1>me, <1>hold DEF RetireSub, Return, Enter, NoFrame
    <3>2. Owes(t) /\ ~Owes(t)'
      BY <2>4, <1>ty, <1>me DEF RetireSub, Return, Enter, NoFrame, Shape
    <3> QED BY <2>4, <3>1, <3>2 DEF RetireSub, tg, Transfer, Drop
  <2>5. CASE DetachPoll(t)
    BY <2>5, <1>ty, <1>me, <1>hold DEF DetachPoll, Enter, AckFrame, NoFrame, tg,
      Transfer, Idle
  <2>6. CASE DetachDead(t)
    BY <2>6, <1>ty, <1>me, <1>hold DEF DetachDead, Enter, AckFrame, NoFrame, tg,
      Transfer, Idle
  <2>7. CASE DetachNative(t)
    BY <2>7, <1>ty, <1>me, <1>hold DEF DetachNative, tg, Transfer, Idle
  <2> QED BY <1>11, <2>1, <2>2, <2>3, <2>4, <2>5, <2>6, <2>7 DEF RetireStep
<1>12. CASE AttachStep(t)
  <2>1. CASE AttachEpoch(t)
    BY <2>1, <1>ty, <1>me, <1>hold DEF AttachEpoch, tg, Transfer, Idle
  <2>2. CASE AttachPending(t)
    BY <2>2, <1>ty, <1>me, <1>hold DEF AttachPending, tg, Transfer, Idle
  <2>3. CASE AttachApply(t)
    BY <2>3, <1>ty, <1>me, <1>hold DEF AttachApply, tg, Transfer, Idle
  <2>4. CASE AttachHold(t)
    BY <2>4, <1>ty, <1>me, <1>hold DEF AttachHold, tg, Transfer, Idle
  <2>5. CASE AttachLink(t)
    BY <2>5, <1>ty, <1>me, <1>hold DEF AttachLink, Enter, NoFrame, tg, Transfer,
      Idle
  <2>6. CASE AttachBoundary(t)
    BY <2>6, <1>ty, <1>me, <1>hold DEF AttachBoundary, Enter, AckFrame, NoFrame, tg,
      Transfer, Idle
  <2> QED BY <1>12, <2>1, <2>2, <2>3, <2>4, <2>5, <2>6 DEF AttachStep
<1>13. CASE LeaderStep(t)
  <2>1. CASE LeaderEnter(t)
    BY <2>1, <1>ty, <1>me, <1>hold DEF LeaderEnter, tg, Transfer, Idle
  <2>2. CASE HelpSelf(t)
    BY <2>2, <1>ty, <1>me, <1>hold DEF HelpSelf, Enter, AckFrame, NoFrame, tg,
      Transfer, Idle
  <2>3. CASE LeaderPrior(t)
    BY <2>3, <1>ty, <1>me, <1>hold DEF LeaderPrior, StartWalk, tg, Transfer, Idle
  <2>4. CASE LeaderPublish(t)
    BY <2>4, <1>ty, <1>me, <1>hold DEF LeaderPublish, StartWalk, tg, Transfer, Open
  <2>5. CASE Signal(t)
    <3>1. Holding' <=> Holding
      BY <2>5, <1>ty, <1>me, <1>hold, <1>wk DEF Signal, Walked, PassOn
    <3>2. Owes(t)' <=> Owes(t)
      BY <2>5, <1>ty, <1>wk DEF Signal
    <3> QED BY <2>5, <3>1, <3>2 DEF Signal, tg, Transfer, Idle
  <2>6. CASE SignalReq(t)
    <3>1. Holding' <=> Holding
      BY <2>6, <1>ty, <1>me, <1>hold, <1>wk DEF SignalReq, Walked, PassOn
    <3>2. Owes(t)' <=> Owes(t)
      BY <2>6, <1>ty, <1>wk DEF SignalReq
    <3> QED BY <2>6, <3>1, <3>2 DEF SignalReq, tg, Transfer, Idle
  <2>7. CASE SignalCount(t)
    <3>1. Holding' <=> Holding
      BY <2>7, <1>ty, <1>me, <1>hold, <1>wk DEF SignalCount, Walked
    <3>2. Owes(t)' <=> Owes(t)
      BY <2>7, <1>ty, <1>wk DEF SignalCount
    <3> QED BY <2>7, <3>1, <3>2, <1>walks, <1>here, <1>me, <1>wt, <1>ty DEF
      SignalCount, tg, Walks, Transfer, Count
  <2>8. CASE SignalPoll(t)
    <3>0. Here \in Threads
      BY <2>8, <1>here DEF SignalPoll, Walked
    <3> QED BY <2>8, <1>ty, <1>me, <1>hold, <1>names, Woken, <3>0, <1>here DEF
      SignalPoll, tg, Walked, Transfer, Idle
  <2>9. CASE SignalDead(t)
    BY <2>9, <1>ty, <1>me, <1>hold, <1>here DEF SignalDead, Enter, AckFrame,
      NoFrame, tg, Walked, PassOn, Transfer, Idle
  <2>10. CASE Signaled(t)
    <3>1. Holding' <=> Holding
      BY <2>10, <1>ty, <1>me, <1>hold, <1>wk DEF Signaled, StartWalk, Walks
    <3>2. Owes(t)' <=> Owes(t)
      BY <2>10, <1>ty, <1>wk DEF Signaled, StartWalk
    <3> QED BY <2>10, <3>1, <3>2 DEF Signaled, tg, Transfer, Idle
  <2>11. CASE AckWalk(t)
    BY <2>11, <1>ty, <1>me, <1>hold, <1>here DEF AckWalk, Enter, AckFrame, NoFrame,
      tg, Walked, PassOn, Transfer, Idle
  <2>12. CASE AckWalked(t)
    <3>1. Holding' <=> Holding
      BY <2>12, <1>ty, <1>me, <1>hold, <1>wk DEF AckWalked, StartWalk, Walks
    <3>2. Owes(t)' <=> Owes(t)
      BY <2>12, <1>ty, <1>wk DEF AckWalked, StartWalk
    <3> QED BY <2>12, <3>1, <3>2 DEF AckWalked, tg, Transfer, Idle
  <2>13. CASE DropSentinel(t)
    <3>1. Holding /\ ~Holding'
      BY <2>13, <1>ty, <1>me, <1>hold, <1>wk DEF DropSentinel, Walks
    <3>2. Owes(t)' <=> Owes(t)
      BY <2>13, <1>ty, <1>wk DEF DropSentinel
    <3> QED BY <2>13, <3>1, <3>2 DEF DropSentinel, tg, Transfer, Close
  <2>14. CASE LeaderWait(t)
    BY <2>14, <1>ty, <1>me, <1>hold DEF LeaderWait, StartWalk, tg, Transfer, Idle
  <2>15. CASE LeaderTail(t)
    BY <2>15, <1>ty, <1>me, <1>hold DEF LeaderTail, StartWalk, tg, Transfer, Idle
  <2>16. CASE ClearPoll(t)
    <3>0. Here \in Threads
      BY <2>16, <1>here DEF ClearPoll, Walked
    <3> QED BY <2>16, <1>ty, <1>me, <1>hold, <1>names, Woken, <3>0, <1>here DEF
      ClearPoll, tg, Walked, PassOn, Transfer, Idle
  <2>17. CASE LeaderLeave(t)
    BY <2>17, <1>ty, <1>me, <1>hold DEF LeaderLeave, NoWalk, tg, Transfer, Idle
  <2> QED BY <1>13, <2>1, <2>2, <2>3, <2>4, <2>5, <2>6, <2>7, <2>8, <2>9, <2>10,
    <2>11, <2>12, <2>13, <2>14, <2>15, <2>16, <2>17 DEF LeaderStep
<1>14. CASE ClaimPoll(t)
  BY <1>14, <1>ty, <1>me, <1>hold DEF ClaimPoll, Enter, AckFrame, NoFrame, tg,
    Transfer, Idle
<1> QED BY <1>1, <1>2, <1>3, <1>4, <1>5, <1>6, <1>7, <1>8, <1>9, <1>10, <1>11,
  <1>12, <1>13, <1>14 DEF Moves, CallStep

(* Requests of the published handshake may be out. *)
Asking == Published /\ pc[leader] \notin TailPcs

(* t has asked for an epoch that is not published. *)
Unpub(t) == want[t] # "none" /\ ~(Published /\ leader = t)

(* The leader leaves that phase only on a counter of zero, and walks for an *)
(* earlier handshake only if the counter was not.                           *)
Asks ==
  /\ Asking /\ ~Asking' => pending = 0 /\ pending' = 0
  /\ walk'.stage = "prior" => walk.stage = "prior" \/ (~Asking /\ pending # 0)
  /\ Published' /\ ~Published => epoch' = epoch + 1 /\ actions' = want'[leader']

(* Who asks for an epoch pays for it when it is published. *)
Pays(t) ==
  \/ epoch' = epoch /\ (Unpub(t)' <=> Unpub(t))
  \/ /\ ~Unpub(t) /\ Unpub(t)' /\ epoch' = epoch
     /\ epoch + Cardinality({u \in Threads : want[u] # "none"}) < MaxEpoch
  \/ Unpub(t) /\ ~Unpub(t)' /\ epoch' = epoch + 1

(* and the publication and the request of the leader. *)
LEMMA PublishedAlone ==
  ASSUME Shapes, NEW t \in Threads, Moves(t), leader # t, leader' = leader
  PROVE  (Published' <=> Published) /\ (Asking' <=> Asking)
<1>1. CASE leader = 0
  BY <1>1 DEF Published, Asking
<1>2. CASE leader # 0
  <2>1. leader \in Threads \ {t} /\ 0 \notin Threads
    BY <1>2 DEF Shapes, Types, Threads
  <2>2. Same(leader)
    BY <2>1, Bystanders
  <2>3. walk' = walk
    BY WordsStep DEF Words
  <2> HIDE DEF Threads
  <2> QED BY <2>1, <2>2, <2>3 DEF Same, Published, Asking, TailPcs
<1> QED BY <1>1, <1>2

(* Only Request asks for an epoch, and only LeaderPublish takes one. *)
LEMMA AsksStep ==
  ASSUME Shapes, NEW t \in Threads, Moves(t)
  PROVE  Asks /\ Pays(t)
<1>ty. /\ pc \in [Threads -> PCs] /\ fr \in [Threads -> Frames]
       /\ want \in [Threads -> Masks]
  BY DEF Shapes, Types
<1>wk. walk \in [todo: SUBSET Threads, stage: {"prior", "first", "loop", "wait"},
               late: SUBSET Threads]
  BY DEF Shapes, Types
<1>me. /\ Shape(t) /\ (Leads(t) <=> leader = t) /\ (Wants(t) <=> want[t] # "none")
       /\ 0 \notin Threads /\ pending \in Int /\ t # 0 /\ (Leads(t) => want[t] # "none")
       /\ leader = t => Walks(t)
  BY DEF Shapes, Types, Roles, Wants, Threads
<1>alone. leader # t /\ leader' = leader =>
            (Published' <=> Published) /\ (Asking' <=> Asking)
  BY PublishedAlone
<1> USE DEF At, Leads, LeaderPcs, TailPcs, Goto, hs, leading
<1>1. CASE LeaderStep(t)
  <2>here. /\ walk.todo # {} => Here \in walk.todo /\ Here \in Threads
           /\ At(t, "sig_poll") => walk.todo # {}
    BY <1>wk, <1>me, HereIn DEF Walks, Visiting
  <2>names. "sig_dead" \in PCs /\ "t_clear" \in PCs
    BY DEF PCs
  <2>1. CASE LeaderEnter(t)
    <3>1. ~Published /\ ~Published' /\ walk' = walk
      BY <2>1, <1>ty, <1>me DEF LeaderEnter, Published
    <3>2. Asks
      BY <3>1 DEF Asks, Asking
    <3>3. Pays(t)
      BY <2>1, <3>1 DEF LeaderEnter, Pays, Unpub
    <3> QED BY <3>2, <3>3
  <2>2. CASE HelpSelf(t)
    <3>1. Published' <=> Published
      BY <2>2, <1>ty, <1>me, <1>alone, <1>wk DEF HelpSelf, Enter, Published, AckPcs,
        RetirePcs, Consumed, Walks
    <3>2. Asks
      BY <2>2, <1>ty, <1>me, <1>alone, <3>1, <1>wk DEF HelpSelf, Enter, Asks,
        Asking, AckPcs, RetirePcs, Consumed, Walks
    <3>3. Pays(t)
      BY <2>2, <3>1 DEF HelpSelf, Pays, Unpub
    <3> QED BY <3>2, <3>3
  <2>3. CASE LeaderPrior(t)
    <3>1. Published' <=> Published
      BY <2>3, <1>ty, <1>me, <1>alone, <1>wk DEF LeaderPrior, StartWalk, Published,
        AckPcs, RetirePcs, Consumed, Walks
    <3>2. Asks
      BY <2>3, <1>ty, <1>me, <1>alone, <3>1, <1>wk DEF LeaderPrior, StartWalk, Asks,
        Asking, AckPcs, RetirePcs, Consumed, Walks, Published
    <3>3. Pays(t)
      BY <2>3, <3>1 DEF LeaderPrior, Pays, Unpub
    <3> QED BY <3>2, <3>3
  <2>4. CASE LeaderPublish(t)
    <3>1. leader = t /\ ~Published /\ Published' /\ walk'.stage = "first" /\ leader' = t
      BY <2>4, <1>ty, <1>me DEF LeaderPublish, StartWalk, Published
    <3>2. Asks
      BY <2>4, <3>1 DEF LeaderPublish, Asks, Asking
    <3>3. Pays(t)
      BY <2>4, <3>1, <1>me DEF LeaderPublish, Pays, Unpub
    <3> QED BY <3>2, <3>3
  <2>5. CASE Signal(t)
    <3>1. Published' <=> Published
      BY <2>5, <1>ty, <1>me, <1>alone, <1>wk DEF Signal, PassOn, Published, AckPcs,
        RetirePcs, Consumed, Walks
    <3>2. Asks
      BY <2>5, <1>ty, <1>me, <1>alone, <3>1, <1>wk DEF Signal, PassOn, Asks, Asking,
        AckPcs, RetirePcs, Consumed, Walks
    <3>3. Pays(t)
      BY <2>5, <3>1 DEF Signal, Pays, Unpub
    <3> QED BY <3>2, <3>3
  <2>6. CASE SignalReq(t)
    <3>1. Published' <=> Published
      BY <2>6, <1>ty, <1>me, <1>alone, <1>wk DEF SignalReq, PassOn, Published,
        AckPcs, RetirePcs, Consumed, Walks
    <3>2. Asks
      BY <2>6, <1>ty, <1>me, <1>alone, <3>1, <1>wk DEF SignalReq, PassOn, Asks,
        Asking, AckPcs, RetirePcs, Consumed, Walks
    <3>3. Pays(t)
      BY <2>6, <3>1 DEF SignalReq, Pays, Unpub
    <3> QED BY <3>2, <3>3
  <2>7. CASE SignalCount(t)
    <3>1. Published' <=> Published
      BY <2>7, <1>ty, <1>me, <1>alone, <1>wk DEF SignalCount, Published, AckPcs,
        RetirePcs, Consumed, Walks
    <3>2. Asks
      BY <2>7, <1>ty, <1>me, <1>alone, <3>1, <1>wk DEF SignalCount, Asks, Asking,
        AckPcs, RetirePcs, Consumed, Walks
    <3>3. Pays(t)
      BY <2>7, <3>1 DEF SignalCount, Pays, Unpub
    <3> QED BY <3>2, <3>3
  <2>8. CASE SignalPoll(t)
    <3>0. Here \in Threads
      BY <2>8, <2>here DEF SignalPoll, Walked
    <3>1. Published' <=> Published
      BY <2>8, <1>ty, <1>me, <1>alone, <2>names, Woken, <3>0, <1>wk DEF SignalPoll,
        Published, AckPcs, RetirePcs, Consumed, Walks
    <3>2. Asks
      BY <2>8, <1>ty, <1>me, <1>alone, <3>1, <2>names, Woken, <3>0, <1>wk DEF
        SignalPoll, Asks, Asking, AckPcs, RetirePcs, Consumed, Walks
    <3>3. Pays(t)
      BY <2>8, <3>1 DEF SignalPoll, Pays, Unpub
    <3> QED BY <3>2, <3>3
  <2>9. CASE SignalDead(t)
    <3>1. Published' <=> Published
      BY <2>9, <1>ty, <1>me, <1>alone, <1>wk DEF SignalDead, Enter, PassOn,
        Published, AckPcs, RetirePcs, Consumed, Walks
    <3>2. Asks
      BY <2>9, <1>ty, <1>me, <1>alone, <3>1, <1>wk DEF SignalDead, Enter, PassOn,
        Asks, Asking, AckPcs, RetirePcs, Consumed, Walks
    <3>3. Pays(t)
      BY <2>9, <3>1 DEF SignalDead, Pays, Unpub
    <3> QED BY <3>2, <3>3
  <2>10. CASE Signaled(t)
    <3>1. Published' <=> Published
      BY <2>10, <1>ty, <1>me, <1>alone, <1>wk DEF Signaled, StartWalk, Published,
        AckPcs, RetirePcs, Consumed, Walks
    <3>2. Asks
      BY <2>10, <1>ty, <1>me, <1>alone, <3>1, <1>wk DEF Signaled, StartWalk, Asks,
        Asking, AckPcs, RetirePcs, Consumed, Walks
    <3>3. Pays(t)
      BY <2>10, <3>1 DEF Signaled, Pays, Unpub
    <3> QED BY <3>2, <3>3
  <2>11. CASE AckWalk(t)
    <3>1. Published' <=> Published
      BY <2>11, <1>ty, <1>me, <1>alone, <1>wk DEF AckWalk, Enter, PassOn, Published,
        AckPcs, RetirePcs, Consumed, Walks
    <3>2. Asks
      BY <2>11, <1>ty, <1>me, <1>alone, <3>1, <1>wk DEF AckWalk, Enter, PassOn,
        Asks, Asking, AckPcs, RetirePcs, Consumed, Walks
    <3>3. Pays(t)
      BY <2>11, <3>1 DEF AckWalk, Pays, Unpub
    <3> QED BY <3>2, <3>3
  <2>12. CASE AckWalked(t)
    <3>1. Published' <=> Published
      BY <2>12, <1>ty, <1>me, <1>alone, <1>wk DEF AckWalked, StartWalk, Published,
        AckPcs, RetirePcs, Consumed, Walks
    <3>2. Asks
      BY <2>12, <1>ty, <1>me, <1>alone, <3>1, <1>wk DEF AckWalked, StartWalk, Asks,
        Asking, AckPcs, RetirePcs, Consumed, Walks
    <3>3. Pays(t)
      BY <2>12, <3>1 DEF AckWalked, Pays, Unpub
    <3> QED BY <3>2, <3>3
  <2>13. CASE DropSentinel(t)
    <3>1. Published' <=> Published
      BY <2>13, <1>ty, <1>me, <1>alone, <1>wk DEF DropSentinel, Published, AckPcs,
        RetirePcs, Consumed, Walks
    <3>2. Asks
      BY <2>13, <1>ty, <1>me, <1>alone, <3>1, <1>wk DEF DropSentinel, Asks, Asking,
        AckPcs, RetirePcs, Consumed, Walks
    <3>3. Pays(t)
      BY <2>13, <3>1 DEF DropSentinel, Pays, Unpub
    <3> QED BY <3>2, <3>3
  <2>14. CASE LeaderWait(t)
    <3>1. Published' <=> Published
      BY <2>14, <1>ty, <1>me, <1>alone, <1>wk DEF LeaderWait, StartWalk, Published,
        AckPcs, RetirePcs, Consumed, Walks
    <3>2. Asks
      BY <2>14, <1>ty, <1>me, <1>alone, <3>1, <1>wk DEF LeaderWait, StartWalk, Asks,
        Asking, AckPcs, RetirePcs, Consumed, Walks
    <3>3. Pays(t)
      BY <2>14, <3>1 DEF LeaderWait, Pays, Unpub
    <3> QED BY <3>2, <3>3
  <2>15. CASE LeaderTail(t)
    <3>1. Published' <=> Published
      BY <2>15, <1>ty, <1>me, <1>alone, <1>wk DEF LeaderTail, StartWalk, Published,
        AckPcs, RetirePcs, Consumed, Walks
    <3>2. Asks
      BY <2>15, <1>ty, <1>me, <1>alone, <3>1, <1>wk DEF LeaderTail, StartWalk, Asks,
        Asking, AckPcs, RetirePcs, Consumed, Walks
    <3>3. Pays(t)
      BY <2>15, <3>1 DEF LeaderTail, Pays, Unpub
    <3> QED BY <3>2, <3>3
  <2>16. CASE ClearPoll(t)
    <3>0. Here \in Threads
      BY <2>16, <2>here DEF ClearPoll, Walked
    <3>1. Published' <=> Published
      BY <2>16, <1>ty, <1>me, <1>alone, <2>names, Woken, <3>0, <1>wk DEF ClearPoll,
        PassOn, Published, AckPcs, RetirePcs, Consumed, Walks
    <3>2. Asks
      BY <2>16, <1>ty, <1>me, <1>alone, <3>1, <2>names, Woken, <3>0, <1>wk DEF
        ClearPoll, PassOn, Asks, Asking, AckPcs, RetirePcs, Consumed, Walks
    <3>3. Pays(t)
      BY <2>16, <3>1 DEF ClearPoll, Pays, Unpub
    <3> QED BY <3>2, <3>3
  <2>17. CASE LeaderLeave(t)
    <3>1. leader = t /\ Published /\ ~Asking /\ leader' = 0 /\ walk'.stage = "first"
      BY <2>17, <1>ty, <1>me DEF LeaderLeave, NoWalk, Published, Asking, Walks
    <3>2. Asks
      BY <3>1 DEF Asks, Asking
    <3>3. Pays(t)
      BY <2>17, <1>ty, <3>1, <1>me DEF LeaderLeave, Pays, Unpub
    <3> QED BY <3>2, <3>3
  <2> QED BY <1>1, <2>1, <2>2, <2>3, <2>4, <2>5, <2>6, <2>7, <2>8, <2>9, <2>10,
    <2>11, <2>12, <2>13, <2>14, <2>15, <2>16, <2>17 DEF LeaderStep
<1>2. CASE ~LeaderStep(t)
  <2>1. leader' = leader /\ Writes(t)
    BY <1>2, WritesStep DEF Writes, LeaderStep
  <2>2. walk'.stage = walk.stage
    <3>1. walk' = walk \/ RetireClaim(t)
      BY <1>2, <2>1 DEF Writes
    <3> QED BY <3>1, <1>wk DEF RetireClaim
  <2>3. (Published' <=> Published) /\ (Asking' <=> Asking)
    <3>1. CASE leader = t
      <4>1. /\ pc[t] \notin TailPcs \cup {"h_prior", "h_pub"}
            /\ pc'[t] \notin TailPcs \cup {"h_prior", "h_pub"}
        BY <1>2, DepartsStep, ComesStep DEF Departs, Comes
      <4> QED BY <2>1, <2>2, <3>1, <4>1 DEF Published, Asking
    <3>2. CASE leader # t
      BY <2>1, <3>2, <1>alone
    <3> QED BY <3>1, <3>2
  <2>4. epoch' = epoch
    BY <1>2, <2>1 DEF Writes, LeaderStep
  <2>5. Pays(t)
    <3>1. CASE want' = want
      BY <2>1, <2>3, <2>4, <3>1 DEF Pays, Unpub
    <3>2. ASSUME NEW kind \in Kinds, Request(t, kind)
          PROVE  Pays(t)
      <4>1. want[t] = "none" /\ leader # t
        BY <3>2, <1>me DEF Request, Wants, AckPcs, RetirePcs
      <4>2. want'[t] # "none"
        BY <3>2, <1>ty, SafepointAssumption DEF Request
      <4> QED BY <3>2, <4>1, <4>2, <2>1, <2>4 DEF Request, Pays, Unpub
    <3> QED BY <1>2, <2>1, <3>1, <3>2 DEF Writes, LeaderStep
  <2> QED BY <2>2, <2>3, <2>5 DEF Asks
<1> QED BY <1>1, <1>2

(* Sets of threads are finite, and one that changes at x changes by one. *)
LEMMA ThreadsFinite ==
  /\ IsFiniteSet(Threads) /\ Cardinality(Threads) = N
  /\ \A S \in SUBSET Threads : /\ IsFiniteSet(S) /\ Cardinality(S) \in Nat
                               /\ Cardinality(S) <= N
<1>1. N \in Nat /\ 1 \in Int /\ N \in Int /\ ~(1 > N)
  BY SafepointAssumption
<1>2. IsFiniteSet(Threads) /\ Cardinality(Threads) = N
  BY <1>1, FS_Interval DEF Threads
<1>3. ASSUME NEW S \in SUBSET Threads
      PROVE  IsFiniteSet(S) /\ Cardinality(S) \in Nat /\ Cardinality(S) <= N
  BY <1>2, FS_Subset, FS_CardinalityType
<1> QED BY <1>2, <1>3

(* The cardinality of a set of threads moves by its one thread. *)
LEMMA CardChange ==
  ASSUME NEW S \in SUBSET Threads, NEW T \in SUBSET Threads, NEW x,
         S \ {x} = T \ {x}
  PROVE  /\ (x \in S <=> x \in T) => Cardinality(T) = Cardinality(S)
         /\ x \notin S /\ x \in T => Cardinality(T) = Cardinality(S) + 1
         /\ x \in S /\ x \notin T => Cardinality(T) = Cardinality(S) - 1
<1>1. IsFiniteSet(S) /\ IsFiniteSet(T) /\ Cardinality(S) \in Nat /\ Cardinality(T) \in Nat
  BY ThreadsFinite
<1>2. Cardinality(S \ {x}) = IF x \in S THEN Cardinality(S) - 1 ELSE Cardinality(S)
  BY <1>1, FS_RemoveElement
<1>3. Cardinality(T \ {x}) = IF x \in T THEN Cardinality(T) - 1 ELSE Cardinality(T)
  BY <1>1, FS_RemoveElement
<1>4. Cardinality(S \ {x}) = Cardinality(T \ {x})
  OBVIOUS
<1> QED BY <1>1, <1>2, <1>3, <1>4

(* No thread, no count. *)
LEMMA CardEmpty ==
  ASSUME NEW S \in SUBSET Threads
  PROVE  Cardinality(S) = 0 <=> S = {}
BY ThreadsFinite, FS_EmptySet

(* The leader's slot as a number. *)
Own == IF Holding THEN 1 ELSE 0

(* The sentinel slot as a number, *)
LEMMA SentinelIs ==
  ASSUME Types
  PROVE  Cardinality(Sentinel) = Own
<1>1. CASE Holding
  <2>1. Sentinel = {leader}
    BY <1>1 DEF Sentinel, Holding, Types
  <2>2. Cardinality({leader}) = 1
    BY FS_Singleton
  <2> QED BY <1>1, <2>1, <2>2 DEF Own
<1>2. CASE ~Holding
  <2>1. Sentinel = {}
    BY <1>2 DEF Sentinel, Holding, Types, Threads
  <2> QED BY <1>2, <2>1, FS_EmptySet DEF Own
<1> QED BY <1>1, <1>2

(* the threads that owe a slot as a set, *)
LEMMA OwingIs ==
  Owing \subseteq Threads /\ \A t \in Threads : t \in Owing <=> Owes(t)
BY DEF Owing, Owes, Consumed

Tally == pending = Own + Cardinality(Owing) + Cardinality(Reqs)

(* and the count as a sum of numbers. *)
LEMMA CountedIs == Types => (Counted <=> Tally)
BY SentinelIs DEF Counted, Tally

(* lj_safepoint_pending counts the sentinel, the requests and the debts, exactly. *)
LEMMA CountedStep ==
  ASSUME Shapes, Counted, Quiet, NEW t \in Threads, Moves(t)
  PROVE  Counted'
<1>ty. Types /\ Types'
  BY TypesStep DEF Shapes
<1>1. pending = Own + Cardinality(Owing) + Cardinality(Reqs)
  BY <1>ty, CountedIs DEF Tally
<1>2. Counted' <=> pending' = Own' + Cardinality(Owing') + Cardinality(Reqs')
  <2>1. Counted' <=> Tally'
    BY <1>ty, CountedIs, PTL
  <2> QED BY <2>1 DEF Tally
<1>3. /\ Owing \subseteq Threads /\ Owing' \subseteq Threads
      /\ Reqs \subseteq Threads /\ Reqs' \subseteq Threads
  BY DEF Owing, Reqs
<1>4. /\ Cardinality(Owing) \in Nat /\ Cardinality(Owing') \in Nat
      /\ Cardinality(Reqs) \in Nat /\ Cardinality(Reqs') \in Nat
      /\ Own \in {0, 1} /\ Own' \in {0, 1}
      /\ (Holding <=> Own = 1) /\ (Holding' <=> Own' = 1)
  BY <1>3, ThreadsFinite DEF Own
<1>5. Owing \ {t} = Owing' \ {t}
  <2>1. ASSUME NEW u \in Threads \ {t}
        PROVE  u \in Owing <=> u \in Owing'
    BY Bystanders DEF Same, Owing
  <2> QED BY <2>1, <1>3
<1>6. (t \in Owing <=> Owes(t)) /\ (t \in Owing' <=> Owes(t)')
  BY DEF Owing, Owes, Consumed
<1>7. /\ (Owes(t)' <=> Owes(t)) => Cardinality(Owing') = Cardinality(Owing)
      /\ ~Owes(t) /\ Owes(t)' => Cardinality(Owing') = Cardinality(Owing) + 1
      /\ Owes(t) /\ ~Owes(t)' => Cardinality(Owing') = Cardinality(Owing) - 1
  BY <1>3, <1>5, <1>6, CardChange
<1>8. /\ req \in [Threads -> Masks] /\ pending \in Int
      /\ req' = req => Cardinality(Reqs') = Cardinality(Reqs)
  BY <1>ty DEF Types, Reqs
<1>9. ASSUME NEW x \in Threads, NEW m \in Masks, req' = [req EXCEPT ![x] = m]
      PROVE  /\ req[x] # "none" /\ m = "none" =>
                  Cardinality(Reqs') = Cardinality(Reqs) - 1
             /\ req[x] = "none" /\ m # "none" =>
                  Cardinality(Reqs') = Cardinality(Reqs) + 1
  <2>1. Reqs \ {x} = Reqs' \ {x}
    BY <1>8, <1>9 DEF Reqs
  <2>2. (x \in Reqs <=> req[x] # "none") /\ (x \in Reqs' <=> m # "none")
    BY <1>8, <1>9 DEF Reqs
  <2> QED BY <1>3, <2>1, <2>2, CardChange
<1>10. CASE Idle(t)
  BY <1>10, <1>1, <1>2, <1>4, <1>7, <1>8 DEF Idle
<1>11. CASE Take(t)
  <2>1. PICK x \in Threads : req[x] # "none" /\ req' = [req EXCEPT ![x] = "none"]
    BY <1>11 DEF Take
  <2>2. Cardinality(Reqs') = Cardinality(Reqs) - 1
    BY <2>1, <1>9 DEF Masks
  <2> QED BY <1>11, <2>2, <1>1, <1>2, <1>4, <1>7, <1>8 DEF Take
<1>12. CASE PutBack(t)
  <2>1. PICK x \in Threads : \E m \in Masks :
          m # "none" /\ req[x] = "none" /\ req' = [req EXCEPT ![x] = m]
    BY <1>12 DEF PutBack
  <2>2. Cardinality(Reqs') = Cardinality(Reqs) + 1
    BY <2>1, <1>9
  <2> QED BY <1>12, <2>2, <1>1, <1>2, <1>4, <1>7, <1>8 DEF PutBack
<1>13. CASE Drop(t)
  BY <1>13, <1>1, <1>2, <1>4, <1>7, <1>8 DEF Drop
<1>14. CASE Count(t)
  <2>1. PICK x \in Threads : \E m \in Masks :
          m # "none" /\ req[x] = "none" /\ req' = [req EXCEPT ![x] = m]
    BY <1>14 DEF Count
  <2>2. Cardinality(Reqs') = Cardinality(Reqs) + 1
    BY <2>1, <1>9
  <2>3. /\ pending' = pending + 1 /\ Own' = Own
        /\ Cardinality(Owing') = Cardinality(Owing)
    BY <1>14, <1>4, <1>7 DEF Count, Own
  <2> QED BY <2>2, <2>3, <1>1, <1>2, <1>4, <1>8
<1>15. CASE Open(t)
  <2>1. pending = 0
    BY <1>15 DEF Open, Quiet, Published
  <2>2. /\ pending' = 1 /\ Own' = 1 /\ Cardinality(Owing') = Cardinality(Owing)
        /\ Cardinality(Reqs') = Cardinality(Reqs)
    BY <1>15, <1>4, <1>7, <1>8 DEF Open
  <2> QED BY <2>1, <2>2, <1>1, <1>2, <1>4
<1>16. CASE Close(t)
  <2>1. /\ pending' = pending - 1 /\ Own = 1 /\ Own' = 0
        /\ Cardinality(Owing') = Cardinality(Owing)
        /\ Cardinality(Reqs') = Cardinality(Reqs)
    BY <1>16, <1>4, <1>7, <1>8 DEF Close
  <2> QED BY <2>1, <1>1, <1>2, <1>4
<1> QED BY TransferStep, <1>10, <1>11, <1>12, <1>13, <1>14, <1>15, <1>16 DEF Transfer

(* With the counter at zero nothing is out. *)
LEMMA Empty ==
  ASSUME Types, Counted, pending = 0
  PROVE  ~Holding /\ \A t \in Threads : req[t] = "none" /\ ~Owes(t)
<1>1. 0 = Own + Cardinality(Owing) + Cardinality(Reqs)
  BY CountedIs DEF Tally
<1>2. Owing \in SUBSET Threads /\ Reqs \in SUBSET Threads
  BY DEF Owing, Reqs
<1>3. Own = 0 /\ Cardinality(Owing) = 0 /\ Cardinality(Reqs) = 0
  <2>1. Cardinality(Owing) \in Nat /\ Cardinality(Reqs) \in Nat /\ Own \in {0, 1}
    BY <1>2, ThreadsFinite DEF Own
  <2> QED BY <1>1, <2>1
<1>4. Owing = {} /\ Reqs = {} /\ ~Holding
  BY <1>2, <1>3, CardEmpty DEF Own
<1> QED BY <1>4, OwingIs DEF Reqs

(* No slot is out before the publication and in the tail. *)
LEMMA QuietStep ==
  ASSUME Shapes, Counted, Quiet, NEW t \in Threads, Moves(t)
  PROVE  Quiet'
<1>ty. Types
  BY DEF Shapes
<1>a. Asks
  BY AsksStep
<1>q. ~Asking => pending = 0
  BY DEF Quiet, Asking
<1>1. ASSUME ~Asking, ~Asking'
      PROVE  pending' = 0
  <2>1. pending = 0 /\ ~Holding /\ \A u \in Threads : req[u] = "none" /\ ~Owes(u)
    BY <1>1, <1>q, <1>ty, Empty
  <2>2. ~Count(t)
    <3>1. SUFFICES ASSUME pc[t] = "sig_count" PROVE FALSE
      BY DEF Count
    <3>2. leader = t /\ Walks(t) /\ leader # 0
      BY <3>1 DEF Shapes, Roles, Leads, LeaderPcs, Threads
    <3> QED BY <1>1, <3>1, <3>2 DEF Walks, Visiting, Asking, Published, TailPcs
  <2>3. ~Open(t)
    <3>1. SUFFICES ASSUME leader' = t, pc'[t] = "sig", walk'.stage = "first" PROVE FALSE
      BY DEF Open
    <3>2. t # 0
      BY DEF Threads
    <3> QED BY <1>1, <3>1, <3>2 DEF Asking, Published, TailPcs
  <2>4. Idle(t) \/ Take(t) \/ PutBack(t) \/ Drop(t) \/ Close(t)
    BY <2>2, <2>3, TransferStep DEF Transfer
  <2> QED BY <2>1, <2>4 DEF Idle, Take, PutBack, Drop, Close
<1>2. ~Asking' => pending' = 0
  BY <1>1, <1>a DEF Asks
<1>3. walk'.stage # "prior"
  BY <1>a, <1>q DEF Asks, Quiet
<1> QED BY <1>2, <1>3 DEF Quiet, Asking

(* An epoch published was asked for, once. *)
LEMMA BudgetStep ==
  ASSUME Shapes, Budget, NEW t \in Threads, Moves(t)
  PROVE  Budget'
<1>ty. epoch \in Nat /\ epoch' \in Nat /\ MaxEpoch \in Nat
  BY TypesStep, SafepointAssumption DEF Shapes, Types
<1>1. /\ Unpublished \in SUBSET Threads /\ Unpublished' \in SUBSET Threads
      /\ {u \in Threads : want[u] # "none"} \in SUBSET Threads
  BY DEF Unpublished
<1>2. ASSUME NEW u \in Threads \ {t}
      PROVE  Unpub(u)' <=> Unpub(u)
  <2>1. want'[u] = want[u]
    BY Bystanders DEF Same
  <2>2. CASE leader = t
    BY <2>1, <2>2, WordsStep DEF Words, Unpub, Threads
  <2>3. CASE leader # t
    BY <2>1, <2>3, WordsStep, PublishedAlone DEF Words, Unpub, Published
  <2> QED BY <2>2, <2>3
<1>3. \A u \in Threads : (u \in Unpublished <=> Unpub(u)) /\ (u \in Unpublished' <=> Unpub(u)')
  BY DEF Unpublished, Unpub
<1>4. Unpublished \ {t} = Unpublished' \ {t}
  BY <1>1, <1>2, <1>3
<1>5. /\ (Unpub(t)' <=> Unpub(t)) => Cardinality(Unpublished') = Cardinality(Unpublished)
      /\ ~Unpub(t) /\ Unpub(t)' =>
           Cardinality(Unpublished') = Cardinality(Unpublished) + 1
      /\ Unpub(t) /\ ~Unpub(t)' =>
           Cardinality(Unpublished') = Cardinality(Unpublished) - 1
  BY <1>1, <1>3, <1>4, CardChange
<1>6. Cardinality(Unpublished) <= Cardinality({u \in Threads : want[u] # "none"})
  <2>1. Unpublished \in SUBSET {u \in Threads : want[u] # "none"}
    BY DEF Unpublished
  <2> QED BY <1>1, <2>1, ThreadsFinite, FS_Subset
<1>7. /\ Cardinality(Unpublished) \in Nat /\ Cardinality(Unpublished') \in Nat
      /\ Cardinality({u \in Threads : want[u] # "none"}) \in Nat
  BY <1>1, ThreadsFinite
<1>8. Pays(t)
  BY AsksStep
<1> QED BY <1>ty, <1>5, <1>6, <1>7, <1>8 DEF Budget, Pays

-----------------------------------------------------------------------------
(* Nobody's frame is about a thread that is not linked. *)
LEMMA TargetLinked ==
  ASSUME Shapes, NEW t \in Threads, pc[t] \in AckPcs \cup RetirePcs
  PROVE  fr[t].tgt \in linked /\ fr[t].tgt \in Threads
<1>1. Shape(t) /\ Roles(t) /\ linked \subseteq Threads
  BY DEF Shapes, Types
<1>2. CASE pc[t] \in AckPcs
  BY <1>1, <1>2 DEF Shape, Roles, Catching, AckPcs
<1>3. CASE pc[t] \in RetirePcs
  <2>1. fr[t].tgt \in dead /\ fr[t].tgt \in Threads
    BY <1>1, <1>3 DEF Shape, Shapes, Types
  <2>2. Roles(fr[t].tgt)
    BY <2>1 DEF Shapes
  <2> QED BY <2>1, <2>2 DEF Roles, Catching, RetirePcs
<1> QED BY <1>2, <1>3

(* What a step writes to the frame of its thread, *)
FrameWrites(t) ==
  \/ fr' = fr \/ fr' = [fr EXCEPT ![t] = NoFrame]
  \/ AckXchg(t) \/ AckEpoch(t) \/ AckDone(t) \/ RetireXchg(t)
  \/ AttachEpoch(t) \/ AttachPending(t)
  \/ PollStart(t) \/ ClaimPoll(t) \/ NativeLeave(t) \/ DetachPoll(t) \/ DetachDead(t)
  \/ AttachBoundary(t) \/ HelpSelf(t) \/ SignalDead(t) \/ AckWalk(t)

(* by the text of the actions, *)
LEMMA FrameWritesStep ==
  ASSUME NEW t \in Threads, Moves(t)
  PROVE  FrameWrites(t)
<1>1. ASSUME PollStart(t) \/ NativeEnter(t) \/ NativeLeave(t) \/ Detach(t) \/
  AttachPhase(t) \/ ClaimPoll(t) \/ RemoteScanRefused(t) \/ Poll(t) \/ PollReq(t)
      PROVE  FrameWrites(t)
  BY <1>1 DEF PollStart, NativeEnter, NativeLeave, Detach, AttachPhase, ClaimPoll,
    RemoteScanRefused, Poll, PollReq, Enter, Return, FrameWrites
<1>2. ASSUME NEW kind \in Kinds, Request(t, kind)
      PROVE  FrameWrites(t)
  BY <1>2 DEF Request, Enter, Return, FrameWrites
<1>3. CASE AckStep(t)
  BY <1>3 DEF AckStep, AckXchg, AckNothing, AckEpoch, RemoteScan, AckClaim,
    AckApply, AckDone, AckClear, AckRestore, AckSub, WaitLoad, WaitReq,
    WaitFutex, Enter, Return, FrameWrites
<1>4. CASE RetireStep(t)
  BY <1>4 DEF RetireStep, RetireXchg, RetireClear, RetireClaim, RetireSub,
    DetachPoll, DetachNative, DetachDead, Enter, Return, FrameWrites
<1>5. CASE AttachStep(t)
  BY <1>5 DEF AttachStep, AttachEpoch, AttachPending, AttachApply, AttachHold,
    AttachLink, AttachBoundary, Enter, Return, FrameWrites
<1>6. CASE LeaderStep(t)
  BY <1>6 DEF LeaderStep, LeaderEnter, HelpSelf, LeaderPrior, LeaderPublish,
    Signal, SignalReq, SignalCount, SignalPoll, SignalDead, Signaled, AckWalk,
    AckWalked, DropSentinel, LeaderWait, LeaderTail, ClearPoll, LeaderLeave,
    Enter, Return, FrameWrites
<1> QED BY <1>1, <1>2, <1>3, <1>4, <1>5, <1>6 DEF Moves, CallStep

(* and so the epoch in it is the one that was read, or none. *)
LEMMA EpochsStep ==
  ASSUME Shapes, NEW t \in Threads, Moves(t)
  PROVE  fr'[t].epoch = fr[t].epoch \/ fr'[t].epoch = epoch \/ fr'[t].epoch = 0
<1>ty. fr \in [Threads -> Frames] /\ fr[t] \in Frames
  BY DEF Shapes, Types
<1>1. CASE AckXchg(t)
  BY <1>1, <1>ty DEF AckXchg, Frames
<1>2. CASE AckEpoch(t)
  BY <1>2, <1>ty DEF AckEpoch, Frames
<1>3. CASE AckDone(t)
  BY <1>3, <1>ty DEF AckDone, Frames
<1>4. CASE RetireXchg(t)
  BY <1>4, <1>ty DEF RetireXchg, Frames
<1>5. CASE AttachEpoch(t)
  BY <1>5, <1>ty DEF AttachEpoch, Frames
<1>6. CASE AttachPending(t)
  BY <1>6, <1>ty DEF AttachPending, Frames
<1>7. CASE PollStart(t)
  BY <1>7, <1>ty DEF PollStart, Enter, AckFrame, NoFrame
<1>8. CASE NativeLeave(t)
  BY <1>8, <1>ty DEF NativeLeave, Enter, AckFrame, NoFrame
<1>9. CASE DetachPoll(t)
  <2>1. fr' = fr \/ fr' = [fr EXCEPT ![t] = AckFrame(t, FALSE, TRUE, "d_native")]
    BY <1>9 DEF DetachPoll, Enter
  <2> QED BY <2>1, <1>ty DEF AckFrame, NoFrame
<1>10. CASE DetachDead(t)
  BY <1>10, <1>ty DEF DetachDead, Enter, AckFrame, NoFrame
<1>11. CASE AttachBoundary(t)
  BY <1>11, <1>ty DEF AttachBoundary, Enter, AckFrame, NoFrame
<1>12. CASE HelpSelf(t)
  BY <1>12, <1>ty DEF HelpSelf, Enter, AckFrame, NoFrame
<1>13. CASE SignalDead(t)
  BY <1>13, <1>ty DEF SignalDead, Enter, AckFrame, NoFrame
<1>14. CASE AckWalk(t)
  <2>1. fr' = fr \/ fr' = [fr EXCEPT ![t] = AckFrame(Here, Here # t, FALSE, "acks")]
    BY <1>14 DEF AckWalk, Enter
  <2> QED BY <2>1, <1>ty DEF AckFrame, NoFrame
<1>15. CASE fr' = fr \/ fr' = [fr EXCEPT ![t] = NoFrame]
  BY <1>15, <1>ty DEF NoFrame
<1>16. CASE ClaimPoll(t)
  BY <1>16, <1>ty DEF ClaimPoll, Enter, AckFrame, NoFrame
<1> QED BY FrameWritesStep, <1>1, <1>2, <1>3, <1>4, <1>5, <1>6, <1>7, <1>8,
  <1>9, <1>10, <1>11, <1>12, <1>13, <1>14, <1>15, <1>16 DEF FrameWrites

(* What a step that publishes nothing keeps of the epoch. *)
Keeps(t) ==
  /\ epoch' = epoch /\ actions' = actions
  /\ \A x \in Threads : req'[x] \in {req[x], "none", actions}
  /\ \A x \in Threads : ack'[x] <= epoch
  /\ (pc'[t] \in Consumed => fr'[t].acts = actions)
  /\ (pc'[t] \in EpochRead => fr'[t].epoch = epoch)
  /\ fr'[t].epoch <= epoch
  /\ leader = t /\ leader' = t => want'[t] = want[t]

(* A step publishes a new epoch, or stays within the one that is published. *)
LEMMA KeepsStep ==
  ASSUME Shapes, Current, NEW t \in Threads, Moves(t)
  PROVE  LeaderPublish(t) \/ Keeps(t)
<1> SUFFICES ASSUME ~LeaderPublish(t)
             PROVE  Keeps(t)
  OBVIOUS
<1>ty. /\ pc \in [Threads -> PCs] /\ fr \in [Threads -> Frames] /\ epoch \in Nat
       /\ req \in [Threads -> Masks] /\ ack \in [Threads -> Nat]
  BY DEF Shapes, Types
<1>me. Shape(t) /\ Roles(t)
  BY DEF Shapes
<1>fits. /\ pc[t] \in Consumed => fr[t].acts = actions
         /\ pc[t] \in EpochRead => fr[t].epoch = epoch
         /\ fr[t].epoch <= epoch
         /\ \A x \in Threads : req[x] \in {"none", actions} /\ ack[x] <= epoch
  BY DEF Current, Fits
<1>1. epoch' = epoch /\ actions' = actions
  BY WritesStep DEF Writes
<1>2. \A x \in Threads : req'[x] \in {req[x], "none", actions}
  <2>1. CASE AckXchg(t)
    BY <2>1, <1>ty DEF AckXchg
  <2>2. CASE RetireXchg(t)
    BY <2>2, <1>ty DEF RetireXchg
  <2>3. CASE SignalCount(t)
    <3>1. leader = t /\ pc[t] = "sig_count"
      BY <2>3, <1>me DEF SignalCount, At, Roles, Leads, LeaderPcs
    <3>2. Published
      BY <3>1 DEF Shapes, Walks, Visiting, Published, Threads
    <3>3. want[t] = actions
      BY <3>1, <3>2 DEF Current
    <3> QED BY <2>3, <3>3, <1>ty DEF SignalCount
  <2>4. CASE RemoteScanRefused(t)
    <3>1. fr[t].acts = actions
      BY <2>4, <1>fits DEF RemoteScanRefused, At, Consumed
    <3> QED BY <2>4, <3>1, <1>ty DEF RemoteScanRefused
  <2> QED BY <2>1, <2>2, <2>3, <2>4, WritesStep DEF Writes
<1>3. \A x \in Threads : ack'[x] <= epoch
  <2>1. CASE AckClaim(t)
    <3>1. fr[t].epoch = epoch
      BY <2>1, <1>fits DEF AckClaim, At, EpochRead, Consumed
    <3>2. ack' = [ack EXCEPT ![fr[t].tgt] = epoch]
      BY <2>1, <3>1 DEF AckClaim
    <3> QED BY <3>2, <1>fits, <1>ty
  <2>2. CASE RetireClaim(t)
    BY <2>2, <1>fits, <1>ty DEF RetireClaim
  <2>3. CASE AttachPending(t)
    BY <2>3, <1>fits, <1>ty DEF AttachPending
  <2> QED BY <1>fits, <2>1, <2>2, <2>3, WritesStep DEF Writes
<1>4. /\ pc'[t] \in Consumed => fr'[t].acts = actions
      /\ pc'[t] \in EpochRead => fr'[t].epoch = epoch
  <2> SUFFICES ASSUME pc'[t] \in Consumed
               PROVE  fr'[t].acts = actions /\ (pc'[t] \in EpochRead => fr'[t].epoch = epoch)
    BY DEF EpochRead
  <2>1. AckStep(t)
    BY ComesStep DEF Comes
  <2>2. CASE AckXchg(t)
    <3>1. pc[t] = "k_xchg" /\ fr[t].tgt \in Threads
      BY <2>2, <1>me, TargetLinked DEF AckXchg, At, AckPcs
    <3>2. pc'[t] = "k_epoch" /\ req[fr[t].tgt] # "none"
      BY <2>2, <1>ty DEF AckXchg, Goto, Consumed
    <3>3. fr'[t].acts = req[fr[t].tgt]
      BY <2>2, <1>ty DEF AckXchg
    <3> QED BY <3>1, <3>2, <3>3, <1>fits DEF EpochRead
  <2>3. CASE AckEpoch(t)
    <3>1. fr'[t].epoch = epoch /\ fr'[t].acts = fr[t].acts
      BY <2>3, <1>ty DEF AckEpoch
    <3> QED BY <2>3, <3>1, <1>fits DEF AckEpoch, At, Consumed
  <2>4. CASE AckDone(t)
    <3>1. fr'[t].epoch = fr[t].epoch /\ fr'[t].acts = fr[t].acts
      BY <2>4, <1>ty DEF AckDone
    <3> QED BY <2>4, <3>1, <1>fits DEF AckDone, At, Consumed, EpochRead
  <2>5. CASE RemoteScan(t) \/ AckClaim(t) \/ AckApply(t) \/ AckClear(t) \/ AckRestore(t)
    <3>1. pc[t] \in EpochRead /\ fr' = fr
      BY <2>5 DEF RemoteScan, AckClaim, AckApply, AckClear, AckRestore, At, EpochRead, Consumed
    <3> QED BY <3>1, <1>fits DEF EpochRead
  <2>6. CASE AckNothing(t) \/ AckSub(t) \/ WaitLoad(t) \/ WaitReq(t) \/ WaitFutex(t)
    BY <2>6, <1>ty, <1>me DEF AckNothing, AckSub, WaitLoad, WaitReq, WaitFutex, At, Goto,
       Return, Enter, Shape, AckPcs, Consumed
  <2> QED BY <2>1, <2>2, <2>3, <2>4, <2>5, <2>6 DEF AckStep
<1>5. fr'[t].epoch <= epoch
  <2>1. 0 <= epoch /\ epoch <= epoch
    BY <1>ty
  <2>2. CASE fr'[t].epoch = 0
    BY <2>1, <2>2
  <2>3. CASE fr'[t].epoch = fr[t].epoch
    BY <2>3, <1>fits
  <2> QED BY <2>1, <2>2, <2>3, EpochsStep
<1>6. leader = t /\ leader' = t => want'[t] = want[t]
  <2>1. ASSUME NEW kind \in Kinds, Request(t, kind)
        PROVE  leader # t
    BY <2>1, <1>me DEF Request, At, Roles, Leads, LeaderPcs, TailPcs, AckPcs, RetirePcs
  <2>2. LeaderLeave(t) => leader' # t
    BY DEF LeaderLeave, Threads
  <2> QED BY <2>1, <2>2, WritesStep DEF Writes
<1> QED BY <1>1, <1>2, <1>3, <1>4, <1>5, <1>6 DEF Keeps

(* The invariant of the words: all that is out belongs to the epoch. *)
LEMMA CurrentStep ==
  ASSUME Shapes, Counted, Quiet, Current, NEW t \in Threads, Moves(t)
  PROVE  Current'
<1>ty. Types /\ Types'
  BY TypesStep DEF Shapes
<1>1. CASE LeaderPublish(t)
  <2>1. pending = 0 /\ leader = t
    BY <1>1 DEF LeaderPublish, At, Quiet, Published, Shapes, Roles, Leads, LeaderPcs
  <2>2. \A u \in Threads : req[u] = "none" /\ ~Owes(u)
    BY <1>ty, <2>1, Empty
  <2>3. /\ req' = req /\ ack' = ack /\ fr' = fr /\ want' = want /\ leader' = t
        /\ epoch' = epoch + 1 /\ actions' = want[t]
    BY <1>1, <2>1 DEF LeaderPublish, tg
  <2>4. ASSUME NEW u \in Threads
        PROVE  pc'[u] \notin Consumed
    <3>1. pc[u] \notin Consumed
      BY <2>2 DEF Owes
    <3>2. pc'[u] = pc[u] \/ pc'[u] = "sig"
      BY <1>1, <1>ty DEF LeaderPublish, StartWalk, Goto, Types
    <3> QED BY <3>1, <3>2 DEF Consumed
  <2>5. epoch \in Nat /\ \A u \in Threads : ack[u] \in Nat /\ fr[u].epoch \in Nat
    BY <1>ty, FrameFields DEF Types
  <2>6. ASSUME NEW u \in Threads
        PROVE  Fits(u)' /\ ack'[u] <= epoch'
    <3>1. fr[u].epoch <= epoch
      BY DEF Current, Fits
    <3>2. fr'[u].epoch <= epoch'
      BY <3>1, <2>3, <2>5
    <3>3. pc'[u] \notin Consumed /\ pc'[u] \notin EpochRead
      BY <2>4 DEF EpochRead
    <3>4. ack'[u] <= epoch'
      BY <2>3, <2>5 DEF Current
    <3> QED BY <3>2, <3>3, <3>4 DEF Fits
  <2> QED BY <2>2, <2>3, <2>6 DEF Current
<1>2. CASE Keeps(t)
  <2>1. ASSUME NEW u \in Threads
        PROVE  Fits(u)'
    <3>1. CASE u = t
      BY <1>2, <3>1 DEF Keeps, Fits
    <3>2. CASE u # t
      <4>1. Same(u) /\ Fits(u)
        BY <3>2, Bystanders DEF Current
      <4>2. fr'[u] = fr[u] /\ epoch' = epoch /\ actions' = actions
        BY <4>1, <1>2 DEF Same, Keeps
      <4>3. pc'[u] = pc[u] \/ pc'[u] = "w_load"
        BY <4>1 DEF Same
      <4>4. CASE pc'[u] = pc[u]
        BY <4>1, <4>2, <4>4 DEF Fits
      <4>5. CASE pc'[u] = "w_load"
        BY <4>1, <4>2, <4>5 DEF Fits, Consumed, EpochRead
      <4> QED BY <4>3, <4>4, <4>5
    <3> QED BY <3>1, <3>2
  <2>2. ASSUME Published'
        PROVE  actions' = want'[leader']
    <3>1. CASE ~Published
      BY <2>2, <3>1, AsksStep DEF Asks
    <3>2. CASE Published
      <4>1. leader' = leader /\ leader \in Threads
        BY <2>2, <3>2, <1>ty, WordsStep DEF Words, Published, Types
      <4>2. want'[leader] = want[leader]
        BY <4>1, <1>2, Bystanders DEF Keeps, Same
      <4> QED BY <3>2, <4>1, <4>2, <1>2 DEF Keeps, Current
    <3> QED BY <3>1, <3>2
  <2>3. \A x \in Threads : req'[x] \in {"none", actions'} /\ ack'[x] <= epoch'
    <3>1. ASSUME NEW x \in Threads
          PROVE  req'[x] \in {"none", actions'}
      BY <1>2 DEF Keeps, Current
    <3>2. ASSUME NEW x \in Threads
          PROVE  ack'[x] <= epoch'
      BY <1>2 DEF Keeps
    <3> QED BY <3>1, <3>2
  <2> QED BY <2>1, <2>2, <2>3 DEF Current
<1> QED BY <1>1, <1>2, KeepsStep

-----------------------------------------------------------------------------
(* The publication is the leader's, and all else happens before the next. *)
LEMMA PublishedBefore ==
  ASSUME Shapes, Current, NEW t \in Threads, Moves(t), ~LeaderPublish(t), Published'
  PROVE  Published /\ leader' = leader /\ leader \in Threads
<1>ty. epoch \in Nat /\ leader \in Threads \cup {0}
  BY DEF Shapes, Types
<1>1. epoch' = epoch
  BY KeepsStep DEF Keeps
<1>2. Published
  BY <1>ty, <1>1, AsksStep DEF Asks
<1>3. leader # 0 /\ leader' # 0
  BY <1>2 DEF Published
<1> QED BY <1>ty, <1>2, <1>3, WordsStep DEF Words

(* What another thread is at is what it was at before the step of t. *)
LEMMA PcBefore ==
  ASSUME Shapes, NEW t \in Threads, Moves(t), NEW u \in Threads \ {t}
  PROVE  fr'[u] = fr[u] /\ (pc'[u] = pc[u] \/ (pc[u] = "asleep" /\ pc'[u] = "w_load"))
BY Bystanders DEF Same

(* A thread owes a slot for the target it had a frame for. *)
LEMMA OwesStep ==
  ASSUME Shapes, NEW t \in Threads, Moves(t), Owes(t)'
  PROVE  fr'[t].tgt = fr[t].tgt /\ (Owes(t) \/ req[fr[t].tgt] # "none")
<1>sh. Types
  BY DEF Shapes
<1>ty. /\ pc \in [Threads -> PCs] /\ fr \in [Threads -> Frames]
       /\ want \in [Threads -> Masks] /\ native \in [Threads -> BOOLEAN]
  BY <1>sh DEF Types
<1>fr. fr[t].ret \in PCs
  BY <1>ty, FrameFields
<1>tgt. pc[t] \in Consumed \cup {"k_xchg", "k_none", "q_xchg", "q_clear", "q_claim"}
          => fr[t].tgt \in Threads
  BY <1>sh DEF Shapes, Types, Shape, AckPcs, RetirePcs, Consumed
<1>here. /\ walk.todo # {} => Here \in walk.todo /\ Here \in Threads
         /\ At(t, "sig_req") \/ At(t, "sig_count") \/ At(t, "sig_poll")
              \/ At(t, "sig_dead") => walk.todo # {}
  BY <1>sh, HereIn DEF At, Types, Shapes, Roles, Leads, Walks, Visiting, LeaderPcs
<1>names. /\ "k_sub" \in PCs /\ "k_fix" \in PCs /\ "q_claim" \in PCs
          /\ "sig_dead" \in PCs /\ "t_clear" \in PCs
  BY DEF PCs, AckPcs, RetirePcs, LeaderPcs, TailPcs
<1>me. Shape(t)
  BY <1>sh DEF Shapes
<1>1. AckStep(t) \/ RetireStep(t)
  BY ComesStep DEF Comes, Owes
<1>2. CASE AckStep(t)

  <2>1. ASSUME AckXchg(t), Owes(t)'
        PROVE  fr'[t].tgt = fr[t].tgt /\ (Owes(t) \/ req[fr[t].tgt] # "none")
    BY <2>1, <1>ty DEF AckXchg, Goto, At, Owes, Consumed
  <2>2. ASSUME AckNothing(t), Owes(t)'
        PROVE  fr'[t].tgt = fr[t].tgt /\ (Owes(t) \/ req[fr[t].tgt] # "none")
    BY <2>2, <1>ty, <1>me, <1>fr DEF AckNothing, Goto, Return, Enter, Shape,
      AckPcs, RetirePcs, At, Owes, Consumed
  <2>3. ASSUME AckEpoch(t), Owes(t)'
        PROVE  fr'[t].tgt = fr[t].tgt /\ (Owes(t) \/ req[fr[t].tgt] # "none")
    BY <2>3, <1>ty DEF AckEpoch, Goto, At, Owes, Consumed
  <2>4. ASSUME RemoteScan(t), Owes(t)'
        PROVE  fr'[t].tgt = fr[t].tgt /\ (Owes(t) \/ req[fr[t].tgt] # "none")
    BY <2>4, <1>ty DEF RemoteScan, Goto, At, Owes, Consumed
  <2>5. ASSUME AckClaim(t), Owes(t)'
        PROVE  fr'[t].tgt = fr[t].tgt /\ (Owes(t) \/ req[fr[t].tgt] # "none")
    BY <2>5, <1>ty DEF AckClaim, Goto, At, Owes, Consumed
  <2>6. ASSUME AckApply(t), Owes(t)'
        PROVE  fr'[t].tgt = fr[t].tgt /\ (Owes(t) \/ req[fr[t].tgt] # "none")
    BY <2>6, <1>ty DEF AckApply, Goto, At, Owes, Consumed
  <2>7. ASSUME AckDone(t), Owes(t)'
        PROVE  fr'[t].tgt = fr[t].tgt /\ (Owes(t) \/ req[fr[t].tgt] # "none")
    <3>0. fr[t].tgt \in Threads
      BY <2>7, <1>tgt DEF AckDone, At, Consumed
    <3> QED BY <2>7, <1>ty, <1>names, Woken, <3>0 DEF AckDone, Goto, At, Owes,
      Consumed
  <2>8. ASSUME AckClear(t), Owes(t)'
        PROVE  fr'[t].tgt = fr[t].tgt /\ (Owes(t) \/ req[fr[t].tgt] # "none")
    <3>0. fr[t].tgt \in Threads
      BY <2>8, <1>tgt DEF AckClear, At, Consumed
    <3> QED BY <2>8, <1>ty, <1>names, Woken, <3>0 DEF AckClear, Goto, At, Owes,
      Consumed
  <2>9. ASSUME AckRestore(t), Owes(t)'
        PROVE  fr'[t].tgt = fr[t].tgt /\ (Owes(t) \/ req[fr[t].tgt] # "none")
    <3>0. fr[t].tgt \in Threads
      BY <2>9, <1>tgt DEF AckRestore, At, Consumed
    <3> QED BY <2>9, <1>ty, <1>names, Woken, <3>0 DEF AckRestore, Goto, At, Owes,
      Consumed
  <2>10. ASSUME AckSub(t), Owes(t)'
        PROVE  fr'[t].tgt = fr[t].tgt /\ (Owes(t) \/ req[fr[t].tgt] # "none")
    BY <2>10, <1>ty, <1>me, <1>fr DEF AckSub, Goto, Return, Enter, Shape,
      AckPcs, RetirePcs, At, Owes, Consumed
  <2>11. ASSUME WaitLoad(t), Owes(t)'
        PROVE  fr'[t].tgt = fr[t].tgt /\ (Owes(t) \/ req[fr[t].tgt] # "none")
    BY <2>11, <1>ty, <1>me, <1>fr DEF WaitLoad, Goto, Return, Enter, Shape,
      AckPcs, RetirePcs, At, Owes, Consumed
  <2>12. ASSUME WaitReq(t), Owes(t)'
        PROVE  fr'[t].tgt = fr[t].tgt /\ (Owes(t) \/ req[fr[t].tgt] # "none")
    BY <2>12, <1>ty DEF WaitReq, Goto, At, Owes, Consumed
  <2>13. ASSUME WaitFutex(t), Owes(t)'
        PROVE  fr'[t].tgt = fr[t].tgt /\ (Owes(t) \/ req[fr[t].tgt] # "none")
    BY <2>13, <1>ty DEF WaitFutex, Goto, At, Owes, Consumed
  <2> QED BY <1>2, <2>1, <2>2, <2>3, <2>4, <2>5, <2>6, <2>7, <2>8, <2>9,
    <2>10, <2>11, <2>12, <2>13 DEF AckStep
<1>3. CASE RetireStep(t)
  <2>1. ASSUME RetireXchg(t), Owes(t)'
        PROVE  fr'[t].tgt = fr[t].tgt /\ (Owes(t) \/ req[fr[t].tgt] # "none")
    BY <2>1, <1>ty DEF RetireXchg, Goto, At, Owes, Consumed
  <2>2. ASSUME RetireClear(t), Owes(t)'
        PROVE  fr'[t].tgt = fr[t].tgt /\ (Owes(t) \/ req[fr[t].tgt] # "none")
    <3>0. fr[t].tgt \in Threads
      BY <2>2, <1>tgt DEF RetireClear, At, Consumed
    <3> QED BY <2>2, <1>ty, <1>names, Woken, <3>0, <1>me, <1>fr DEF RetireClear, Goto,
      Shape, AckPcs, RetirePcs, At, Owes, Consumed
  <2>3. ASSUME RetireClaim(t), Owes(t)'
        PROVE  fr'[t].tgt = fr[t].tgt /\ (Owes(t) \/ req[fr[t].tgt] # "none")
    BY <2>3, <1>ty DEF RetireClaim, Goto, At, Owes, Consumed
  <2>4. ASSUME RetireSub(t), Owes(t)'
        PROVE  fr'[t].tgt = fr[t].tgt /\ (Owes(t) \/ req[fr[t].tgt] # "none")
    BY <2>4, <1>ty, <1>me, <1>fr DEF RetireSub, Return, Goto, Enter, Shape,
      AckPcs, RetirePcs, At, Owes, Consumed
  <2>5. ASSUME DetachPoll(t), Owes(t)'
        PROVE  fr'[t].tgt = fr[t].tgt /\ (Owes(t) \/ req[fr[t].tgt] # "none")
    BY <2>5, <1>ty DEF DetachPoll, Goto, Enter, At, Owes, Consumed
  <2>6. ASSUME DetachDead(t), Owes(t)'
        PROVE  fr'[t].tgt = fr[t].tgt /\ (Owes(t) \/ req[fr[t].tgt] # "none")
    BY <2>6, <1>ty DEF DetachDead, Enter, Goto, At, Owes, Consumed
  <2>7. ASSUME DetachNative(t), Owes(t)'
        PROVE  fr'[t].tgt = fr[t].tgt /\ (Owes(t) \/ req[fr[t].tgt] # "none")
    BY <2>7, <1>ty DEF DetachNative, Goto, At, Owes, Consumed
  <2> QED BY <1>3, <2>1, <2>2, <2>3, <2>4, <2>5, <2>6, <2>7 DEF RetireStep
<1> QED BY <1>1, <1>2, <1>3

-----------------------------------------------------------------------------
(* Who applies the epoch to x. *)
LEMMA AppliesStep ==
  ASSUME Shapes, NEW t \in Threads, Moves(t), NEW x \in Threads, NEW u \in Threads,
         Applies(u, x)'
  PROVE  Applies(u, x) \/ (u = t /\ AckClaim(t) /\ fr[t].tgt = x /\ ack[x] # fr[t].epoch)
<1>1. CASE u # t
  <2>1. fr'[u] = fr[u] /\ pc'[u] = pc[u]
    BY <1>1, PcBefore DEF Applies
  <2> QED BY <2>1 DEF Applies
<1>2. CASE u = t
  <2>1. AckClaim(t) /\ pc \in [Threads -> PCs]
    BY <1>2, ComesStep DEF Comes, Applies, Shapes, Types
  <2>2. fr[t].tgt = x /\ ack[x] # fr[t].epoch
    BY <1>2, <2>1 DEF AckClaim, Goto, Applies
  <2> QED BY <1>2, <2>1, <2>2
<1> QED BY <1>1, <1>2

(* A claim is for the published epoch. *)
LEMMA ClaimIs ==
  ASSUME Shapes, Current, NEW t \in Threads, AckClaim(t)
  PROVE  /\ fr[t].tgt \in linked /\ fr[t].tgt \in Threads
         /\ fr[t].epoch = epoch /\ ack' = [ack EXCEPT ![fr[t].tgt] = epoch]
         /\ fr'[t] = fr[t] /\ applied' = applied
         /\ pc' = [pc EXCEPT ![t] = IF ack[fr[t].tgt] # epoch THEN "k_apply" ELSE "k_done"]
<1>1. pc[t] = "k_claim"
  BY DEF AckClaim, At
<1>2. fr[t].epoch = epoch
  BY <1>1 DEF Current, Fits, EpochRead, Consumed
<1>3. fr[t].tgt \in linked /\ fr[t].tgt \in Threads
  BY <1>1, TargetLinked DEF AckPcs
<1> QED BY <1>2, <1>3 DEF AckClaim, Goto

(* What an application does: the actions of the epoch, to a linked thread. *)
LEMMA ApplyIs ==
  ASSUME Shapes, Current, NEW t \in Threads, AckApply(t)
  PROVE  /\ fr[t].tgt \in linked /\ fr[t].tgt \in Threads
         /\ fr[t].acts = actions /\ Applies(t, fr[t].tgt)
         /\ active' = Mirror(fr[t].tgt, actions)
         /\ applied' = [applied EXCEPT ![fr[t].tgt] = @ + 1]
         /\ ack' = ack /\ fr' = fr /\ pc'[t] # "k_apply"
<1>1. pc[t] = "k_apply" /\ pc \in [Threads -> PCs]
  BY DEF AckApply, At, Shapes, Types
<1>2. fr[t].acts = actions
  BY <1>1 DEF Current, Fits, Consumed
<1>3. fr[t].tgt \in linked /\ fr[t].tgt \in Threads
  BY <1>1, TargetLinked DEF AckPcs
<1>4. pc'[t] # "k_apply"
  BY <1>1 DEF AckApply, Goto
<1> QED BY <1>1, <1>2, <1>3, <1>4 DEF AckApply, Applies

(* A new thread catches up with an epoch that nobody applied to it. *)
LEMMA CatchStep ==
  ASSUME Shapes, Current, NEW t \in Threads, Moves(t), NEW x \in Threads, Once(x)
  PROVE  /\ pc'[x] \in {"new", "a_epoch", "a_pend", "a_apply"} => applied'[x] = 0
         /\ pc'[x] = "a_apply" => ack'[x] = fr'[x].epoch
<1> SUFFICES ASSUME pc'[x] \in {"new", "a_epoch", "a_pend", "a_apply"}
             PROVE  applied'[x] = 0 /\ (pc'[x] = "a_apply" => ack'[x] = fr'[x].epoch)
  OBVIOUS
<1>ty. /\ pc \in [Threads -> PCs] /\ fr \in [Threads -> Frames]
       /\ ack \in [Threads -> Nat] /\ applied \in [Threads -> Nat]
       /\ pc' \in [Threads -> PCs]
  BY TypesStep DEF Shapes, Types
<1>1. CASE x = t
  <2>1. AttachPhase(t) \/ AttachEpoch(t) \/ AttachPending(t)
    BY <1>1, ComesStep DEF Comes
  <2>2. pc[t] \in {"new", "a_epoch", "a_pend"} /\ applied' = applied
    BY <2>1 DEF AttachPhase, AttachEpoch, AttachPending, At
  <2>3. applied'[x] = 0
    BY <1>1, <2>2 DEF Once
  <2>4. ASSUME pc'[t] = "a_apply"
        PROVE  ack'[t] = fr'[t].epoch
    <3>1. AttachPending(t)
      BY <2>4, ComesStep DEF Comes
    <3>2. fr[t] \in Frames
      BY <1>ty
    <3>3. fr'[t].epoch = fr[t].epoch
      BY <3>1, <3>2, <1>ty DEF AttachPending, Frames
    <3> QED BY <3>1, <3>3, <1>ty DEF AttachPending
  <2> QED BY <1>1, <2>3, <2>4
<1>2. CASE x # t
  <2>1. fr'[x] = fr[x] /\ pc'[x] = pc[x]
    BY <1>2, PcBefore
  <2>2. x \notin linked /\ x \notin dead
    BY <2>1 DEF Shapes, Roles, Catching, RetirePcs
  <2>3. applied[x] = 0 /\ (pc'[x] = "a_apply" => ack[x] = fr'[x].epoch)
    BY <2>1 DEF Once
  <2>4. Writes(t)
    BY WritesStep
  <2>5. ack'[x] = ack[x]
    <3>1. CASE AckClaim(t)
      BY <3>1, <2>2, <1>ty, ClaimIs
    <3>2. CASE RetireClaim(t)
      <4>1. fr[t].tgt \in linked
        BY <3>2, TargetLinked DEF RetireClaim, At, RetirePcs
      <4> QED BY <3>2, <4>1, <2>2, <1>ty DEF RetireClaim
    <3>3. CASE AttachPending(t)
      BY <3>3, <1>2, <1>ty DEF AttachPending
    <3> QED BY <2>4, <3>1, <3>2, <3>3 DEF Writes
  <2>6. applied'[x] = 0
    <3>1. CASE AckApply(t)
      BY <3>1, <2>2, <2>3, <1>ty, ApplyIs
    <3>2. CASE AttachApply(t)
      BY <3>2, <1>2, <2>3, <1>ty DEF AttachApply
    <3>3. CASE LeaderPublish(t)
      BY <3>3 DEF LeaderPublish
    <3> QED BY <2>3, <2>4, <3>1, <3>2, <3>3 DEF Writes
  <2> QED BY <2>3, <2>5, <2>6
<1> QED BY <1>1, <1>2

(* With nothing out, the leader publishes an epoch that nobody has. *)
LEMMA PublishIs ==
  ASSUME Shapes, Counted, Quiet, Current, NEW t \in Threads, LeaderPublish(t)
  PROVE  /\ leader = t /\ leader' = t /\ t # 0 /\ pc'[t] = "sig"
         /\ walk'.todo = linked /\ walk'.stage = "first"
         /\ epoch' = epoch + 1 /\ epoch \in Nat
         /\ ack' = ack /\ req' = req /\ fr' = fr /\ poll' = poll
         /\ \A u \in Threads : pc'[u] \in {pc[u], "sig"}
         /\ \A u \in Threads : ~Owes(u) /\ req[u] = "none" /\ ack'[u] # epoch'
         /\ \A u \in Threads : applied'[u] = 0
<1>1. Types /\ pc[t] = "h_pub"
  BY DEF Shapes, LeaderPublish, At
<1>2. leader = t /\ t # 0 /\ Walks(t) /\ walk.stage \in {"first", "prior"}
  BY <1>1 DEF Shapes, Roles, Leads, LeaderPcs, Threads, Walks
<1>3. pending = 0
  BY <1>1, <1>2 DEF Quiet, Published
<1>4. \A u \in Threads : ~Owes(u) /\ req[u] = "none"
  BY <1>1, <1>3, Empty
<1>5. \A u \in Threads : ack[u] \in Nat /\ ack[u] <= epoch
  BY <1>1 DEF Types, Current
<1>6. /\ epoch' = epoch + 1 /\ epoch \in Nat /\ ack' = ack /\ req' = req /\ poll' = poll
  BY <1>1 DEF LeaderPublish, tg, Types
<1>7. \A u \in Threads : ack'[u] # epoch'
  BY <1>5, <1>6
<1>8. pc'[t] = "sig" /\ \A u \in Threads : pc'[u] \in {pc[u], "sig"}
  BY <1>1 DEF LeaderPublish, StartWalk, Goto, Types
<1> QED BY <1>2, <1>4, <1>6, <1>7, <1>8 DEF LeaderPublish, StartWalk

(* The actions of an epoch are not applied to a thread twice, *)
LEMMA OnceStep ==
  ASSUME Shapes, Counted, Quiet, Current, NEW t \in Threads, Moves(t), NEW x \in Threads,
         Once(x)
  PROVE  Once(x)'
<1> DEFINE Alone == \A u, v \in Threads : Applies(u, x)' /\ Applies(v, x)' => u = v
           Fit == /\ ack'[x] # epoch' => applied'[x] = 0
                  /\ \A u \in Threads : Applies(u, x)' => ack'[x] = epoch' /\ applied'[x] = 0
                  /\ applied'[x] <= 1
<1> SUFFICES Alone /\ Fit
  BY CatchStep DEF Once
<1>ty. /\ pc \in [Threads -> PCs] /\ fr \in [Threads -> Frames] /\ epoch \in Nat
       /\ ack \in [Threads -> Nat] /\ applied \in [Threads -> Nat]
  BY DEF Shapes, Types
<1>o. /\ ack[x] # epoch => applied[x] = 0
      /\ \A u \in Threads : Applies(u, x) => ack[x] = epoch /\ applied[x] = 0
      /\ \A u, v \in Threads : Applies(u, x) /\ Applies(v, x) => u = v
      /\ applied[x] <= 1
  BY DEF Once
<1>1. CASE LeaderPublish(t)
  <2>1. applied'[x] = 0
    BY <1>1, PublishIs
  <2>2. ASSUME NEW u \in Threads, Applies(u, x)'
        PROVE  FALSE
    BY <1>1, <2>2, PublishIs DEF Applies, Owes, Consumed
  <2> QED BY <2>1, <2>2
<1>2. CASE AckClaim(t) /\ fr[t].tgt = x /\ ack[x] # epoch
  <2>1. /\ ack'[x] = epoch /\ applied'[x] = 0 /\ epoch' = epoch
    BY <1>2, <1>ty, <1>o, ClaimIs DEF AckClaim, hs
  <2>2. ASSUME NEW u \in Threads, Applies(u, x)'
        PROVE  u = t
    BY <1>2, <1>o, <2>2, AppliesStep
  <2> QED BY <2>1, <2>2
<1>3. CASE AckApply(t) /\ fr[t].tgt = x
  <2>0. ack[x] = epoch /\ applied[x] = 0
    BY <1>3, <1>o, ApplyIs
  <2>1. /\ ack'[x] = epoch' /\ applied'[x] = 1
    <3>1. epoch' = epoch /\ ack' = ack
      BY <1>3, ApplyIs DEF AckApply, hs
    <3>2. applied' = [applied EXCEPT ![x] = @ + 1]
      BY <1>3, ApplyIs
    <3> QED BY <2>0, <3>1, <3>2, <1>ty
  <2>2. ASSUME NEW u \in Threads, Applies(u, x)'
        PROVE  FALSE
    <3>1. ~AckClaim(t)
      BY <1>3 DEF AckApply, AckClaim, At
    <3>2. Applies(u, x)
      BY <2>2, <3>1, AppliesStep
    <3>3. u = t
      BY <1>3, <1>o, <3>2, ApplyIs
    <3> QED BY <1>3, <2>2, <3>3, ApplyIs DEF Applies
  <2> QED BY <2>1, <2>2
<1>4. CASE (AttachPending(t) \/ AttachApply(t)) /\ x = t
  <2>1. pc[t] \in {"a_pend", "a_apply"} /\ applied[x] = 0 /\ epoch' = epoch
    BY <1>4 DEF AttachPending, AttachApply, At, Once, hs
  <2>2. ASSUME NEW u \in Threads, Applies(u, x)'
        PROVE  FALSE
    <3>1. ~AckClaim(t)
      BY <2>1 DEF AckClaim, At
    <3>2. Applies(u, x)
      BY <2>2, <3>1, AppliesStep
    <3>3. x \in linked
      BY <3>2, TargetLinked DEF Applies, AckPcs
    <3> QED BY <1>4, <2>1, <3>3 DEF Shapes, Roles, Catching
  <2>3. (ack'[x] # epoch' => applied'[x] = 0) /\ applied'[x] <= 1
    <3>1. CASE AttachPending(t)
      BY <2>1, <3>1 DEF AttachPending
    <3>2. CASE AttachApply(t)
      <4>1. ack[x] = fr[x].epoch
        BY <1>4, <3>2 DEF AttachApply, At, Once
      <4> QED BY <1>4, <2>1, <3>2, <4>1, <1>ty DEF AttachApply
    <3> QED BY <1>4, <3>1, <3>2
  <2> QED BY <2>2, <2>3
<1>5. CASE ~LeaderPublish(t) /\ ~(AckClaim(t) /\ fr[t].tgt = x /\ ack[x] # epoch)
           /\ ~(AckApply(t) /\ fr[t].tgt = x)
           /\ ~((AttachPending(t) \/ AttachApply(t)) /\ x = t)
  <2>1. epoch' = epoch
    BY <1>5, KeepsStep DEF Keeps
  <2>2. ack'[x] \in {ack[x], epoch}
    <3>1. CASE AckClaim(t)
      BY <3>1, <1>ty, ClaimIs
    <3>2. CASE RetireClaim(t)
      BY <3>2, <1>ty DEF RetireClaim
    <3>3. CASE AttachPending(t)
      BY <3>3, <1>5, <1>ty DEF AttachPending
    <3> QED BY WritesStep, <3>1, <3>2, <3>3 DEF Writes
  <2>3. applied'[x] = applied[x]
    <3>1. CASE AckApply(t)
      BY <3>1, <1>5, <1>ty, ApplyIs
    <3>2. CASE AttachApply(t)
      BY <3>2, <1>5, <1>ty DEF AttachApply
    <3> QED BY WritesStep, <1>5, <3>1, <3>2 DEF Writes
  <2>4. ASSUME NEW u \in Threads, Applies(u, x)'
        PROVE  Applies(u, x)
    <3>1. ~(AckClaim(t) /\ fr[t].tgt = x /\ ack[x] # fr[t].epoch)
      BY <1>5, ClaimIs
    <3> QED BY <2>4, <3>1, AppliesStep
  <2> QED BY <1>o, <2>1, <2>2, <2>3, <2>4
<1> QED BY <1>1, <1>2, <1>3, <1>4, <1>5

-----------------------------------------------------------------------------
(* The leader's walk as others see it. *)
LEMMA WalkAlone ==
  ASSUME Shapes, Current, NEW t \in Threads, Moves(t), ~LeaderPublish(t), Published',
         leader # t
  PROVE  /\ Published /\ leader' = leader /\ leader \in Threads /\ walk' = walk
         /\ Here' = Here /\ pc'[leader] = pc[leader] /\ fr'[leader] = fr[leader]
<1>1. Published /\ leader' = leader /\ leader \in Threads
  BY PublishedBefore
<1>2. walk' = walk
  BY WordsStep DEF Words
<1>3. leader \in Threads \ {t}
  BY <1>1
<1>4. /\ fr'[leader] = fr[leader]
      /\ pc'[leader] = pc[leader] \/ (pc[leader] = "asleep" /\ pc'[leader] = "w_load")
  BY <1>3, PcBefore
<1>5. pc[leader] # "asleep"
  BY <1>1 DEF Shapes, Shape, Roles, Leads, AckPcs, Waiting, LeaderPcs, TailPcs, RetirePcs
<1> QED BY <1>1, <1>2, <1>4, <1>5 DEF Here

(* The first walk of a handshake, from the publication on: a thread that it *)
(* has passed was dead, had the epoch or had a request, and its poll word   *)
(* is set unless it was so before.                                          *)
Signals(x) ==
  /\ Unsignaled(x)' => Unsignaled(x)
  /\ Unsignaled(x) /\ ~Unsignaled(x)' =>
       x \in dead \/ ack[x] = epoch \/ req[x] # "none" \/ req'[x] # "none"
  /\ Unarmed(x) /\ ~Unarmed(x)' =>
       \/ x \in dead \/ poll'[x]
       \/ Unsignaled(x) /\ (ack[x] = epoch \/ req[x] # "none")

(* An acknowledgement of x in the epoch is that of a request to x. *)
LEMMA SignalsStep ==
  ASSUME Shapes, Current, NEW t \in Threads, Moves(t), ~LeaderPublish(t), Published',
         NEW x \in Threads
  PROVE  Signals(x)
<1>sh. Types
  BY DEF Shapes
<1>ty. /\ pc \in [Threads -> PCs] /\ req \in [Threads -> Masks] /\ poll \in [Threads -> BOOLEAN]
       /\ walk \in [todo: SUBSET Threads, stage: {"prior", "first", "loop", "wait"},
                    late: SUBSET Threads]
  BY <1>sh DEF Types
<1>pub. /\ Published /\ leader' = leader /\ leader \in Threads /\ leader # 0
        /\ pc[leader] \notin {"h_prior", "h_pub"}
  BY PublishedBefore DEF Published
<1>1. CASE leader # t
  <2>1. walk' = walk /\ leader' = leader /\ Here' = Here /\ pc'[leader] = pc[leader]
    BY <1>1, WalkAlone
  <2> QED BY <2>1 DEF Signals, Unsignaled, Unarmed
<1>2. CASE leader = t

  <2>me. /\ leader = t /\ leader' = t /\ leader # 0 /\ pc[t] \notin {"h_prior", "h_pub"}
         /\ Leads(t) /\ Walks(t)
    BY <1>2, <1>pub DEF Shapes, Roles
  <2>here. /\ walk.todo # {} => Here \in walk.todo /\ Here \in Threads
           /\ pc[t] \in {"sig_req", "sig_count", "sig_poll", "sig_dead"} => walk.todo # {}
    BY <1>sh, <2>me, HereIn DEF Types, Walks, Visiting
  <2>walks. /\ pc[t] \in AckPcs \cup {"acks"} => walk.stage # "first"
            /\ pc[t] \in {"h_drop", "h_wait", "tail", "t_clear"} => walk.stage # "first"
            /\ pc[t] # "h_enter"
    BY <2>me DEF Walks, Leads, LeaderPcs, TailPcs, AckPcs, RetirePcs
  <2>want. want[t] # "none"
    BY <1>2 DEF Shapes, Roles, Wants
  <2>names. "sig_dead" \in PCs /\ "t_clear" \in PCs
    BY DEF PCs, LeaderPcs, TailPcs
  <2>1. CASE LeaderEnter(t)
    BY <2>1, <2>me, <1>pub DEF LeaderEnter
  <2>2. CASE HelpSelf(t)
    BY <2>2, <2>me, <1>pub, <2>walks DEF HelpSelf, At
  <2>3. CASE LeaderPrior(t)
    BY <2>3, <2>me, <1>pub DEF LeaderPrior, At
  <2>4. CASE LeaderPublish(t)
    BY <2>4, <2>me, <1>pub
  <2>5. CASE Signal(t)
    BY <2>5, <1>ty, <2>me, <2>here DEF Signal, Goto, At, Signals, Unsignaled,
      Unarmed, hs, tg, Walked, PassOn
  <2>6. CASE SignalReq(t)
    <3>1. walk'.todo = walk.todo => Here' = Here
      BY DEF Here
    <3> QED BY <2>6, <1>ty, <2>me, <2>here, <3>1 DEF SignalReq, Goto, At, Signals,
      Unsignaled, Unarmed, hs, tg, Walked, PassOn
  <2>7. CASE SignalCount(t)
    <3>1. walk'.todo = walk.todo => Here' = Here
      BY DEF Here
    <3> QED BY <2>7, <1>ty, <2>me, <2>here, <3>1, <2>want DEF SignalCount, Goto, At,
      Signals, Unsignaled, Unarmed, hs, tg, Walked
  <2>8. CASE SignalPoll(t)
    <3>0. Here \in Threads
      BY <2>8, <2>here DEF SignalPoll, At, Walked
    <3>1. walk'.todo = walk.todo => Here' = Here
      BY DEF Here
    <3> QED BY <2>8, <1>ty, <2>me, <2>here, <3>0, <2>names, Woken, <3>1 DEF
      SignalPoll, Goto, At, Signals, Unsignaled, Unarmed, hs, tg, Walked,
      leading
  <2>9. CASE SignalDead(t)
    BY <2>9, <1>ty, <2>me, <2>here DEF SignalDead, Goto, Enter, At, Signals,
      Unsignaled, Unarmed, hs, tg, Walked, PassOn
  <2>10. CASE Signaled(t)
    BY <2>10, <1>ty, <2>me, <2>here DEF Signaled, Goto, StartWalk, At,
      Signals, Unsignaled, Unarmed, hs, tg, Walked
  <2>11. CASE AckWalk(t)
    BY <2>11, <1>ty, <2>me, <2>here, <2>walks DEF AckWalk, Enter, Goto, At,
      Signals, Unsignaled, Unarmed, hs, tg, Walked, PassOn
  <2>12. CASE AckWalked(t)
    BY <2>12, <1>ty, <2>me, <2>here, <2>walks DEF AckWalked, Goto, StartWalk,
      At, Signals, Unsignaled, Unarmed, hs, tg, Walked
  <2>13. CASE DropSentinel(t)
    BY <2>13, <1>ty, <2>me, <2>walks DEF DropSentinel, Goto, At, Signals,
      Unsignaled, Unarmed, hs, tg, leading
  <2>14. CASE LeaderWait(t)
    BY <2>14, <1>ty, <2>me, <2>walks DEF LeaderWait, Goto, StartWalk, At,
      Signals, Unsignaled, Unarmed, hs, tg
  <2>15. CASE LeaderTail(t)
    BY <2>15, <1>ty, <2>me, <2>walks DEF LeaderTail, StartWalk, Goto, At,
      Signals, Unsignaled, Unarmed, hs, tg
  <2>16. CASE ClearPoll(t)
    <3>0. Here \in Threads
      BY <2>16, <2>here DEF ClearPoll, At, Walked
    <3> QED BY <2>16, <1>ty, <2>me, <2>here, <3>0, <2>names, Woken, <2>walks DEF
      ClearPoll, Goto, At, Signals, Unsignaled, Unarmed, hs, tg, Walked,
      PassOn
  <2>17. CASE LeaderLeave(t)
    BY <2>17, <2>me, <1>pub DEF LeaderLeave
  <2>20. CASE LeaderStep(t)
    BY <2>20, <2>1, <2>2, <2>3, <2>4, <2>5, <2>6, <2>7, <2>8, <2>9, <2>10,
      <2>11, <2>12, <2>13, <2>14, <2>15, <2>16, <2>17 DEF LeaderStep
  <2>21. CASE ~LeaderStep(t)
    <3>1. walk'.todo = walk.todo /\ walk'.stage = walk.stage /\ Here' = Here
      <4>1. walk' = walk \/ RetireClaim(t)
        BY <2>21, WritesStep DEF Writes
      <4> QED BY <4>1, <1>ty DEF RetireClaim, Here
    <3>2. pc[t] \notin LeaderPcs /\ pc'[t] \notin Visiting
      BY <2>21, DepartsStep, ComesStep DEF Departs, Comes
    <3> QED BY <2>me, <3>1, <3>2 DEF Signals, Unsignaled, Unarmed, LeaderPcs, Visiting
  <2> QED BY <2>20, <2>21
<1> QED BY <1>1, <1>2

-----------------------------------------------------------------------------
(* A thread that attaches is a newcomer; the others are linked all along.  *)
LEMMA AttachIs ==
  ASSUME Shapes, NEW t \in Threads,
         AttachPhase(t) \/ AttachPending(t) \/ AttachApply(t)
  PROVE  t \in Newcomers
<1>1. pc[t] \in Catching
  BY DEF AttachPhase, AttachPending, AttachApply, At, Catching
<1> QED BY <1>1 DEF Shapes, Roles

(* As long as the epoch lasts, no step loses what covers x. *)
LEMMA CoveredStep ==
  ASSUME Shapes, Current, NEW t \in Threads, Moves(t), ~LeaderPublish(t),
         NEW x \in Threads \ Newcomers, Covered(x)
  PROVE  Covered(x)'
<1>ty. /\ pc \in [Threads -> PCs] /\ fr \in [Threads -> Frames]
       /\ req \in [Threads -> Masks] /\ ack \in [Threads -> Nat]
  BY DEF Shapes, Types
<1>ep. epoch' = epoch
  BY KeepsStep DEF Keeps
<1>1. CASE x \in dead
  BY <1>1, WordsStep DEF Words, Covered
<1>2. CASE ack[x] = epoch
  <2>1. CASE AckClaim(t)
    BY <2>1, <1>2, <1>ep, <1>ty, ClaimIs DEF Covered
  <2>2. CASE RetireClaim(t)
    BY <2>2, <1>2, <1>ep, <1>ty DEF RetireClaim, Covered
  <2>3. CASE AttachPending(t)
    BY <2>3, <1>2, <1>ep, <1>ty, AttachIs DEF AttachPending, Covered
  <2>4. CASE ack' = ack
    BY <2>4, <1>2, <1>ep DEF Covered
  <2> QED BY <2>1, <2>2, <2>3, <2>4, WritesStep DEF Writes
<1>3. CASE req[x] # "none"
  <2>1. CASE AckXchg(t)
    <3>1. CASE fr[t].tgt = x
      <4>1. pc'[t] = "k_epoch"
        BY <2>1, <3>1, <1>3, <1>ty DEF AckXchg, Goto
      <4>2. fr'[t].tgt = x
        BY <2>1, <3>1, <1>ty DEF AckXchg
      <4> QED BY <4>1, <4>2 DEF Covered, Claiming
    <3>2. CASE fr[t].tgt # x
      BY <2>1, <3>2, <1>3, <1>ty DEF AckXchg, Covered
    <3> QED BY <3>1, <3>2
  <2>2. CASE RetireXchg(t)
    <3>1. fr[t].tgt \in dead
      BY <2>2 DEF RetireXchg, At, Shapes, Shape, RetirePcs
    <3>2. dead' = dead
      BY <2>2 DEF RetireXchg, registry
    <3>3. CASE fr[t].tgt = x
      BY <3>1, <3>2, <3>3 DEF Covered
    <3>4. CASE fr[t].tgt # x
      BY <2>2, <3>4, <1>3, <1>ty DEF RetireXchg, Covered
    <3> QED BY <3>3, <3>4
  <2>3. CASE SignalCount(t)
    <3>1. want[t] # "none"
      BY <2>3 DEF SignalCount, At, Shapes, Roles, Wants, Leads, LeaderPcs
    <3> QED BY <2>3, <3>1, <1>3, <1>ty DEF SignalCount, Covered
  <2>4. CASE RemoteScanRefused(t)
    <3>1. fr[t].acts # "none"
      BY <2>4 DEF RemoteScanRefused, At, Shapes, Shape, Consumed
    <3> QED BY <2>4, <3>1, <1>3, <1>ty DEF RemoteScanRefused, Covered
  <2>5. CASE req' = req
    BY <2>5, <1>3 DEF Covered
  <2> QED BY <2>1, <2>2, <2>3, <2>4, <2>5, WritesStep DEF Writes
<1>4. ASSUME NEW u \in Threads, pc[u] \in Claiming, fr[u].tgt = x
      PROVE  Covered(x)'
  <2>1. CASE u # t
    <3>1. fr'[u] = fr[u] /\ pc'[u] = pc[u]
      BY <1>4, <2>1, PcBefore DEF Claiming
    <3> QED BY <1>4, <3>1 DEF Covered
  <2>2. CASE u = t
    <3>1. AckStep(t) \/ RemoteScanRefused(t)
      BY <1>4, <2>2, DepartsStep DEF Departs, Claiming, AckPcs
    <3>2. CASE AckEpoch(t)
      <4>1. pc'[t] \in Claiming /\ fr'[t].tgt = x
        BY <1>4, <2>2, <3>2, <1>ty DEF AckEpoch, Goto, Claiming
      <4> QED BY <4>1 DEF Covered
    <3>3. CASE RemoteScan(t)
      <4>1. pc'[t] \in Claiming /\ fr'[t].tgt = x
        BY <1>4, <2>2, <3>3, <1>ty DEF RemoteScan, Goto, Claiming
      <4> QED BY <4>1 DEF Covered
    <3>4. CASE AckClaim(t)
      BY <1>4, <2>2, <3>4, <1>ep, <1>ty, ClaimIs DEF Covered
    <3>5. CASE RemoteScanRefused(t)
      <4>1. fr[t].acts # "none"
        BY <3>5 DEF RemoteScanRefused, At, Shapes, Shape, Consumed
      <4> QED BY <1>4, <2>2, <3>5, <4>1, <1>ty DEF RemoteScanRefused, Covered
    <3>6. AckEpoch(t) \/ RemoteScan(t) \/ AckClaim(t) \/ RemoteScanRefused(t)
      BY <1>4, <2>2, <3>1 DEF AckStep, Claiming, At, AckXchg, AckNothing, AckApply,
         AckDone, AckClear, AckRestore, AckSub, WaitLoad, WaitReq, WaitFutex
    <3> QED BY <3>2, <3>3, <3>4, <3>5, <3>6
  <2> QED BY <2>1, <2>2
<1> QED BY <1>1, <1>2, <1>3, <1>4 DEF Covered

(* Nor is an epoch claimed for x and not applied, *)
LEMMA AppliedStep ==
  ASSUME Shapes, Current, NEW t \in Threads, Moves(t), ~LeaderPublish(t),
         NEW x \in Threads \ Newcomers, Once(x), Done(x),
         epoch' # 0, ack'[x] = epoch', x \notin dead'
  PROVE  applied'[x] = 1 \/ \E u \in Threads : Applies(u, x)'
<1>ty. /\ ack \in [Threads -> Nat] /\ applied \in [Threads -> Nat]
       /\ pc \in [Threads -> PCs]
  BY DEF Shapes, Types
<1>ep. epoch' = epoch /\ x \notin dead
  BY KeepsStep, WordsStep DEF Keeps, Words
<1>1. CASE ack[x] # epoch
  <2>1. ack'[x] # ack[x]
    BY <1>1, <1>ep
  <2>2. CASE AckClaim(t)
    <3>1. fr[t].tgt = x
      BY <2>1, <2>2, <1>ty, ClaimIs
    <3>2. pc'[t] = "k_apply" /\ fr'[t].tgt = x
      BY <1>1, <2>2, <3>1, <1>ty, ClaimIs
    <3> QED BY <3>2 DEF Applies
  <2>3. CASE RetireClaim(t)
    <3>1. fr[t].tgt \in dead
      BY <2>3 DEF RetireClaim, At, Shapes, Shape, RetirePcs
    <3> QED BY <2>1, <2>3, <3>1, <1>ep, <1>ty DEF RetireClaim
  <2>4. CASE AttachPending(t)
    BY <2>1, <2>4, <1>ty, AttachIs DEF AttachPending
  <2> QED BY <2>1, <2>2, <2>3, <2>4, WritesStep DEF Writes
<1>2. CASE ack[x] = epoch
  <2>1. applied[x] = 1 \/ \E u \in Threads : Applies(u, x)
    BY <1>2, <1>ep DEF Done
  <2>2. CASE applied[x] = 1
    <3>1. CASE AckApply(t)
      <4>1. fr[t].tgt # x
        BY <2>2, <3>1, ApplyIs DEF Once
      <4> QED BY <2>2, <3>1, <4>1, <1>ty, ApplyIs
    <3>2. CASE AttachApply(t)
      BY <2>2, <3>2, <1>ty, AttachIs DEF AttachApply
    <3> QED BY <2>2, <3>1, <3>2, WritesStep DEF Writes
  <2>3. ASSUME NEW u \in Threads, Applies(u, x)
        PROVE  applied'[x] = 1 \/ Applies(u, x)'
    <3>1. CASE u # t
      <4>1. fr'[u] = fr[u] /\ pc'[u] = pc[u]
        BY <2>3, <3>1, PcBefore DEF Applies
      <4> QED BY <2>3, <4>1 DEF Applies
    <3>2. CASE u = t
      <4>1. AckApply(t) /\ fr[t].tgt = x
        BY <2>3, <3>2, DepartsStep DEF Departs, Applies
      <4>2. applied[x] = 0 /\ applied' = [applied EXCEPT ![x] = @ + 1]
        BY <2>3, <4>1, ApplyIs DEF Once
      <4> QED BY <4>2, <1>ty
    <3> QED BY <3>1, <3>2
  <2> QED BY <2>1, <2>2, <2>3
<1> QED BY <1>1, <1>2

(* nor is the mirror of one to whom it was applied changed, *)
LEMMA MirrorStep ==
  ASSUME Shapes, Current, NEW t \in Threads, Moves(t), ~LeaderPublish(t),
         NEW x \in Threads \ Newcomers, Once(x), Done(x), applied'[x] = 1
  PROVE  (actions' = "on" => active'[x]) /\ (actions' = "off" => ~active'[x])
<1>ty. applied \in [Threads -> Nat] /\ active \in [Threads -> BOOLEAN]
  BY DEF Shapes, Types
<1>ac. actions' = actions
  BY KeepsStep DEF Keeps
<1>1. CASE AckApply(t) /\ fr[t].tgt = x
  <2>1. active' = Mirror(x, actions)
    BY <1>1, ApplyIs
  <2> QED BY <2>1, <1>ac, <1>ty DEF Mirror
<1>2. CASE ~(AckApply(t) /\ fr[t].tgt = x)
  <2>1. applied'[x] = applied[x]
    <3>1. CASE AckApply(t)
      BY <3>1, <1>2, <1>ty, ApplyIs
    <3>2. CASE AttachApply(t)
      BY <3>2, <1>ty, AttachIs DEF AttachApply
    <3> QED BY <3>1, <3>2, WritesStep DEF Writes
  <2>2. active'[x] = active[x]
    <3>1. CASE AckApply(t)
      BY <3>1, <1>2, <1>ty, ApplyIs DEF Mirror
    <3>2. CASE AttachApply(t)
      BY <3>2, <1>ty, AttachIs DEF AttachApply, Mirror
    <3>3. CASE AttachPhase(t)
      BY <3>3, <1>ty, AttachIs DEF AttachPhase
    <3> QED BY <3>1, <3>2, <3>3, WritesStep DEF Writes
  <2> QED BY <2>1, <2>2, <1>ac DEF Done
<1> QED BY <1>1, <1>2

(* and not skipped: *)
LEMMA DoneStep ==
  ASSUME Shapes, Counted, Quiet, Current, NEW t \in Threads, Moves(t),
         NEW x \in Threads \ Newcomers, Once(x), Done(x)
  PROVE  Done(x)'
<1>1. CASE LeaderPublish(t)
  <2>1. /\ ack'[x] # epoch' /\ applied'[x] = 0 /\ leader' = t /\ pc'[t] = "sig"
        /\ walk'.todo = linked /\ walk'.stage = "first"
    BY <1>1, PublishIs
  <2>2. x \in linked
    BY DEF Shapes, Roles
  <2>3. Unsignaled(x)'
    BY <2>1, <2>2 DEF Unsignaled
  <2> QED BY <2>1, <2>3 DEF Done
<1>2. CASE ~LeaderPublish(t)
  <2>1. ASSUME Published', ~Unsignaled(x)'
        PROVE  Covered(x)'
    <3>1. Published
      BY <1>2, <2>1, PublishedBefore
    <3>2. CASE Covered(x)
      BY <1>2, <3>2, CoveredStep
    <3>3. CASE ~Covered(x)
      <4>1. Unsignaled(x)
        BY <3>1, <3>3 DEF Done
      <4>2. req'[x] # "none"
        BY <1>2, <2>1, <3>3, <4>1, SignalsStep DEF Signals, Covered
      <4> QED BY <4>2 DEF Covered
    <3> QED BY <3>2, <3>3
  <2>2. ASSUME epoch' # 0, ack'[x] = epoch', x \notin dead'
        PROVE  applied'[x] = 1 \/ \E u \in Threads : Applies(u, x)'
    BY <1>2, <2>2, AppliedStep
  <2>3. ASSUME applied'[x] = 1
        PROVE  (actions' = "on" => active'[x]) /\ (actions' = "off" => ~active'[x])
    BY <1>2, <2>3, MirrorStep
  <2> QED BY <2>1, <2>2, <2>3 DEF Done
<1> QED BY <1>1, <1>2

(* the grace period of the handshake is inductive. *)
LEMMA GraceStep ==
  ASSUME Shapes, Counted, Quiet, Current, Grace, NEW t \in Threads, Moves(t)
  PROVE  Grace'
<1>1. ASSUME NEW x \in Threads
      PROVE  Once(x)'
  BY OnceStep DEF Grace
<1>2. ASSUME NEW x \in Threads \ Newcomers
      PROVE  Done(x)'
  BY DoneStep DEF Grace
<1>3. Published' => epoch' # 0
  <2>1. CASE LeaderPublish(t)
    BY <2>1, PublishIs
  <2>2. CASE ~LeaderPublish(t)
    <3>1. epoch' = epoch
      BY <2>2, KeepsStep DEF Keeps
    <3> QED BY <2>2, <3>1, PublishedBefore DEF Grace
  <2> QED BY <2>1, <2>2
<1> QED BY <1>1, <1>2, <1>3 DEF Grace

-----------------------------------------------------------------------------
(* Nothing is under way for a thread that the leader has not come to. *)
LEMMA FreshStep ==
  ASSUME Shapes, Counted, Quiet, Current, NEW t \in Threads, Moves(t),
         NEW x \in Threads \ Newcomers, Fresh(x)
  PROVE  Fresh(x)'
<1> SUFFICES ASSUME Published', Unsignaled(x)'
             PROVE  /\ req'[x] = "none" /\ ack'[x] # epoch'
                    /\ \A u \in Threads : Owes(u)' => fr'[u].tgt # x
  BY DEF Fresh
<1>ty. /\ pc \in [Threads -> PCs] /\ ack \in [Threads -> Nat]
       /\ req \in [Threads -> Masks]
  BY DEF Shapes, Types
<1>1. CASE LeaderPublish(t)
  <2>1. ASSUME NEW u \in Threads
        PROVE  ~Owes(u)'
    <3>1. ~Owes(u) /\ pc'[u] \in {pc[u], "sig"} /\ fr' = fr
      BY <1>1, PublishIs
    <3> QED BY <3>1 DEF Owes, Consumed
  <2> QED BY <1>1, <2>1, PublishIs
<1>2. CASE ~LeaderPublish(t)
  <2>1. Published /\ leader' = leader
    BY <1>2, PublishedBefore
  <2>2. Unsignaled(x)
    BY <1>2, SignalsStep DEF Signals
  <2>3. /\ req[x] = "none" /\ ack[x] # epoch
        /\ \A u \in Threads : Owes(u) => fr[u].tgt # x
    BY <2>1, <2>2 DEF Fresh
  <2>4. epoch' = epoch
    BY <1>2, KeepsStep DEF Keeps
  <2>5. ack'[x] # epoch'
    <3>1. CASE AckClaim(t)
      <4>1. Owes(t)
        BY <3>1 DEF AckClaim, At, Owes, Consumed
      <4> QED BY <3>1, <4>1, <2>3, <2>4, <1>ty, ClaimIs
    <3>2. CASE RetireClaim(t)
      <4>1. Owes(t)
        BY <3>2 DEF RetireClaim, At, Owes, Shapes, Shape
      <4> QED BY <3>2, <4>1, <2>3, <2>4, <1>ty DEF RetireClaim
    <3>3. CASE AttachPending(t)
      BY <3>3, <2>3, <2>4, <1>ty, AttachIs DEF AttachPending
    <3> QED BY <3>1, <3>2, <3>3, <2>3, <2>4, WritesStep DEF Writes
  <2>6. req'[x] = "none"
    <3>1. CASE AckXchg(t)
      BY <3>1, <2>3, <1>ty DEF AckXchg
    <3>2. CASE RetireXchg(t)
      BY <3>2, <2>3, <1>ty DEF RetireXchg
    <3>3. CASE SignalCount(t)
      <4>1. leader = t
        BY <3>3 DEF SignalCount, At, Shapes, Roles, Leads, LeaderPcs
      <4>2. pc'[t] = "sig_poll" /\ Here' = Here
        BY <3>3, <1>ty DEF SignalCount, Goto, Here, Shapes, Types
      <4>3. Here # x
        BY <2>1, <4>1, <4>2 DEF Unsignaled
      <4> QED BY <3>3, <4>3, <2>3, <1>ty DEF SignalCount
    <3>4. CASE RemoteScanRefused(t)
      <4>1. Owes(t)
        BY <3>4 DEF RemoteScanRefused, At, Owes, Consumed
      <4> QED BY <3>4, <4>1, <2>3, <1>ty DEF RemoteScanRefused
    <3> QED BY <3>1, <3>2, <3>3, <3>4, <2>3, WritesStep DEF Writes
  <2>7. ASSUME NEW u \in Threads, Owes(u)'
        PROVE  fr'[u].tgt # x
    <3>1. CASE u # t
      <4>1. fr'[u] = fr[u] /\ (pc'[u] = pc[u] \/ pc'[u] = "w_load")
        BY <3>1, PcBefore
      <4>2. Owes(u)
        BY <2>7, <4>1 DEF Owes, Consumed
      <4> QED BY <4>1, <4>2, <2>3
    <3>2. CASE u = t
      BY <2>3, <2>7, <3>2, OwesStep
    <3> QED BY <3>1, <3>2
  <2> QED BY <2>5, <2>6, <2>7
<1> QED BY <1>1, <1>2

-----------------------------------------------------------------------------
(* A slot that is out belongs to a handshake whose leader is there. *)
LEMMA OwedToLeader ==
  ASSUME Shapes, Counted, Quiet, NEW t \in Threads, Owes(t)
  PROVE  leader # 0
BY Empty DEF Quiet, Published, Shapes

(* Who clears the poll word of a thread that the leader holds. *)
Clears(t, x) ==
  \/ x \in dead
  \/ leader = t /\ req[x] = "none" /\ AckClear(t) /\ actions = "owner"
  \/ leader = t /\ req[x] = "none" /\ ClearPoll(t) /\ x = Here

(* Who clears a poll word while the actions of the epoch are held. *)
LEMMA ClearsStep ==
  ASSUME Shapes, Counted, Quiet, Current, NEW t \in Threads, Moves(t), NEW x \in Threads,
         actions \in Held, poll[x], ~poll'[x]
  PROVE  Clears(t, x)
<1>ty. poll \in [Threads -> BOOLEAN] /\ Shape(t) /\ Roles(t)
  BY DEF Shapes, Types
<1>1. CASE RemoteScanRefused(t)
  BY <1>1, <1>ty DEF RemoteScanRefused
<1>2. CASE AckDone(t)
  <2>1. pc[t] = "k_done" /\ Owes(t)
    BY <1>2 DEF AckDone, At, Owes, Consumed
  <2>2. fr[t].acts = actions /\ leader # 0
    BY <2>1, OwedToLeader DEF Current, Fits, Consumed
  <2> QED BY <1>2, <2>2 DEF AckDone
<1>3. CASE AckClear(t)
  <2>1. pc[t] = "k_clear"
    BY <1>3 DEF AckClear, At
  <2>2. fr[t].parked /\ fr[t].acts = "owner" /\ fr[t].acts = actions
    BY <2>1, <1>ty DEF Shape, Current, Fits, Consumed
  <2>3. leader = t
    BY <2>1, <2>2, <1>ty DEF Shape, Roles, Leads, AckPcs
  <2>4. req[fr[t].tgt] = "none"
    BY <2>1, <2>3 DEF Shapes, Walks, Consumed
  <2>5. fr[t].tgt = x
    BY <1>3, <1>ty DEF AckClear
  <2> QED BY <1>3, <2>2, <2>3, <2>4, <2>5 DEF Clears
<1>4. CASE AckRestore(t)
  BY <1>4, <1>ty DEF AckRestore
<1>5. CASE RetireClear(t)
  <2>1. fr[t].tgt \in dead
    BY <1>5, <1>ty DEF RetireClear, At, Shape, RetirePcs
  <2>2. fr[t].tgt = x
    BY <1>5, <1>ty DEF RetireClear
  <2> QED BY <2>1, <2>2 DEF Clears
<1>6. CASE SignalPoll(t)
  BY <1>6, <1>ty DEF SignalPoll
<1>7. CASE ClearPoll(t)
  <2>1. leader = t
    BY <1>7, <1>ty DEF ClearPoll, At, Roles, Leads, LeaderPcs, TailPcs
  <2>2. req[Here] = "none" /\ x = Here
    BY <1>7, <1>ty DEF ClearPoll
  <2> QED BY <1>7, <2>1, <2>2 DEF Clears
<1> QED BY <1>1, <1>2, <1>3, <1>4, <1>5, <1>6, <1>7, WritesStep DEF Writes

(* The poll word stays set from the signal to the release. *)
LEMMA ArmedStep ==
  ASSUME Shapes, Counted, Quiet, Current, NEW t \in Threads, Moves(t),
         NEW x \in Threads \ Newcomers, Fresh(x), Armed(x)
  PROVE  Armed(x)'
<1> SUFFICES ASSUME Published', actions' \in {"on", "scan"}, x # leader', x \notin dead'
             PROVE  \/ Unarmed(x)' \/ poll'[x]
                    \/ pc'[leader'] = "t_clear" /\ x \notin walk'.todo
  BY DEF Armed
<1>ty. pc \in [Threads -> PCs]
  BY DEF Shapes, Types
<1>1. CASE LeaderPublish(t)
  <2>1. x \in linked
    BY DEF Shapes, Roles
  <2> QED BY <1>1, <2>1, PublishIs DEF Unarmed
<1>2. CASE ~LeaderPublish(t)
  <2>1. Published /\ leader' = leader /\ actions' = actions
    BY <1>2, PublishedBefore, KeepsStep DEF Keeps
  <2>2. x \notin dead
    BY WordsStep DEF Words
  <2>3. Unarmed(x) \/ (pc[leader] = "t_clear" /\ x \notin walk.todo) \/ poll[x]
    BY <2>1, <2>2 DEF Armed
  <2>4. CASE Unarmed(x)
    <3>1. ~(Unsignaled(x) /\ (ack[x] = epoch \/ req[x] # "none"))
      BY <2>1 DEF Fresh
    <3> QED BY <1>2, <2>2, <2>4, <3>1, SignalsStep DEF Signals
  <2>5. CASE pc[leader] = "t_clear" /\ x \notin walk.todo
    <3>1. CASE leader = t
      <4>1. ClearPoll(t) \/ LeaderLeave(t)
        BY <2>5, <3>1, DepartsStep DEF Departs
      <4>2. ~LeaderLeave(t)
        BY DEF LeaderLeave, Published
      <4>3. walk.todo # {} => Here \in Threads
        BY HereIn DEF Shapes, Walks, Types
      <4>4. pc'[t] = "t_clear"
        BY <2>5, <3>1, <4>1, <4>2, <4>3, <1>ty DEF ClearPoll, GotoWake, Walked
      <4>5. walk' = PassOn
        BY <4>1, <4>2 DEF ClearPoll
      <4>6. x \notin walk'.todo
        BY <2>5, <4>5 DEF PassOn, Shapes, Types
      <4> QED BY <2>1, <3>1, <4>4, <4>6
    <3>2. CASE leader # t
      BY <1>2, <2>5, <3>2, WalkAlone
    <3> QED BY <3>1, <3>2
  <2>6. CASE poll[x]
    <3>1. ASSUME ~poll'[x]
          PROVE  pc'[leader'] = "t_clear" /\ x \notin walk'.todo
      <4>1. Clears(t, x)
        BY <2>1, <2>6, <3>1, ClearsStep DEF Held
      <4>2. leader = t /\ ClearPoll(t) /\ x = Here
        BY <2>1, <2>2, <4>1 DEF Clears
      <4>3. pc'[t] = "t_clear"
        BY <3>1, <2>6, <4>2, <1>ty DEF ClearPoll, GotoWake
      <4>4. walk' = PassOn
        BY <4>2 DEF ClearPoll
      <4>5. x \notin walk'.todo
        BY <4>2, <4>4 DEF PassOn, Shapes, Types
      <4> QED BY <2>1, <4>2, <4>3, <4>5
    <3> QED BY <3>1
  <2> QED BY <2>3, <2>4, <2>5, <2>6
<1> QED BY <1>1, <1>2

(* A held request keeps its poll word set until it is consumed, *)
LEMMA PolledStep ==
  ASSUME Shapes, Counted, Quiet, Current, NEW t \in Threads, Moves(t),
         NEW x \in Threads, Polled(x)
  PROVE  Polled(x)'
<1> SUFFICES ASSUME actions' \in Held, req'[x] # "none"
             PROVE  \/ poll'[x] \/ x \in dead'
                    \/ leader' # 0 /\ pc'[leader'] = "sig_poll" /\ Here' = x
  BY DEF Polled
<1>ty. /\ pc \in [Threads -> PCs] /\ req \in [Threads -> Masks]
       /\ poll \in [Threads -> BOOLEAN] /\ leader \in Threads \cup {0} /\ 0 \notin Threads
  BY DEF Shapes, Types, Threads
<1>1. ~LeaderPublish(t)
  BY PublishIs
<1>2. actions' = actions
  BY <1>1, KeepsStep DEF Keeps
<1>3. CASE req[x] = "none"
  <2>1. CASE AckXchg(t)
    BY <2>1, <1>3, <1>ty DEF AckXchg
  <2>2. CASE RetireXchg(t)
    BY <2>2, <1>3, <1>ty DEF RetireXchg
  <2>3. CASE SignalCount(t)
    <3>1. leader = t /\ leader' = t
      BY <2>3 DEF SignalCount, At, Shapes, Roles, Leads, LeaderPcs
    <3>2. pc'[t] = "sig_poll" /\ Here' = Here
      BY <2>3, <1>ty DEF SignalCount, Goto, Here, Shapes, Types
    <3>3. Here = x
      BY <2>3, <1>3, <1>ty DEF SignalCount
    <3> QED BY <3>1, <3>2, <3>3, <1>ty
  <2>4. CASE RemoteScanRefused(t)
    <3>1. fr[t].tgt = x
      BY <2>4, <1>3, <1>ty DEF RemoteScanRefused
    <3> QED BY <2>4, <3>1, <1>ty DEF RemoteScanRefused
  <2> QED BY <1>3, <2>1, <2>2, <2>3, <2>4, WritesStep DEF Writes
<1>4. CASE req[x] # "none"
  <2>1. poll[x] \/ x \in dead \/ (leader # 0 /\ pc[leader] = "sig_poll" /\ Here = x)
    BY <1>2, <1>4 DEF Polled
  <2>2. CASE x \in dead
    BY <2>2, WordsStep DEF Words
  <2>3. CASE poll[x]
    <3>1. ASSUME ~poll'[x]
          PROVE  x \in dead
      BY <1>2, <1>4, <2>3, <3>1, ClearsStep DEF Clears
    <3> QED BY <2>2, <3>1
  <2>4. CASE leader # 0 /\ pc[leader] = "sig_poll" /\ Here = x
    <3>1. CASE leader = t
      <4>1. SignalPoll(t)
        BY <2>4, <3>1, DepartsStep DEF Departs
      <4> QED BY <2>4, <4>1, <1>ty DEF SignalPoll
    <3>2. CASE leader # t
      <4>1. leader' = leader /\ walk' = walk /\ leader \in Threads \ {t}
        BY <2>4, <3>2, <1>ty, WordsStep DEF Words
      <4>2. pc'[leader] = pc[leader]
        BY <2>4, <4>1, PcBefore
      <4>3. Here' = Here
        BY <4>1 DEF Here
      <4> QED BY <2>4, <4>1, <4>2, <4>3
    <3> QED BY <3>1, <3>2
  <2> QED BY <2>1, <2>2, <2>3, <2>4
<1> QED BY <1>3, <1>4

(* and the thread that consumes it waits. *)
LEMMA HoldsStep ==
  ASSUME Shapes, Counted, Quiet, Current, NEW t \in Threads, Moves(t),
         NEW u \in Threads, Holds(u)
  PROVE  Holds(u)'
<1> SUFFICES ASSUME pc'[u] = "k_sub", fr'[u].wait, fr'[u].acts \in Held
             PROVE  fr'[u].hold
  BY DEF Holds
<1>ty. pc \in [Threads -> PCs] /\ fr \in [Threads -> Frames]
  BY DEF Shapes, Types
<1>1. CASE u # t
  <2>1. fr'[u] = fr[u] /\ pc'[u] = pc[u]
    BY <1>1, PcBefore
  <2> QED BY <2>1 DEF Holds
<1>2. CASE u = t
  <2>1. CASE AckDone(t)
    <3>1. pc[t] = "k_done" /\ Owes(t)
      BY <2>1 DEF AckDone, At, Owes, Consumed
    <3>2. fr[t].acts = actions /\ leader # 0
      BY <3>1, OwedToLeader DEF Current, Fits, Consumed
    <3>3. fr[t] \in Frames
      BY <1>ty
    <3>4. fr'[t].acts = fr[t].acts
      BY <2>1, <3>3, <1>ty DEF AckDone, Frames
    <3>5. fr'[t].hold = (fr[t].acts \in Held /\ leader # 0)
      BY <2>1, <3>3, <1>ty DEF AckDone, Frames
    <3> QED BY <1>2, <3>2, <3>4, <3>5
  <2>2. CASE AckRestore(t)
    <3>1. fr[t].parked /\ pc[t] \in AckPcs /\ fr' = fr
      BY <2>2 DEF AckRestore, At, Shapes, Shape, AckPcs
    <3>2. ~fr[t].wait
      BY <3>1 DEF Shapes, Shape
    <3> QED BY <1>2, <3>1, <3>2
  <2> QED BY <1>2, <2>1, <2>2, ComesStep DEF Comes
<1> QED BY <1>1, <1>2

(* A thread whose poll word the leader holds does not come back to Lua: *)
(* by a step of its own                                                  *)
LEMMA StoppedStep ==
  ASSUME Shapes, Counted, Quiet, Current, NEW x \in Threads, Moves(x), Stopped(x),
         poll[x], actions \in Held, leader # 0, leader # x, Holds(x)
  PROVE  Stopped(x)'
<1>ty. /\ pc \in [Threads -> PCs] /\ fr \in [Threads -> Frames] /\ Shape(x) /\ Roles(x)
       /\ native \in [Threads -> BOOLEAN] /\ Natives(x)
  BY DEF Shapes, Types
<1>fr. fr[x] \in Frames
  BY <1>ty
<1>1. CASE pc[x] = "native"
  <2>1. NativeLeave(x)
    BY <1>1, DepartsStep DEF Departs
  <2> QED BY <2>1, <1>ty DEF NativeLeave, Enter, Goto, Stopped
<1>2. CASE pc[x] = "a_bound"
  <2>1. AttachBoundary(x)
    BY <1>2, DepartsStep DEF Departs
  <2>2. CASE Goto(x, "a_claim")
    BY <2>2, <1>ty DEF Goto, Stopped
  <2>3. CASE Enter(x, "k_xchg", AckFrame(x, FALSE, TRUE, "a_bound"))
    BY <2>3, <1>ty DEF Enter, Goto, AckFrame, NoFrame, Stopped, AckPcs
  <2> QED BY <2>1, <2>2, <2>3 DEF AttachBoundary
<1>3. CASE pc[x] = "poll"
  <2>1. Poll(x) /\ fr[x].wait
    BY <1>3, <1>ty, DepartsStep DEF Departs, Shape
  <2> QED BY <2>1, <1>ty DEF Poll, Goto, Stopped, AckPcs
<1>4. CASE pc[x] \in AckPcs /\ fr[x].wait
  <2>sh. fr[x].tgt = x /\ ~fr[x].parked
    BY <1>4, <1>ty DEF Shape
  <2>np. pc[x] \notin {"k_scan", "k_clear", "k_fix"}
    BY <2>sh, <1>ty DEF Shape
  <2> SUFFICES pc'[x] \in AckPcs /\ fr'[x].wait
    BY DEF Stopped
  <2>0. AckStep(x) \/ RemoteScanRefused(x)
    BY <1>4, DepartsStep DEF Departs

  <2>1. CASE AckXchg(x)
    <3>2. fr'[x].wait
      BY <2>1, <1>ty, <1>4, <1>fr DEF AckXchg, Frames
    <3> QED BY <2>1, <1>ty, <1>4, <3>2 DEF AckXchg, Goto, AckPcs
  <2>2. CASE AckNothing(x)
    BY <2>2, <1>ty, <1>4, <2>sh DEF AckNothing, Goto, AckPcs
  <2>3. CASE AckEpoch(x)
    <3>2. fr'[x].wait
      BY <2>3, <1>ty, <1>4, <1>fr DEF AckEpoch, Frames
    <3> QED BY <2>3, <1>ty, <1>4, <3>2 DEF AckEpoch, Goto, AckPcs
  <2>4. CASE RemoteScan(x)
    BY <2>4, <2>np DEF RemoteScan, At
  <2>5. CASE AckClaim(x)
    BY <2>5, <1>ty, <1>4 DEF AckClaim, Goto, AckPcs
  <2>6. CASE AckApply(x)
    BY <2>6, <1>ty, <1>4, <2>sh DEF AckApply, Goto, AckPcs
  <2>7. CASE AckDone(x)
    <3>1. fr[x].acts \in Held
      BY <2>7 DEF AckDone, At, Current, Fits, Consumed
    <3>2. fr'[x].wait
      BY <2>7, <1>ty, <1>4, <1>fr, <3>1 DEF AckDone, Frames
    <3> QED BY <2>7, <1>ty, <1>4, <3>1, <3>2 DEF AckDone, Goto, AckPcs
  <2>8. CASE AckClear(x)
    BY <2>8, <2>np DEF AckClear, At
  <2>9. CASE AckRestore(x)
    BY <2>9, <2>np DEF AckRestore, At
  <2>10. CASE AckSub(x)
    <3>1. fr[x].hold
      BY <2>10, <1>4 DEF AckSub, At, Holds, Current, Fits, Consumed
    <3> QED BY <2>10, <1>ty, <1>4, <3>1 DEF AckSub, Goto, AckPcs
  <2>11. CASE WaitLoad(x)
    BY <2>11, <1>ty, <1>4 DEF WaitLoad, Goto, AckPcs
  <2>12. CASE WaitReq(x)
    BY <2>12, <1>ty, <1>4 DEF WaitReq, Goto, AckPcs
  <2>13. CASE WaitFutex(x)
    BY <2>13, <1>ty, <1>4 DEF WaitFutex, Goto, AckPcs
  <2>14. CASE RemoteScanRefused(x)
    BY <2>14, <2>np DEF RemoteScanRefused, At
  <2> QED BY <2>0, <2>14, <2>1, <2>2, <2>3, <2>4, <2>5, <2>6, <2>7, <2>8,
    <2>9, <2>10, <2>11, <2>12, <2>13 DEF AckStep
<1>5. CASE pc[x] = "a_claim"
  <2>1. NativeLeave(x) \/ Detach(x) \/ ClaimPoll(x)
    BY <1>5, DepartsStep DEF Departs
  <2>2. native[x]
    BY <1>5, <1>ty DEF Natives, Joining
  <2>3. CASE Detach(x)
    BY <2>2, <2>3, <1>ty DEF Detach, Goto, tg, Stopped
  <2>4. CASE NativeLeave(x) \/ ClaimPoll(x)
    BY <2>4, <1>ty DEF NativeLeave, ClaimPoll, Enter, Goto, Stopped
  <2> QED BY <2>1, <2>3, <2>4
<1>6. CASE pc[x] = "poll2" /\ fr[x].ret = "a_claim"
  <2>1. PollReq(x) /\ fr[x].wait
    BY <1>6, <1>ty, DepartsStep DEF Departs, Shape
  <2>2. CASE Goto(x, "k_xchg") /\ UNCHANGED fr
    BY <2>1, <2>2, <1>ty DEF Goto, Stopped, AckPcs
  <2>3. CASE Return(x)
    BY <1>6, <2>3, <1>ty DEF Return, Enter, Goto, Stopped
  <2> QED BY <2>1, <2>2, <2>3 DEF PollReq
<1>7. CASE pc[x] = "d_req" /\ native[x]
  <2>1. DetachPoll(x)
    BY <1>7, DepartsStep DEF Departs
  <2>2. Enter(x, "k_xchg", AckFrame(x, FALSE, TRUE, "d_native"))
    BY <2>1 DEF DetachPoll
  <2>3. pc'[x] = "k_xchg" /\ fr'[x] = AckFrame(x, FALSE, TRUE, "d_native")
    BY <2>2, <1>ty DEF Enter, Goto
  <2> QED BY <2>3 DEF AckFrame, NoFrame, Stopped, AckPcs
<1> QED BY <1>1, <1>2, <1>3, <1>4, <1>5, <1>6, <1>7 DEF Stopped

(* or of another thread. *)
LEMMA StaysStopped ==
  ASSUME Shapes, Counted, Quiet, Current, NEW t \in Threads, Moves(t), NEW x \in Threads,
         Stopped(x), poll[x], actions \in Held, leader \notin {0, t, x}, Holds(x)
  PROVE  Stopped(x)' /\ poll'[x]
<1>1. Stopped(x)'
  <2>1. CASE x = t
    BY <2>1, StoppedStep
  <2>2. CASE x # t
    <3>1. /\ fr'[x] = fr[x] /\ native'[x] = native[x]
          /\ pc'[x] = pc[x] \/ (pc[x] = "asleep" /\ pc'[x] = "w_load")
      BY <2>2, Bystanders DEF Same
    <3> QED BY <3>1 DEF Stopped, AckPcs
  <2> QED BY <2>1, <2>2
<1>2. x \notin dead
  BY DEF Shapes, Roles, Stopped, AckPcs, RetirePcs
<1>3. poll'[x]
  BY <1>2, ClearsStep DEF Clears
<1> QED BY <1>1, <1>3

(* A thread that gave up its attach does not come to Lua at all. *)
LEMMA StaysLeaving ==
  ASSUME Shapes, NEW t \in Threads, Moves(t), NEW x \in Threads, Leaving(x)
  PROVE  Leaving(x)'
<1>1. CASE x # t
  <2>1. /\ fr'[x] = fr[x] /\ native'[x] = native[x]
        /\ pc'[x] = pc[x] \/ (pc[x] = "asleep" /\ pc'[x] = "w_load")
    BY <1>1, Bystanders DEF Same
  <2> QED BY <2>1 DEF Leaving, RetirePcs
<1>2. CASE x = t
  <2>ty. pc \in [Threads -> PCs] /\ fr \in [Threads -> Frames]
    BY DEF Shapes, Types
  <2>1. CASE pc[x] = "d_native"
    <3>1. DetachNative(x)
      BY <1>2, <2>1, DepartsStep DEF Departs
    <3> QED BY <3>1, <2>ty DEF DetachNative, Goto, Leaving
  <2>2. CASE pc[x] = "d_dead"
    <3>1. DetachDead(x)
      BY <1>2, <2>2, DepartsStep DEF Departs
    <3>2. pc'[x] = "q_xchg" /\ fr'[x] = AckFrame(x, FALSE, FALSE, "gone")
      BY <3>1, <2>ty DEF DetachDead, Enter, Goto
    <3> QED BY <3>2 DEF AckFrame, NoFrame, Leaving, RetirePcs
  <2>3. CASE pc[x] \in RetirePcs /\ fr[x].ret = "gone"
    <3>1. RetireXchg(x) \/ RetireClear(x) \/ RetireClaim(x) \/ RetireSub(x)
      BY <1>2, <2>3, DepartsStep DEF Departs
    <3>2. pc'[x] = "gone" \/ (pc'[x] \in RetirePcs /\ fr'[x].ret = "gone")
      BY <2>3, <3>1, RetiresStep
    <3> QED BY <3>2 DEF Leaving
  <2>4. pc[x] # "gone"
    BY <1>2, DepartsStep DEF Departs
  <2> QED BY <2>1, <2>2, <2>3, <2>4 DEF Leaving
<1> QED BY <1>1, <1>2

(* The leader goes to a thread in native, which is not in Lua and whose     *)
(* poll word is set if it has a request, or which leaves.                   *)
LEMMA WalkGuards ==
  ASSUME Shapes, Current, NEW t \in Threads, AckWalk(t), pc'[t] = "k_xchg",
         fr'[t].parked, actions \in Held, \A x \in Threads : Polled(x)
  PROVE  /\ fr'[t].tgt \in Threads \ {t}
         /\ \/ req'[fr'[t].tgt] = "none"
            \/ Stopped(fr[t].tgt)' /\ poll'[fr'[t].tgt]
            \/ Leaving(fr[t].tgt)'
<1>ty. pc \in [Threads -> PCs] /\ fr \in [Threads -> Frames]
  BY DEF Shapes, Types
<1>1. pc[t] = "acks" /\ leader = t /\ leader # 0
  BY DEF AckWalk, At, Shapes, Roles, Leads, LeaderPcs, Threads
<1>2. Here \in walk.todo /\ Here \in Threads /\ Here \in linked
  <2>1. walk.todo # {} /\ Walks(t) /\ walk.todo \subseteq Threads
    BY <1>1 DEF AckWalk, Walked, Shapes, Types
  <2> QED BY <2>1, HereIn DEF Walks
<1>3. Here \notin dead /\ (Here = t \/ native[Here])
      /\ Enter(t, "k_xchg", AckFrame(Here, Here # t, FALSE, "acks"))
  BY <1>1 DEF AckWalk
<1>4. fr'[t].tgt = Here /\ Here # t /\ req' = req /\ poll' = poll /\ native' = native
  BY <1>3, <1>ty DEF AckWalk, tg, Enter, AckFrame, NoFrame
<1>5. pc'[Here] = pc[Here] /\ fr'[Here] = fr[Here]
  BY <1>2, <1>3, <1>4, <1>ty DEF Enter, Goto
<1>6. Stopped(Here) \/ Leaving(Here)
  <2>1. Roles(Here) /\ Natives(Here) /\ Shape(Here) /\ native[Here]
    BY <1>2, <1>3, <1>4 DEF Shapes
  <2>2. pc[Here] \notin Catching
    BY <1>2, <2>1 DEF Roles
  <2>3. CASE Joining(Here)
    BY <2>1, <2>3 DEF Joining, Stopped, Shape, AckPcs
  <2>4. CASE pc[Here] \in {"native", "d_req"}
    BY <2>1, <2>4 DEF Stopped
  <2>5. CASE pc[Here] = "d_native"
    BY <2>1, <2>5 DEF Natives, Leaving
  <2>6. CASE pc[Here] \in AckPcs /\ fr[Here].ret = "d_native"
    BY <2>1, <2>6 DEF Shape, Stopped
  <2> QED BY <2>1, <2>2, <2>3, <2>4, <2>5, <2>6 DEF Natives
<1>7. /\ pc'[fr'[t].tgt] = pc[Here] /\ fr'[fr'[t].tgt] = fr[Here]
      /\ native'[fr'[t].tgt] = native[Here] /\ fr'[t].tgt = Here
  BY <1>4, <1>5
<1>8. Stopped(fr[t].tgt)' \/ Leaving(fr[t].tgt)'
  BY <1>6, <1>7 DEF Stopped, Leaving
<1>9. req[Here] = "none" \/ poll[Here]
  BY <1>1, <1>2, <1>3 DEF Polled
<1> QED BY <1>2, <1>4, <1>8, <1>9

(* The target of the leader's acknowledgement has nothing to give, is       *)
(* stopped, or leaves.                                                      *)
LEMMA GuardedStep ==
  ASSUME Shapes, Counted, Quiet, Current, NEW t \in Threads, Moves(t),
         NEW e \in Threads, Guarded(e), \A x \in Threads : Polled(x) /\ Holds(x)
  PROVE  Guarded(e)'
<1> SUFFICES ASSUME pc'[e] \in {"k_xchg", "k_epoch", "k_scan", "k_claim", "k_apply"},
                    fr'[e].parked, actions' \in Held
             PROVE  \/ pc'[e] = "k_xchg" /\ req'[fr'[e].tgt] = "none"
                    \/ Stopped(fr[e].tgt)' /\ poll'[fr'[e].tgt]
                    \/ Leaving(fr[e].tgt)'
  BY DEF Guarded
<1>ty. /\ pc \in [Threads -> PCs] /\ fr \in [Threads -> Frames]
       /\ req \in [Threads -> Masks] /\ leader \in Threads \cup {0} /\ 0 \notin Threads
  BY DEF Shapes, Types, Threads
<1>1. leader' = e /\ fr'[e].tgt # e /\ fr'[e].tgt \in Threads
  <2>1. Shapes'
    BY ShapesStep
  <2>2. Shape(e)' /\ Roles(e)' /\ linked' \subseteq Threads
    BY <2>1 DEF Shapes, Types
  <2>3. pc'[e] \in AckPcs
    BY DEF AckPcs
  <2> QED BY <2>2, <2>3 DEF Shape, Roles, Leads
<1>2. ~LeaderPublish(t) /\ actions' = actions
  <2>1. ~LeaderPublish(t)
    BY <1>1, PublishIs
  <2> QED BY <2>1, KeepsStep DEF Keeps
<1>3. CASE e # t
  <2>1. fr'[e] = fr[e] /\ pc'[e] = pc[e]
    BY <1>3, PcBefore
  <2>2. leader = e /\ \A u \in Threads : req'[u] \in {req[u], "none"}
    BY <1>1, <1>3, <1>ty, WordsStep DEF Words
  <2>3. CASE pc[e] = "k_xchg" /\ req[fr[e].tgt] = "none"
    BY <2>1, <2>2, <2>3, <1>1
  <2>4. CASE Stopped(fr[e].tgt) /\ poll[fr[e].tgt]
    <3>1. fr[e].tgt \in Threads /\ leader \notin {0, t, fr[e].tgt}
      BY <2>1, <2>2, <1>1, <1>3, <1>ty
    <3>2. PICK x \in Threads : x = fr[e].tgt
      BY <3>1
    <3>3. Stopped(x)' /\ poll'[x]
      BY <1>2, <2>4, <3>1, <3>2, StaysStopped
    <3>4. x = fr'[e].tgt
      BY <2>1, <3>2
    <3> QED BY <3>3, <3>4 DEF Stopped
  <2>5. CASE Leaving(fr[e].tgt)
    <3>1. PICK x \in Threads : x = fr'[e].tgt /\ x = fr[e].tgt
      BY <1>1, <2>1
    <3>2. Leaving(x)'
      BY <2>5, <3>1, StaysLeaving
    <3> QED BY <3>1, <3>2 DEF Leaving
  <2> QED BY <2>1, <2>3, <2>4, <2>5, <1>2 DEF Guarded
<1>4. CASE e = t
  <2>1. CASE AckWalk(t) /\ pc'[t] = "k_xchg"
    BY <1>1, <1>2, <1>4, <2>1, WalkGuards
  <2>2. CASE pc'[t] = "k_xchg" /\ ~AckWalk(t)
    <3>1. ~(Poll(t) \/ PollReq(t) \/ WaitReq(t))
      <4>1. SUFFICES ASSUME Poll(t) \/ PollReq(t) \/ WaitReq(t)
                     PROVE  ~fr'[t].parked
        BY <1>4
      <4>2. pc[t] \in {"poll", "poll2", "w_req"}
        BY <4>1 DEF Poll, PollReq, WaitReq, At
      <4>3. ~fr[t].parked
        BY <4>2 DEF Shapes, Shape, AckPcs, Waiting
      <4>4. fr'[t] = fr[t] \/ fr'[t] = NoFrame
        BY <4>1, <1>ty DEF Poll, PollReq, WaitReq, Return, Enter
      <4> QED BY <4>3, <4>4 DEF NoFrame
    <3>2. ~(DetachPoll(t) \/ AttachBoundary(t) \/ HelpSelf(t))
      <4>1. CASE fr' = [fr EXCEPT ![t] = AckFrame(t, FALSE, TRUE, "d_native")]
        BY <4>1, <1>4, <1>ty DEF AckFrame, NoFrame
      <4>2. CASE fr' = [fr EXCEPT ![t] = AckFrame(t, FALSE, TRUE, "a_bound")]
        BY <4>2, <1>4, <1>ty DEF AckFrame, NoFrame
      <4>3. CASE fr' = [fr EXCEPT ![t] = AckFrame(t, FALSE, FALSE, "h_enter")]
        BY <4>3, <1>4, <1>ty DEF AckFrame, NoFrame
      <4>4. DetachPoll(t) => fr' = [fr EXCEPT ![t] = AckFrame(t, FALSE, TRUE, "d_native")]
        BY <2>2, <1>ty DEF DetachPoll, Enter, Goto
      <4>5. AttachBoundary(t) => fr' = [fr EXCEPT ![t] = AckFrame(t, FALSE, TRUE, "a_bound")]
        BY <2>2, <1>ty DEF AttachBoundary, Enter, Goto
      <4>6. HelpSelf(t) => fr' = [fr EXCEPT ![t] = AckFrame(t, FALSE, FALSE, "h_enter")]
        BY DEF HelpSelf, Enter
      <4> QED BY <4>1, <4>2, <4>3, <4>4, <4>5, <4>6
    <3>3. ~AckNothing(t)
      <4>1. SUFFICES ASSUME AckNothing(t) PROVE FALSE
        OBVIOUS
      <4>2. pc[t] = "k_none" /\ Shape(t)
        BY <4>1 DEF AckNothing, At, Shapes
      <4>3. fr[t].ret # "k_xchg"
        BY <4>2 DEF Shape, AckPcs
      <4>4. ~Return(t)
        BY <2>2, <4>3, <1>ty DEF Return, Enter, Goto
      <4>5. req[fr[t].tgt] # "none" /\ fr' = fr
        BY <2>2, <4>1, <4>4, <1>ty DEF AckNothing, Goto
      <4>6. fr[t].parked
        BY <4>5, <1>4
      <4>7. leader = t
        BY <4>2, <4>6 DEF Shape, Shapes, Roles, Leads, AckPcs
      <4> QED BY <4>2, <4>5, <4>7 DEF Shapes, Walks
    <3> QED BY <2>2, <3>1, <3>2, <3>3, ComesStep DEF Comes
  <2>3. CASE pc'[t] # "k_xchg"
    <3>1. AckXchg(t) \/ AckEpoch(t) \/ RemoteScan(t) \/ AckClaim(t)
      BY <1>4, <2>3, ComesStep DEF Comes, Claiming
    <3>2. /\ pc[t] \in {"k_xchg", "k_epoch", "k_scan", "k_claim"}
          /\ poll' = poll /\ native' = native
          /\ \A u \in Threads \ {t} : pc'[u] = pc[u] /\ fr'[u] = fr[u]
      BY <3>1, <1>ty DEF AckXchg, AckEpoch, RemoteScan, AckClaim, At, Goto, tg
    <3>3. fr'[t].tgt = fr[t].tgt /\ fr'[t].parked = fr[t].parked
      <4>1. fr[t] \in Frames
        BY <1>ty
      <4>2. CASE AckXchg(t)
        BY <4>1, <4>2, <1>ty DEF AckXchg, Frames
      <4>3. CASE AckEpoch(t)
        BY <4>1, <4>3, <1>ty DEF AckEpoch, Frames
      <4> QED BY <3>1, <4>2, <4>3 DEF RemoteScan, AckClaim
    <3>4. ~(pc[t] = "k_xchg" /\ req[fr[t].tgt] = "none")
      <4>1. SUFFICES ASSUME pc[t] = "k_xchg", req[fr[t].tgt] = "none" PROVE FALSE
        OBVIOUS
      <4>2. AckXchg(t)
        BY <3>1, <4>1 DEF AckEpoch, RemoteScan, AckClaim, At
      <4>3. pc'[t] = "k_none"
        BY <4>1, <4>2, <1>ty DEF AckXchg, Goto
      <4> QED BY <1>4, <4>3
    <3>5. (Stopped(fr[t].tgt) /\ poll[fr[t].tgt]) \/ Leaving(fr[t].tgt)
      BY <1>2, <1>4, <3>2, <3>3, <3>4 DEF Guarded
    <3>6. PICK x \in Threads \ {t} : x = fr[t].tgt /\ x = fr'[t].tgt
      BY <1>1, <1>4, <3>3
    <3>7. pc'[x] = pc[x] /\ fr'[x] = fr[x] /\ native'[x] = native[x] /\ poll' = poll
      BY <3>2
    <3>8. (Stopped(x)' /\ poll'[x]) \/ Leaving(x)'
      BY <3>5, <3>6, <3>7 DEF Stopped, Leaving
    <3> QED BY <1>4, <3>6, <3>8 DEF Stopped, Leaving
  <2> QED BY <2>1, <2>2, <2>3
<1> QED BY <1>3, <1>4

(* What keeps a thread stopped is inductive, *)
LEMMA HoldStep ==
  ASSUME Shapes, Counted, Quiet, Current, Hold, NEW t \in Threads, Moves(t)
  PROVE  Hold'
<1>1. ASSUME NEW x \in Threads \ Newcomers
      PROVE  Fresh(x)' /\ Armed(x)'
  BY FreshStep, ArmedStep DEF Hold
<1>2. ASSUME NEW x \in Threads
      PROVE  Polled(x)' /\ Holds(x)' /\ Guarded(x)'
  BY PolledStep, HoldsStep, GuardedStep DEF Hold
<1> QED BY <1>1, <1>2 DEF Hold

-----------------------------------------------------------------------------
(* The invariant holds between two handshakes, *)
LEMMA InvInit == Init => IInv
<1> SUFFICES ASSUME Init PROVE IInv
  OBVIOUS
<1>1. Shapes
  BY ShapesInit
<1>2. /\ leader = 0 /\ pending = 0 /\ epoch = 0 /\ walk = NoWalk /\ 0 \notin Threads
      /\ ~Published /\ actions = "none"
      /\ \A t \in Threads : /\ pc[t] \in {"new", "run"} /\ fr[t] = NoFrame
                            /\ req[t] = "none" /\ ack[t] = 0 /\ applied[t] = 0
                            /\ want[t] = "none"
  BY DEF Init, Threads, Published
<1>3. Slots
  <2>1. Sentinel = {} /\ Owing = {} /\ Reqs = {} /\ Unpublished = {}
    BY <1>2 DEF Sentinel, Owing, Reqs, Unpublished
  <2>2. Cardinality({}) = 0
    BY FS_EmptySet
  <2>3. Quiet
    BY <1>2 DEF Quiet, NoWalk
  <2>4. Counted
    BY <1>2, <2>1, <2>2 DEF Counted
  <2>5. Budget
    BY <1>2, <2>1, <2>2, SafepointAssumption DEF Budget
  <2> QED BY <2>3, <2>4, <2>5 DEF Slots
<1>4. Current
  BY <1>2 DEF Current, Fits, Consumed, EpochRead, NoFrame
<1>5. Grace
  BY <1>2 DEF Grace, Once, Done, Applies
<1>6. Hold
  <2>1. \A x \in Threads : Fresh(x) /\ Armed(x)
    BY <1>2 DEF Fresh, Armed
  <2>2. \A x \in Threads : Polled(x) /\ Holds(x) /\ Guarded(x)
    BY <1>2 DEF Polled, Holds, Guarded
  <2> QED BY <2>1, <2>2 DEF Hold
<1> QED BY <1>1, <1>3, <1>4, <1>5, <1>6 DEF IInv

(* every step of a thread keeps it, *)
LEMMA InvMoves ==
  ASSUME IInv, NEW t \in Threads, Moves(t)
  PROVE  IInv'
BY ShapesStep, CountedStep, QuietStep, BudgetStep, CurrentStep, GraceStep, HoldStep
   DEF IInv, Slots

(* and so does a step that changes nothing. *)
LEMMA InvStutters ==
  ASSUME IInv, UNCHANGED vars
  PROVE  IInv'
<1>0. /\ UNCHANGED <<phase, gc, epoch, actions, pending, leader, linked, dead>>
      /\ UNCHANGED <<native, req, poll, ack, active, want, walk, pc, fr, applied>>
  BY DEF vars, global, hs, registry, tg, leading
<1>1. Here' = Here /\ (Published' <=> Published)
  BY <1>0 DEF Here, Published
<1>2. Shapes'
  BY <1>0, <1>1 DEF IInv, Shapes, Types, Shape, Roles, Natives, Joining, Walks, Leads, Wants
<1>3. Slots'
  BY <1>0, <1>1 DEF IInv, Slots, Counted, Quiet, Budget, Unpublished, Sentinel, Owing, Reqs
<1>4. Current'
  BY <1>0, <1>1 DEF IInv, Current, Fits
<1>5. \A x \in Threads : (Unsignaled(x)' <=> Unsignaled(x)) /\ (Unarmed(x)' <=> Unarmed(x))
                         /\ (Covered(x)' <=> Covered(x)) /\ (Stopped(x)' <=> Stopped(x))
  BY <1>0, <1>1 DEF Unsignaled, Unarmed, Covered, Stopped
<1>6. Grace'
  BY <1>0, <1>1, <1>5 DEF IInv, Grace, Once, Done, Applies
<1>7. Hold'
  <2>1. \A x \in Threads \ Newcomers : Fresh(x)' /\ Armed(x)'
    BY <1>0, <1>1, <1>5 DEF IInv, Hold, Fresh, Armed, Owes
  <2>2. \A x \in Threads : Polled(x)' /\ Holds(x)' /\ Guarded(x)'
    BY <1>0, <1>1 DEF IInv, Hold, Polled, Holds, Guarded, Stopped, Leaving
  <2> QED BY <2>1, <2>2 DEF Hold
<1> QED BY <1>2, <1>3, <1>4, <1>6, <1>7 DEF IInv

(* The invariant of the handshake: whose request each thread works at and   *)
(* how far the leader is (Shapes), where each counted slot is (Slots), that *)
(* all that is out belongs to the published epoch (Current), and what the   *)
(* epoch and the poll words promise of every thread (Grace, Hold).          *)
THEOREM SafepointInvariant == Spec => []IInv
<1>1. Init => IInv
  BY InvInit
<1>2. IInv /\ [Next]_vars => IInv'
  <2> SUFFICES ASSUME IInv, [Next]_vars PROVE IInv'
    OBVIOUS
  <2>1. CASE Next
    <3>1. PICK t \in Threads : Moves(t)
      BY <2>1 DEF Next, Moves
    <3> QED BY <3>1, InvMoves
  <2>2. CASE UNCHANGED vars
    BY <2>2, InvStutters
  <2> QED BY <2>1, <2>2
<1> QED BY <1>1, <1>2, PTL DEF Spec

(* Every variable stays in its type; the counter of outstanding requests is *)
(* bounded by two slots for each thread and the leader's own, and nobody is *)
(* told an epoch that was not published.                                    *)
THEOREM SafepointTypeCorrect == Spec => []TypeOK
<1>1. IInv => TypeOK
  <2> SUFFICES ASSUME IInv PROVE TypeOK
    OBVIOUS
  <2>1. Types /\ Current /\ Grace /\ Counted /\ Budget
        /\ \A t \in Threads : Roles(t)
    BY DEF IInv, Shapes, Slots
  <2>2. epoch \in 0..MaxEpoch
    <3>1. Unpublished \in SUBSET Threads
      BY DEF Unpublished
    <3>2. Cardinality(Unpublished) \in Nat
      BY <3>1, ThreadsFinite
    <3> QED BY <2>1, <3>2, SafepointAssumption DEF Types, Budget
  <2>3. pending \in 0 .. (2 * N + 1)
    <3>1. pending = Own + Cardinality(Owing) + Cardinality(Reqs)
      BY <2>1, CountedIs DEF Tally
    <3>2. Owing \in SUBSET Threads /\ Reqs \in SUBSET Threads
      BY DEF Owing, Reqs
    <3>3. /\ Own \in {0, 1}
          /\ Cardinality(Owing) \in Nat /\ Cardinality(Owing) <= N
          /\ Cardinality(Reqs) \in Nat /\ Cardinality(Reqs) <= N
      BY <3>2, ThreadsFinite DEF Own
    <3> QED BY <3>1, <3>3, SafepointAssumption
  <2>4. dead \subseteq linked
    BY <2>1 DEF Types, Roles, Catching, RetirePcs
  <2>5. ack \in [Threads -> 0..MaxEpoch]
    <3>1. ASSUME NEW x \in Threads
          PROVE  ack[x] \in 0..MaxEpoch
      <4>1. ack[x] \in Nat /\ ack[x] <= epoch
        BY <2>1 DEF Types, Current
      <4> QED BY <4>1, <2>2, SafepointAssumption
    <3>2. ack \in [Threads -> Nat]
      BY <2>1 DEF Types
    <3> QED BY <3>1, <3>2
  <2>6. applied \in [Threads -> 0..2]
    <3>1. ASSUME NEW x \in Threads
          PROVE  applied[x] \in 0..2
      <4>1. applied[x] \in Nat /\ applied[x] <= 1
        BY <2>1 DEF Types, Grace, Once
      <4> QED BY <4>1
    <3>2. applied \in [Threads -> Nat]
      BY <2>1 DEF Types
    <3> QED BY <3>1, <3>2
  <2>7. fr \in [Threads -> [tgt: Threads \cup {0}, acts: Masks, epoch: 0..MaxEpoch,
                            parked: BOOLEAN, wait: BOOLEAN, hold: BOOLEAN,
                            ret: LeaderPcs \cup OwnerPcs]]
    <3>1. ASSUME NEW x \in Threads
          PROVE  fr[x].epoch \in 0..MaxEpoch /\ fr[x] \in Frames
      <4>1. fr[x] \in Frames /\ fr[x].epoch <= epoch
        BY <2>1 DEF Types, Current, Fits
      <4>2. fr[x].epoch \in Nat
        BY <4>1, FrameFields
      <4> QED BY <4>1, <4>2, <2>2, SafepointAssumption
    <3>2. ASSUME NEW x \in Threads
          PROVE  fr[x] \in [tgt: Threads \cup {0}, acts: Masks, epoch: 0..MaxEpoch,
                            parked: BOOLEAN, wait: BOOLEAN, hold: BOOLEAN,
                            ret: LeaderPcs \cup OwnerPcs]
      BY <3>1 DEF Frames, Rets
    <3>3. fr \in [Threads -> Frames]
      BY <2>1 DEF Types
    <3> QED BY <3>2, <3>3
  <2> QED BY <2>1, <2>2, <2>3, <2>4, <2>5, <2>6, <2>7 DEF Types, TypeOK, PCs
<1> QED BY <1>1, SafepointInvariant, PTL

(* The counter of outstanding requests is exact: one for the leader's own   *)
(* slot, for every request published and not consumed, and for every one    *)
(* consumed and not yet dropped (lj_safepoint.c, hs_pending).               *)
THEOREM SafepointSlotsCounted == Spec => []SlotsCounted
<1>1. IInv => SlotsCounted
  BY DEF IInv, Slots, Counted, SlotsCounted, Reqs
<1> QED BY <1>1, SafepointInvariant, PTL

(* No epoch is applied to a thread twice.  When the counter lets the leader *)
(* go on, every thread that was there all along has acknowledged this       *)
(* epoch, and its actions were applied to it once, by itself or by its      *)
(* helper.                                                                  *)
THEOREM SafepointGraceComplete == Spec => []GraceComplete
<1>1. IInv => GraceComplete
  <2> SUFFICES ASSUME IInv PROVE GraceComplete
    OBVIOUS
  <2>i. Shapes /\ Counted /\ Quiet /\ Current /\ Grace /\ Types
    BY DEF IInv, Slots, Shapes
  <2>1. \A t \in Threads : applied[t] <= 1
    BY <2>i DEF Grace, Once
  <2>2. ASSUME leader # 0, pc[leader] \in TailPcs, NEW t \in linked \ (dead \cup Newcomers)
        PROVE  /\ ack[t] = epoch /\ applied[t] = 1 /\ req[t] = "none"
               /\ want[leader] = "on" => active[t]
               /\ want[leader] = "off" => ~active[t]
    <3>1. leader \in Threads /\ t \in Threads \ Newcomers /\ t \notin dead
      BY <2>i, <2>2 DEF Types
    <3>2. Walks(leader)
      BY <2>i, <3>1 DEF Shapes
    <3>3. Published /\ walk.stage # "first"
      BY <2>2, <3>2 DEF Walks, Published, TailPcs
    <3>4. pending = 0
      BY <2>i, <2>2 DEF Quiet
    <3>5. \A u \in Threads : req[u] = "none" /\ ~Owes(u)
      BY <2>i, <3>4, Empty
    <3>6. Done(t)
      BY <2>i, <3>1 DEF Grace
    <3>7. Covered(t)
      BY <3>3, <3>6 DEF Done, Unsignaled
    <3>8. ack[t] = epoch
      BY <3>1, <3>5, <3>7 DEF Covered, Owes, Claiming, Consumed
    <3>9. applied[t] = 1
      BY <2>i, <3>1, <3>3, <3>5, <3>6, <3>8 DEF Done, Grace, Applies, Owes, Consumed
    <3>10. actions = want[leader]
      BY <2>i, <3>3 DEF Current
    <3> QED BY <3>1, <3>5, <3>6, <3>8, <3>9, <3>10 DEF Done
  <2> QED BY <2>1, <2>2 DEF GraceComplete
<1> QED BY <1>1, SafepointInvariant, PTL

(* While the leader scans the private roots of a thread it saw in native    *)
(* code, or applies a held request for it, that thread is not back in Lua,  *)
(* and not detaching unless it gives up its attach.                         *)
THEOREM SafepointRemoteScanExclusive == Spec => []RemoteScanExclusive
<1>1. IInv => RemoteScanExclusive
  <2> SUFFICES ASSUME IInv, NEW e \in Threads, pc[e] \in {"k_scan", "k_apply"},
                      fr[e].parked, fr[e].acts \in Held
               PROVE  /\ pc[fr[e].tgt] \notin {"run", "h_enter"}
                      /\ pc[fr[e].tgt] \in {"d_req", "d_native"} => native[fr[e].tgt]
                      /\ pc[fr[e].tgt] \in {"d_dead", "gone"} => fr[e].tgt \in Newcomers
    BY DEF RemoteScanExclusive
  <2>1. fr[e].acts = actions
    BY DEF IInv, Current, Fits, Consumed
  <2>2. Stopped(fr[e].tgt) \/ Leaving(fr[e].tgt)
    BY <2>1 DEF IInv, Hold, Guarded
  <2> QED BY <2>2 DEF Stopped, Leaving, AckPcs, RetirePcs
<1> QED BY <1>1, SafepointInvariant, PTL

(* In the tail of a handshake with root scans or a trace boundary the poll  *)
(* word of every thread that the leader has not released is set.            *)
THEOREM SafepointTailArmed == Spec => []TailArmed
<1>1. IInv => TailArmed
  <2> SUFFICES ASSUME IInv, NEW t \in Threads, NotYetReleased(t) PROVE poll[t]
    BY DEF TailArmed
  <2>1. /\ leader # 0 /\ t # leader /\ want[leader] \in {"on", "scan"}
        /\ pc[leader] = "tail" \/ (pc[leader] = "t_clear" /\ t \in walk.todo)
        /\ t \in Threads \ Newcomers /\ t \notin dead
    BY DEF NotYetReleased
  <2>2. Walks(leader)
    BY <2>1 DEF IInv, Shapes, Types
  <2>3. Published /\ walk.stage # "first"
    BY <2>1, <2>2 DEF Walks, Published
  <2>4. actions \in {"on", "scan"}
    BY <2>1, <2>3 DEF IInv, Current
  <2>5. Armed(t)
    BY <2>1 DEF IInv, Hold
  <2> QED BY <2>1, <2>3, <2>4, <2>5 DEF Armed, Unarmed
<1> QED BY <1>1, SafepointInvariant, PTL
==============================================================================
