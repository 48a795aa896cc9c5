------------------------------ MODULE Channel ------------------------------
(***************************************************************************)
(* The lock-free channel of lj_chan.c: a ring of slots, each with its own  *)
(* sequence number, an enqueue and a dequeue ticket counter, and a closed  *)
(* flag.  One step is one access to shared memory.                         *)
(*                                                                         *)
(* The waits are not steps: chan_wait and chan_wait_timeout park for at    *)
(* most one millisecond and the loop around them starts the attempt over,  *)
(* so a wait is the time between two attempts.  A blocking, a timed and a  *)
(* try call differ in how often they attempt; here a thread that got FULL  *)
(* or EMPTY is back in "idle" and may attempt again or not.                *)
(***************************************************************************)
EXTENDS Naturals, Sequences, FiniteSets

CONSTANTS
  Senders, Receivers, Peekers,
  Capacities,   \* arguments of threading.channel, 0 for a rendezvous
  MaxSends,     \* messages a sender gets accepted before it stops, on a
                \* rendezvous (TRUE) and on a buffered channel (FALSE)
  MaxTickets    \* tickets a sender takes before it stops

ASSUME ChannelAssumption ==
  /\ Capacities \subseteq Nat /\ MaxSends \in [BOOLEAN -> Nat] /\ MaxTickets \in Nat
  /\ IsFiniteSet(Senders)

Threads == Senders \cup Receivers \cup Peekers

(* lj_chan_round_capacity: the least power of two that holds n. *)
RoundCapacity(n) ==
  LET need == IF n = 0 THEN 1 ELSE n
  IN CHOOSE size \in {2 ^ k : k \in 0..30} : need <= size /\ size < 2 * need

(* LJ_MAX_UDATA keeps every capacity far below the largest of these sizes. *)
ASSUME RoundingAssumption ==
  \A c \in Capacities :
    /\ RoundCapacity(c) \in Nat \ {0} /\ c <= RoundCapacity(c)
    /\ c = 0 => RoundCapacity(c) = 1

Positions == 0 .. (MaxTickets * Cardinality(Senders))
Messages == Senders \X (1..MaxTickets)
Cleared == <<>>      \* the word ~0 of chan_cleartv_rel

VARIABLES
  cap, rendezvous,   \* slots and kind of the channel, fixed by lj_chan_init
  enq, deq,   \* the next ticket of a send, of a receive
  closed,
  seq, tv,    \* per slot: sequence number and value
  pc, pos,    \* per thread: the next access of its call, and its local pos
  seen,       \* per thread: the sequence number it loaded
  val,        \* per thread: the value it loaded
  ledger      \* per ticket, history: message, fate, what its sender was told

Slots == 0 .. (cap - 1)
Slot(p) == p % cap

ring == <<enq, deq, closed, seq, tv>>
shape == <<cap, rendezvous>>
shared == <<shape, ring>>
local == <<pc, pos, seen, val>>
vars == <<shared, local, ledger>>

Entry == [msg: Messages, fate: {"open", "taken", "withdrawn"},
          told: {"nothing", "sent", "not sent"}]

SendPcs == {"s_closed", "s_enq", "s_seq", "s_deq", "s_again", "s_cas", "s_store",
            "s_pub", "v_deq", "v_closed", "v_wait", "v_cancel", "x_clear", "x_pub"}
RecvPcs == {"r_seq", "r_deq", "r_cas", "r_closed", "r_enq", "r_load", "r_clear",
            "r_pub"}
PeekPcs == {"p_seq", "p_deq", "p_load", "p_deq2", "p_seq2", "p_tv2", "p_closed",
            "p_enq", "peeked"}

TypeOK ==
  /\ ledger \in Seq(Entry)
  /\ enq = Len(ledger) /\ enq \in Positions
  /\ deq \in Positions /\ deq <= enq /\ enq <= deq + cap
  /\ rendezvous \in BOOLEAN /\ closed \in BOOLEAN
  /\ cap \in {RoundCapacity(c) : c \in Capacities}
  /\ seq \in [Slots -> Nat]
  /\ tv \in [Slots -> Messages \cup {Cleared}]
  /\ pc \in [Threads -> SendPcs \cup RecvPcs \cup PeekPcs \cup {"idle", "ended"}]
  /\ pos \in [Threads -> Positions]
  /\ seen \in [Threads -> Nat]
  /\ val \in [Threads -> Messages \cup {Cleared}]

(* lj_chan_init *)
Init ==
  /\ \E c \in Capacities : cap = RoundCapacity(c) /\ rendezvous = (c = 0)
  /\ enq = 0 /\ deq = 0 /\ closed = FALSE
  /\ seq = [s \in Slots |-> s]
  /\ tv = [s \in Slots |-> Cleared]
  /\ pc = [t \in Threads |-> "idle"]
  /\ pos = [t \in Threads |-> 0]
  /\ seen = [t \in Threads |-> 0]
  /\ val = [t \in Threads |-> Cleared]
  /\ ledger = <<>>

-----------------------------------------------------------------------------
At(t, l) == pc[t] = l

(* Thread t goes on at l; its local variables keep their values. *)
Goto(t, l) == pc' = [pc EXCEPT ![t] = l] /\ UNCHANGED <<pos, seen, val>>

(* Thread t loaded its position from p and goes on at l. *)
LoadPos(t, p, l) ==
  /\ pos' = [pos EXCEPT ![t] = p]
  /\ pc' = [pc EXCEPT ![t] = l]
  /\ UNCHANGED <<seen, val>>

(* The call of t returned; its locals are dead. *)
Return(t, l) ==
  /\ pc' = [pc EXCEPT ![t] = l]
  /\ pos' = [pos EXCEPT ![t] = 0]
  /\ seen' = [seen EXCEPT ![t] = 0]
  /\ val' = [val EXCEPT ![t] = Cleared]

(* The sequence number t loaded, against the one that p calls for.         *)
(* (int64_t)(seq - p) in the code; positions stay far below 2^63.          *)
Mine(t, p) == seen[t] = p
Behind(t, p) == seen[t] < p
Ahead(t, p) == seen[t] > p

(* chan_full_at *)
FullAt(p) == p >= deq + cap

Tickets(t) == {i \in DOMAIN ledger : ledger[i].msg[1] = t}
Accepted(t) == {i \in Tickets(t) : ledger[i].told # "not sent"}
NextMessage(t) == <<t, Cardinality(Tickets(t)) + 1>>

Tell(t, answer) == ledger' = [ledger EXCEPT ![pos[t] + 1].told = answer]

-----------------------------------------------------------------------------
(* chan_try_send_pos *)
SendStart(t) ==
  /\ At(t, "idle") /\ t \in Senders
  /\ Cardinality(Accepted(t)) < MaxSends[rendezvous] /\ Cardinality(Tickets(t)) < MaxTickets
  /\ Goto(t, "s_closed")
  /\ UNCHANGED <<shared, ledger>>

SendClosed(t) ==
  /\ At(t, "s_closed")
  /\ IF closed THEN Return(t, "idle") ELSE Goto(t, "s_enq")
  /\ UNCHANGED <<shared, ledger>>

SendLoadEnq(t) ==
  /\ At(t, "s_enq")
  /\ LoadPos(t, enq, "s_seq")
  /\ UNCHANGED <<shared, ledger>>

SendLoadSeq(t) ==
  /\ At(t, "s_seq")
  /\ seen' = [seen EXCEPT ![t] = seq[Slot(pos[t])]]
  /\ pc' = [pc EXCEPT ![t] = "s_deq"]
  /\ UNCHANGED <<shared, pos, val, ledger>>

SendDecide(t) ==
  /\ At(t, "s_deq")
  /\ \/ (FullAt(pos[t]) \/ Behind(t, pos[t])) /\ Return(t, "idle")
     \/ ~FullAt(pos[t]) /\ Mine(t, pos[t]) /\ Goto(t, "s_again")
     \/ ~FullAt(pos[t]) /\ Ahead(t, pos[t]) /\ Goto(t, "s_enq")
  /\ UNCHANGED <<shared, ledger>>

SendClosedAgain(t) ==
  /\ At(t, "s_again")
  /\ IF closed THEN Return(t, "idle") ELSE Goto(t, "s_cas")
  /\ UNCHANGED <<shared, ledger>>

SendTicket(t) ==
  /\ At(t, "s_cas")
  /\ IF enq = pos[t]
     THEN /\ enq' = pos[t] + 1
          /\ ledger' = Append(ledger, [msg |-> NextMessage(t), fate |-> "open",
                                       told |-> "nothing"])
          /\ Goto(t, "s_store")
     ELSE LoadPos(t, enq, "s_seq") /\ UNCHANGED <<enq, ledger>>
  /\ UNCHANGED <<shape, deq, closed, seq, tv>>

SendStore(t) ==
  /\ At(t, "s_store")
  /\ tv' = [tv EXCEPT ![Slot(pos[t])] = ledger[pos[t] + 1].msg]
  /\ Goto(t, "s_pub")
  /\ UNCHANGED <<shape, enq, deq, closed, seq, ledger>>

(* Mutant: the slot is released with the sequence number it had. *)
SendPublishStale(t) ==
  /\ At(t, "s_pub")
  /\ seq' = [seq EXCEPT ![Slot(pos[t])] = pos[t]]
  /\ \/ rendezvous /\ Goto(t, "v_deq") /\ UNCHANGED ledger
     \/ ~rendezvous /\ Return(t, "idle") /\ Tell(t, "sent")
  /\ UNCHANGED <<shape, enq, deq, closed, tv>>

(* The release of seq.  The blocking and the timed send of a rendezvous,   *)
(* the only ones Lua can reach, go on to wait for the receiver.            *)
SendPublish(t) ==
  /\ At(t, "s_pub")
  /\ seq' = [seq EXCEPT ![Slot(pos[t])] = pos[t] + 1]
  /\ \/ rendezvous /\ Goto(t, "v_deq") /\ UNCHANGED ledger
     \/ ~rendezvous /\ Return(t, "idle") /\ Tell(t, "sent")
  /\ UNCHANGED <<shape, enq, deq, closed, tv>>

-----------------------------------------------------------------------------
(* Mutant: the sender's own position already counts as taken. *)
MeetLoadDeqEarly(t) ==
  /\ At(t, "v_deq")
  /\ IF deq >= pos[t]
     THEN Return(t, "idle") /\ Tell(t, "sent")
     ELSE Goto(t, "v_closed") /\ UNCHANGED ledger
  /\ UNCHANGED shared

(* chan_rendezvous_send_status and the loops around it *)
MeetLoadDeq(t) ==
  /\ At(t, "v_deq")
  /\ IF deq > pos[t]
     THEN Return(t, "idle") /\ Tell(t, "sent")
     ELSE Goto(t, "v_closed") /\ UNCHANGED ledger
  /\ UNCHANGED shared

MeetClosed(t) ==
  /\ At(t, "v_closed")
  /\ Goto(t, IF closed THEN "v_cancel" ELSE "v_wait")
  /\ UNCHANGED <<shared, ledger>>

MeetRetry(t) == At(t, "v_wait") /\ Goto(t, "v_deq") /\ UNCHANGED <<shared, ledger>>

(* The deadline of a timed send passed. *)
MeetTimeout(t) == At(t, "v_wait") /\ Goto(t, "v_cancel") /\ UNCHANGED <<shared, ledger>>

(* chan_wait throws: lj_safepoint_checkstop_fresh.  The message stays.     *)
MeetStop(t) == At(t, "v_wait") /\ Return(t, "idle") /\ UNCHANGED <<shared, ledger>>

(* chan_cancel_rendezvous_send *)
CancelTicket(t) ==
  /\ At(t, "v_cancel")
  /\ IF deq = pos[t]
     THEN /\ deq' = pos[t] + 1
          /\ ledger' = [ledger EXCEPT ![pos[t] + 1].fate = "withdrawn"]
          /\ Goto(t, "x_clear")
     ELSE Return(t, "idle") /\ Tell(t, "sent") /\ UNCHANGED deq
  /\ UNCHANGED <<shape, enq, closed, seq, tv>>

CancelClear(t) ==
  /\ At(t, "x_clear")
  /\ tv' = [tv EXCEPT ![Slot(pos[t])] = Cleared]
  /\ Goto(t, "x_pub")
  /\ UNCHANGED <<shape, enq, deq, closed, seq, ledger>>

CancelPublish(t) ==
  /\ At(t, "x_pub")
  /\ seq' = [seq EXCEPT ![Slot(pos[t])] = pos[t] + cap]
  /\ Return(t, "idle") /\ Tell(t, "not sent")
  /\ UNCHANGED <<shape, enq, deq, closed, tv>>

-----------------------------------------------------------------------------
(* chan_try_recv_pub *)
RecvStart(t) ==
  /\ At(t, "idle") \/ At(t, "ended")
  /\ t \in Receivers
  /\ LoadPos(t, deq, "r_seq")
  /\ UNCHANGED <<shared, ledger>>

(* Mutant: a free slot is taken for a full one. *)
RecvLoadSeqFree(t) ==
  /\ At(t, "r_seq")
  /\ LET s == seq[Slot(pos[t])] IN
       Goto(t, CASE s \in {pos[t], pos[t] + 1} -> "r_cas"
                 [] s < pos[t] -> "r_closed"
                 [] OTHER      -> "r_deq")
  /\ UNCHANGED <<shared, ledger>>

RecvLoadSeq(t) ==
  /\ At(t, "r_seq")
  /\ LET s == seq[Slot(pos[t])] IN
       \/ s = pos[t] + 1 /\ Goto(t, "r_cas")
       \/ s < pos[t] + 1 /\ Goto(t, "r_closed")
       \/ s > pos[t] + 1 /\ Goto(t, "r_deq")
  /\ UNCHANGED <<shared, ledger>>

RecvLoadDeq(t) ==
  /\ At(t, "r_deq")
  /\ LoadPos(t, deq, "r_seq")
  /\ UNCHANGED <<shared, ledger>>

(* Mutant: the ticket is stored, not compared and swapped. *)
RecvTicketStore(t) ==
  /\ At(t, "r_cas")
  /\ deq' = pos[t] + 1
  /\ ledger' = [ledger EXCEPT ![pos[t] + 1].fate = "taken"]
  /\ Goto(t, "r_load")
  /\ UNCHANGED <<shape, enq, closed, seq, tv>>

RecvTicket(t) ==
  /\ At(t, "r_cas")
  /\ IF deq = pos[t]
     THEN /\ deq' = pos[t] + 1
          /\ ledger' = [ledger EXCEPT ![pos[t] + 1].fate = "taken"]
          /\ Goto(t, "r_load")
     ELSE LoadPos(t, deq, "r_seq") /\ UNCHANGED <<deq, ledger>>
  /\ UNCHANGED <<shape, enq, closed, seq, tv>>

(* Mutant: the slot is handed to the next lap before it is cleared. *)
RecvLoadRelease(t) ==
  /\ At(t, "r_load")
  /\ val' = [val EXCEPT ![t] = tv[Slot(pos[t])]]
  /\ seq' = [seq EXCEPT ![Slot(pos[t])] = pos[t] + cap]
  /\ pc' = [pc EXCEPT ![t] = "r_clear"]
  /\ UNCHANGED <<shape, enq, deq, closed, tv, pos, seen, ledger>>

RecvLoad(t) ==
  /\ At(t, "r_load")
  /\ val' = [val EXCEPT ![t] = tv[Slot(pos[t])]]
  /\ pc' = [pc EXCEPT ![t] = "r_clear"]
  /\ UNCHANGED <<shared, pos, seen, ledger>>

RecvClear(t) ==
  /\ At(t, "r_clear")
  /\ tv' = [tv EXCEPT ![Slot(pos[t])] = Cleared]
  /\ Goto(t, "r_pub")
  /\ UNCHANGED <<shape, enq, deq, closed, seq, ledger>>

(* Mutant: the slot is released for the wrong lap. *)
RecvPublishNoLap(t) ==
  /\ At(t, "r_pub")
  /\ seq' = [seq EXCEPT ![Slot(pos[t])] = pos[t] + 1]
  /\ Return(t, "idle")
  /\ UNCHANGED <<shape, enq, deq, closed, tv, ledger>>

RecvPublish(t) ==
  /\ At(t, "r_pub")
  /\ seq' = [seq EXCEPT ![Slot(pos[t])] = pos[t] + cap]
  /\ Return(t, "idle")
  /\ UNCHANGED <<shape, enq, deq, closed, tv, ledger>>

(* Mutant: closed is the end, whatever is still in the channel. *)
RecvClosedAtOnce(t) ==
  /\ At(t, "r_closed")
  /\ Return(t, IF closed THEN "ended" ELSE "idle")
  /\ UNCHANGED <<shared, ledger>>

(* Nothing to take: EMPTY unless the channel is closed and drained. *)
RecvClosed(t) ==
  /\ At(t, "r_closed")
  /\ IF closed THEN Goto(t, "r_enq") ELSE Return(t, "idle")
  /\ UNCHANGED <<shared, ledger>>

RecvLoadEnq(t) ==
  /\ At(t, "r_enq")
  /\ Return(t, IF enq <= pos[t] THEN "ended" ELSE "idle")
  /\ UNCHANGED <<shared, ledger>>

-----------------------------------------------------------------------------
(* lj_chan_peek_gc *)
PeekStart(t) ==
  /\ At(t, "idle") \/ At(t, "peeked")
  /\ t \in Peekers
  /\ LoadPos(t, deq, "p_seq")
  /\ UNCHANGED <<shared, ledger>>

PeekLoadSeq(t) ==
  /\ At(t, "p_seq")
  /\ LET s == seq[Slot(pos[t])] IN
       \/ s = pos[t] + 1 /\ Goto(t, "p_load")
       \/ s < pos[t] + 1 /\ Goto(t, "p_closed")
       \/ s > pos[t] + 1 /\ Goto(t, "p_deq")
  /\ UNCHANGED <<shared, ledger>>

PeekLoadDeq(t) ==
  /\ At(t, "p_deq")
  /\ LoadPos(t, deq, "p_seq")
  /\ UNCHANGED <<shared, ledger>>

(* Mutant: the value is returned without the three rechecks. *)
PeekLoadUnchecked(t) ==
  /\ At(t, "p_load")
  /\ val' = [val EXCEPT ![t] = tv[Slot(pos[t])]]
  /\ pc' = [pc EXCEPT ![t] = "peeked"]
  /\ UNCHANGED <<shared, pos, seen, ledger>>

PeekLoad(t) ==
  /\ At(t, "p_load")
  /\ val' = [val EXCEPT ![t] = tv[Slot(pos[t])]]
  /\ pc' = [pc EXCEPT ![t] = "p_deq2"]
  /\ UNCHANGED <<shared, pos, seen, ledger>>

(* The three rechecks; seq is known to have been pos + 1. *)
Recheck(t, here, holds, next) ==
  /\ At(t, here)
  /\ Goto(t, IF holds THEN next ELSE "p_deq")
  /\ UNCHANGED <<shared, ledger>>

PeekRecheck(t) ==
  \/ Recheck(t, "p_deq2", deq = pos[t], "p_seq2")
  \/ Recheck(t, "p_seq2", seq[Slot(pos[t])] = pos[t] + 1, "p_tv2")
  \/ Recheck(t, "p_tv2", tv[Slot(pos[t])] = val[t], "peeked")

PeekClosed(t) ==
  /\ At(t, "p_closed")
  /\ IF closed THEN Goto(t, "p_enq") ELSE Return(t, "idle")
  /\ UNCHANGED <<shared, ledger>>

PeekLoadEnq(t) ==
  /\ At(t, "p_enq")
  /\ Return(t, "idle")      \* CLOSED or EMPTY: nil, false for Lua
  /\ UNCHANGED <<shared, ledger>>

-----------------------------------------------------------------------------
(* lj_chan_close, by any thread and also from the finaliser *)
Close ==
  /\ ~closed
  /\ closed' = TRUE
  /\ UNCHANGED <<shape, enq, deq, seq, tv, local, ledger>>

SendStep(t) ==
  \/ SendClosed(t) \/ SendLoadEnq(t) \/ SendLoadSeq(t) \/ SendDecide(t)
  \/ SendClosedAgain(t) \/ SendTicket(t) \/ SendStore(t) \/ SendPublish(t)

MeetStep(t) ==
  \/ MeetLoadDeq(t) \/ MeetClosed(t) \/ MeetRetry(t)
  \/ CancelTicket(t) \/ CancelClear(t) \/ CancelPublish(t)

RecvStep(t) ==
  \/ RecvLoadSeq(t) \/ RecvLoadDeq(t) \/ RecvTicket(t) \/ RecvLoad(t)
  \/ RecvClear(t) \/ RecvPublish(t) \/ RecvClosed(t) \/ RecvLoadEnq(t)

PeekStep(t) ==
  \/ PeekStart(t) \/ PeekLoadSeq(t) \/ PeekLoadDeq(t) \/ PeekLoad(t)
  \/ PeekRecheck(t) \/ PeekClosed(t) \/ PeekLoadEnq(t)

Next ==
  \/ Close
  \/ \E t \in Threads :
       \/ SendStart(t) \/ SendStep(t)
       \/ MeetStep(t) \/ MeetTimeout(t) \/ MeetStop(t)
       \/ RecvStart(t) \/ RecvStep(t)
       \/ PeekStep(t)

Spec == Init /\ [][Next]_vars

(***************************************************************************)
(* A thread inside a call goes on.  Senders and receivers keep attempting, *)
(* as the retry loops of lj_chan_send and lj_chan_recv do (and a receiver  *)
(* that calls again); nobody has to close, time out or stop.               *)
(***************************************************************************)
Fairness ==
  /\ \A t \in Senders : WF_vars(SendStart(t) \/ SendStep(t) \/ MeetStep(t))
  /\ \A t \in Receivers : WF_vars(RecvStart(t) \/ RecvStep(t))

FairSpec == Spec /\ Fairness

-----------------------------------------------------------------------------
(* A receiver loads from its slot exactly the message of its ticket, and a *)
(* peek that succeeds returns the message of the position it looked at:    *)
(* no message is lost, doubled, torn off by the next lap or read cleared.  *)
TakenAsSent ==
  \A t \in Threads :
    pc[t] \in {"r_clear", "r_pub", "peeked"} => val[t] = ledger[pos[t] + 1].msg

(* The threads between the CAS that won a ticket and the release of seq:   *)
(* the plain stores to a slot belong to one of them.                       *)
Holding == {"s_store", "s_pub", "r_load", "r_clear", "r_pub", "x_clear", "x_pub"}

(* Two threads never work on one slot at a time, though no lock says so:   *)
(* the sequence number keeps the next lap out until the slot is handed on. *)
SlotExclusive ==
  \A t, u \in Threads :
    t # u /\ pc[t] \in Holding /\ pc[u] \in Holding => Slot(pos[t]) # Slot(pos[u])

(* A receiver is told CLOSED (nil, false) only when the channel is closed  *)
(* and, at the load of enq that decides it, nothing is left to take, stale *)
(* as its position may be.                                                 *)
EndOfStream ==
  [][\A t \in Receivers :
       pc[t] # "ended" /\ pc'[t] = "ended" => closed /\ deq = enq]_vars

(* On a rendezvous, a sender is told "sent" only if a receiver took the    *)
(* message and "not sent" (timeout, closed) only if no receiver ever will. *)
MeetTruthful ==
  \A i \in DOMAIN ledger :
    /\ rendezvous /\ ledger[i].told = "sent" => ledger[i].fate = "taken"
    /\ ledger[i].told = "not sent" => ledger[i].fate = "withdrawn"

(* What either side is told about a message is true.                       *)
ToldTrue == TakenAsSent /\ MeetTruthful

(* The channel as a bounded first-in first-out queue: a send takes effect  *)
(* at its ticket, a receive at its own, and the value in the slot until it *)
(* is loaded, then the value loaded, is what the receiver is handed.       *)
Queue == INSTANCE ChannelQueue
  WITH Nothing <- Cleared,
       bound <- cap,
       revocable <- rendezvous,
       queue <- [i \in 1 .. (enq - deq) |-> ledger[deq + i].msg],
       hand <- [r \in Receivers |->
                 IF pc[r] = "r_load" THEN tv[Slot(pos[r])]
                 ELSE IF pc[r] \in {"r_clear", "r_pub"} THEN val[r]
                 ELSE Cleared]

ImplementsQueue == Queue!Spec

(* Whatever was accepted is delivered: while receivers keep coming, every  *)
(* ticket issued is taken, whoever is delayed between CAS and release.     *)
EveryTicketTaken ==
  \A i \in Positions \ {0} : (enq >= i) ~> (deq >= i)

(* A sender that keeps trying gets its messages in or finds the channel    *)
(* closed: no slot is lost to it for ever.  (On a rendezvous it may time   *)
(* out every time.)                                                        *)
SendersServed ==
  \A t \in Senders : <>(closed \/ rendezvous \/ Cardinality(Accepted(t)) = MaxSends[rendezvous])
=============================================================================
