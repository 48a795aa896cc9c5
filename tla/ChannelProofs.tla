--------------------------- MODULE ChannelProofs ---------------------------
(***************************************************************************)
(* Theorems of Channel, for any number of threads, messages and slots.     *)
(*                                                                         *)
(* The inductive invariant IInv holds of a channel of any capacity: types, *)
(* where a position is between deq and enq, that a slot never runs ahead   *)
(* of the tickets, and that a sender is told the fate of its own ticket.   *)
(* RingInv adds, for two slots or more, that the sequence number of a slot *)
(* says who may touch its value; from there each step is a step of the     *)
(* queue in ChannelQueue, or none.  A lemma on the steps of one thread     *)
(* (Step...) goes before the lemma on all threads (Next...).               *)
(***************************************************************************)
EXTENDS Channel, FiniteSetTheorems, SequenceTheorems, TLAPS

(* Division with remainder.                                                *)
LEMMA Euclid ==
  ASSUME NEW p \in Nat, NEW c \in Nat \ {0}
  PROVE  /\ p = c * (p \div c) + (p % c) /\ p \div c \in Nat
         /\ p % c \in 0 .. (c - 1)
OBVIOUS

(* Neighbouring positions have different slots, given two slots.           *)
LEMMA NextSlot ==
  ASSUME NEW p \in Nat, NEW c \in Nat, c >= 2
  PROVE  ((p + 1) % c) # (p % c)
<1> SUFFICES ASSUME ((p + 1) % c) = (p % c) PROVE FALSE
  OBVIOUS
<1> DEFINE k == p \div c
           l == (p + 1) \div c
           m == p % c
<1>1. /\ p = c * k + m /\ p + 1 = c * l + m
      /\ k \in Nat /\ l \in Nat /\ m \in 0 .. (c - 1)
  BY Euclid, p + 1 \in Nat, c \in Nat \ {0}
<1> HIDE DEF k, l, m
<1> DEFINE d == l - k
<1>2. d \in Int /\ c * d = 1
  BY <1>1, c * l - c * k = c * (l - k)
<1> HIDE DEF d
<1>3. ~(d >= 1)
  BY <1>2
<1>4. ~(d <= 0)
  BY <1>2
<1>5. QED
  BY <1>2, <1>3, <1>4

(* A position and the one a lap later have the same slot.                  *)
LEMMA SameLap ==
  ASSUME NEW p \in Nat, NEW c \in Nat \ {0}
  PROVE  ((p + c) % c) = (p % c)
<1> DEFINE k == p \div c
           l == (p + c) \div c
           m == p % c
           n == (p + c) % c
<1>1. /\ p = c * k + m /\ p + c = c * l + n
      /\ k \in Nat /\ l \in Nat /\ m \in 0 .. (c - 1) /\ n \in 0 .. (c - 1)
  BY Euclid, p + c \in Nat
<1> HIDE DEF k, l, m, n
<1>2. c * l - c * k - c = m - n /\ c * l - c * k - c = c * (l - k - 1)
  BY <1>1
<1>3. m - n < c /\ n - m < c
  BY <1>1
<1> DEFINE d == l - k - 1
<1>4. d \in Int /\ c * d = m - n
  BY <1>1, <1>2
<1> HIDE DEF d
<1>5. d = 0
  <2>1. ~(d >= 1)
    BY <1>3, <1>4, <1>1
  <2>2. ~(d <= -1)
    <3> SUFFICES ASSUME d <= -1 PROVE FALSE
      OBVIOUS
    <3>1. c * d <= c * (-1)
      BY <1>4
    <3>2. QED
      BY <3>1, <1>3, <1>4, <1>1
  <2>3. QED
    BY <2>1, <2>2, <1>4
<1>6. m = n
  BY <1>4, <1>5, <1>1
<1>7. QED
  BY <1>6 DEF m, n

-----------------------------------------------------------------------------
(* Between the start of a send and its CAS: the budget of tickets allows   *)
(* one more.                                                               *)
Deciding == {"s_closed", "s_enq", "s_seq", "s_deq", "s_again", "s_cas"}

(* Everywhere a thread can be.                                             *)
Labels == SendPcs \cup RecvPcs \cup PeekPcs \cup {"idle", "ended"}

(* Types of what the control of the channel depends on.                    *)
Shape ==
  /\ cap \in Nat \ {0} /\ cap \in {RoundCapacity(c) : c \in Capacities}
  /\ rendezvous \in BOOLEAN /\ (rendezvous => cap = 1)
  /\ closed \in BOOLEAN /\ enq \in Nat /\ deq \in Nat
  /\ ledger \in Seq(Entry) /\ enq = Len(ledger)
  /\ pc \in [Threads -> Labels] /\ pos \in [Threads -> Nat]

(* Types of what is in the slots and what threads have read of them.       *)
Contents ==
  /\ seq \in [Slots -> Nat] /\ tv \in [Slots -> Messages \cup {Cleared}]
  /\ seen \in [Threads -> Nat] /\ val \in [Threads -> Messages \cup {Cleared}]

(* No sender takes more tickets than MaxTickets, a bound of the model.     *)
Budget ==
  \A t \in Senders :
    /\ Cardinality(Tickets(t)) <= MaxTickets
    /\ pc[t] \in Deciding => Cardinality(Tickets(t)) < MaxTickets

(* The messages of a sender are numbered in order, so all of them differ.  *)
Numbered ==
  /\ \A i \in DOMAIN ledger, u \in Senders :
       ledger[i].msg[1] = u => ledger[i].msg[2] <= Cardinality(Tickets(u))
  /\ \A i, j \in DOMAIN ledger : i # j => ledger[i].msg # ledger[j].msg

(* Only senders are in a send, only receivers in a receive.                *)
Sides ==
  \A t \in Threads :
    /\ pc[t] \in SendPcs => t \in Senders
    /\ pc[t] \in RecvPcs \cup {"ended"} => t \in Receivers

(* A sender has finitely many tickets.                                     *)
LEMMA TicketsFinite ==
  ASSUME ledger \in Seq(Entry), NEW t
  PROVE  IsFiniteSet(Tickets(t)) /\ Cardinality(Tickets(t)) \in Nat
<1>1. Tickets(t) \subseteq 1 .. Len(ledger)
  BY DEF Tickets
<1>2. IsFiniteSet(1 .. Len(ledger))
  BY FS_Interval
<1>3. IsFiniteSet(Tickets(t))
  BY <1>1, <1>2, FS_Subset
<1>4. QED
  BY <1>3, FS_CardinalityType

(* What a step may do to the ledger: an entry keeps its message. *)
Kept ==
  /\ Len(ledger') = Len(ledger)
  /\ \A i \in 1 .. Len(ledger) : ledger'[i].msg = ledger[i].msg

(* Tickets are told by their messages alone.                               *)
LEMMA TicketsKept ==
  ASSUME ledger \in Seq(Entry), ledger' \in Seq(Entry), Kept, NEW t
  PROVE  Tickets(t)' = Tickets(t)
BY DEF Kept, Tickets

(* A ticket appended is one more for its sender, and none for anybody else.*)
LEMMA TicketsGrow ==
  ASSUME ledger \in Seq(Entry), NEW e \in Entry, ledger' = Append(ledger, e), NEW t
  PROVE  /\ e.msg[1] # t => Tickets(t)' = Tickets(t)
         /\ e.msg[1] = t =>
              Cardinality(Tickets(t)') = Cardinality(Tickets(t)) + 1
<1>1. /\ DOMAIN ledger' = 1 .. Len(ledger) + 1
      /\ DOMAIN ledger = 1 .. Len(ledger) /\ Len(ledger) \in Nat
      /\ ledger'[Len(ledger) + 1] = e
      /\ \A i \in 1 .. Len(ledger) : ledger'[i] = ledger[i]
  OBVIOUS
<1>2. e.msg[1] # t => Tickets(t)' = Tickets(t)
  BY <1>1 DEF Tickets
<1>3. ASSUME e.msg[1] = t
      PROVE  Cardinality(Tickets(t)') = Cardinality(Tickets(t)) + 1
  <2>1. Tickets(t)' = Tickets(t) \cup {Len(ledger) + 1}
    BY <1>1, <1>3 DEF Tickets
  <2>2. Len(ledger) + 1 \notin Tickets(t)
    BY <1>1 DEF Tickets
  <2>3. QED
    BY <2>1, <2>2, TicketsFinite, FS_AddElement
<1>4. QED
  BY <1>2, <1>3

(* An interval from 1 tells its length.                                    *)
LEMMA SameInterval ==
  ASSUME NEW x \in Nat, NEW y \in Nat, 1 .. x = 1 .. y
  PROVE  x = y
<1>1. \A a, b \in Nat : 1 .. a = 1 .. b => a <= b
  <2> SUFFICES ASSUME NEW a \in Nat, NEW b \in Nat, 1 .. a = 1 .. b, a # 0
               PROVE  a <= b
    OBVIOUS
  <2>1. a \in 1 .. a
    OBVIOUS
  <2>2. a \in 1 .. b
    BY <2>1
  <2>3. QED
    BY <2>2
<1>2. x <= y /\ y <= x
  BY <1>1
<1>3. QED
  BY <1>2

(* An answer changes one field of one entry.                               *)
LEMMA EntryTold ==
  ASSUME ledger \in Seq(Entry), NEW k \in Nat, NEW a \in {"sent", "not sent"},
         ledger' = [ledger EXCEPT ![k].told = a]
  PROVE  /\ ledger' \in Seq(Entry) /\ Len(ledger') = Len(ledger)
         /\ \A i \in 1 .. Len(ledger) :
              /\ ledger'[i].msg = ledger[i].msg /\ ledger'[i].fate = ledger[i].fate
              /\ i = k => ledger'[i].told = a
              /\ i # k => ledger'[i].told = ledger[i].told
<1> DEFINE n == Len(ledger)
<1>1. n \in Nat /\ ledger \in [1 .. n -> Entry] /\ DOMAIN ledger = 1 .. n
  BY LenProperties
<1>2. \A i \in 1 .. n : ledger[i] \in Entry /\ [ledger[i] EXCEPT !.told = a] \in Entry
  BY <1>1 DEF Entry
<1>3. \A i \in 1 .. n :
        /\ i = k => ledger'[i] = [ledger[i] EXCEPT !.told = a]
        /\ i # k => ledger'[i] = ledger[i]
  BY <1>1
<1>4. ledger' \in [1 .. n -> Entry]
  <2>1. DOMAIN ledger' = 1 .. n /\ ledger' = [i \in 1 .. n |-> ledger'[i]]
    BY <1>1
  <2>2. \A i \in 1 .. n : ledger'[i] \in Entry
    BY <1>2, <1>3
  <2>3. QED
    BY <2>1, <2>2
<1>5. \A e \in Entry :
        /\ [e EXCEPT !.told = a].msg = e.msg /\ [e EXCEPT !.told = a].fate = e.fate
        /\ [e EXCEPT !.told = a].told = a
  BY DEF Entry
<1>6. ledger' \in Seq(Entry)
  BY <1>1, <1>4, SeqDef
<1>7. Len(ledger') \in Nat /\ 1 .. Len(ledger') = 1 .. n
  BY <1>4, <1>6, LenProperties
<1>8. Len(ledger') = n
  BY <1>1, <1>7, SameInterval
<1>9. ASSUME NEW i \in 1 .. n
      PROVE  /\ ledger'[i].msg = ledger[i].msg /\ ledger'[i].fate = ledger[i].fate
             /\ i = k => ledger'[i].told = a
             /\ i # k => ledger'[i].told = ledger[i].told
  <2>1. CASE i = k
    <3>1. ledger'[i] = [ledger[i] EXCEPT !.told = a]
      BY <1>3, <2>1
    <3>2. QED
      BY <1>2, <1>5, <2>1, <3>1
  <2>2. CASE i # k
    BY <1>3, <2>2
  <2>3. QED
    BY <2>1, <2>2
<1>10. QED
  BY <1>6, <1>8, <1>9

(* A fate changes one field of one entry.                                  *)
LEMMA EntryFate ==
  ASSUME ledger \in Seq(Entry), NEW k \in Nat, NEW a \in {"taken", "withdrawn"},
         ledger' = [ledger EXCEPT ![k].fate = a]
  PROVE  /\ ledger' \in Seq(Entry) /\ Len(ledger') = Len(ledger)
         /\ \A i \in 1 .. Len(ledger) :
              /\ ledger'[i].msg = ledger[i].msg /\ ledger'[i].told = ledger[i].told
              /\ i = k => ledger'[i].fate = a
              /\ i # k => ledger'[i].fate = ledger[i].fate
<1> DEFINE n == Len(ledger)
<1>1. n \in Nat /\ ledger \in [1 .. n -> Entry] /\ DOMAIN ledger = 1 .. n
  BY LenProperties
<1>2. \A i \in 1 .. n : ledger[i] \in Entry /\ [ledger[i] EXCEPT !.fate = a] \in Entry
  BY <1>1 DEF Entry
<1>3. \A i \in 1 .. n :
        /\ i = k => ledger'[i] = [ledger[i] EXCEPT !.fate = a]
        /\ i # k => ledger'[i] = ledger[i]
  BY <1>1
<1>4. ledger' \in [1 .. n -> Entry]
  <2>1. DOMAIN ledger' = 1 .. n /\ ledger' = [i \in 1 .. n |-> ledger'[i]]
    BY <1>1
  <2>2. \A i \in 1 .. n : ledger'[i] \in Entry
    BY <1>2, <1>3
  <2>3. QED
    BY <2>1, <2>2
<1>5. \A e \in Entry :
        /\ [e EXCEPT !.fate = a].msg = e.msg /\ [e EXCEPT !.fate = a].told = e.told
        /\ [e EXCEPT !.fate = a].fate = a
  BY DEF Entry
<1>6. ledger' \in Seq(Entry)
  BY <1>1, <1>4, SeqDef
<1>7. Len(ledger') \in Nat /\ 1 .. Len(ledger') = 1 .. n
  BY <1>4, <1>6, LenProperties
<1>8. Len(ledger') = n
  BY <1>1, <1>7, SameInterval
<1>9. ASSUME NEW i \in 1 .. n
      PROVE  /\ ledger'[i].msg = ledger[i].msg /\ ledger'[i].told = ledger[i].told
             /\ i = k => ledger'[i].fate = a
             /\ i # k => ledger'[i].fate = ledger[i].fate
  <2>1. CASE i = k
    <3>1. ledger'[i] = [ledger[i] EXCEPT !.fate = a]
      BY <1>3, <2>1
    <3>2. QED
      BY <1>2, <1>5, <2>1, <3>1
  <2>2. CASE i # k
    BY <1>3, <2>2
  <2>3. QED
    BY <2>1, <2>2
<1>10. QED
  BY <1>6, <1>8, <1>9

(* An answer or a fate is entered at ticket k. *)
Marks(k) ==
  \/ \E a \in {"sent", "not sent"} : ledger' = [ledger EXCEPT ![k].told = a]
  \/ \E a \in {"taken", "withdrawn"} : ledger' = [ledger EXCEPT ![k].fate = a]

(* Neither touches the other entries, or any message.                      *)
LEMMA MarksKept ==
  ASSUME ledger \in Seq(Entry), NEW k \in Nat, Marks(k)
  PROVE  /\ ledger' \in Seq(Entry) /\ Kept
         /\ \A i \in 1 .. Len(ledger) : i # k =>
              ledger'[i].told = ledger[i].told /\ ledger'[i].fate = ledger[i].fate
<1>1. ASSUME NEW a \in {"sent", "not sent"}, ledger' = [ledger EXCEPT ![k].told = a]
      PROVE  /\ ledger' \in Seq(Entry) /\ Kept
             /\ \A i \in 1 .. Len(ledger) : i # k =>
                  ledger'[i].told = ledger[i].told /\ ledger'[i].fate = ledger[i].fate
  BY <1>1, EntryTold DEF Kept
<1>2. ASSUME NEW a \in {"taken", "withdrawn"}, ledger' = [ledger EXCEPT ![k].fate = a]
      PROVE  /\ ledger' \in Seq(Entry) /\ Kept
             /\ \A i \in 1 .. Len(ledger) : i # k =>
                  ledger'[i].told = ledger[i].told /\ ledger'[i].fate = ledger[i].fate
  BY <1>2, EntryFate DEF Kept
<1>3. QED
  BY <1>1, <1>2 DEF Marks

-----------------------------------------------------------------------------
(* A step of thread t, and what it leaves alone. *)
Step(t) ==
  \/ SendStart(t) \/ SendStep(t)
  \/ MeetStep(t) \/ MeetTimeout(t) \/ MeetStop(t)
  \/ RecvStart(t) \/ RecvStep(t)
  \/ PeekStep(t)

(* The local variables of the other threads stay as they are.              *)
Alone(t) ==
  \A u \in Threads \ {t} :
    pc'[u] = pc[u] /\ pos'[u] = pos[u] /\ seen'[u] = seen[u] /\ val'[u] = val[u]

(* Every step but the one of Close is a step of one thread.                *)
LEMMA Stepping ==
  ASSUME [Next]_vars
  PROVE  Close \/ UNCHANGED vars \/ \E t \in Threads : Step(t)
BY DEF Next, Step

(* No step of t touches the local variables of another thread.             *)
LEMMA StepAlone ==
  ASSUME NEW t \in Threads, Step(t),
         pc \in [Threads -> Labels], pos \in [Threads -> Nat],
         seen \in [Threads -> Nat], val \in [Threads -> Messages \cup {Cleared}]
  PROVE  Alone(t)
<1> USE DEF Alone, Goto, LoadPos, Return
<1>1. CASE SendStart(t) \/ SendStep(t)
  <2>1. CASE SendStart(t)
    BY <2>1 DEF SendStart
  <2>2. CASE SendClosed(t)
    BY <2>2 DEF SendClosed
  <2>3. CASE SendLoadEnq(t)
    BY <2>3 DEF SendLoadEnq
  <2>4. CASE SendLoadSeq(t)
    BY <2>4 DEF SendLoadSeq
  <2>5. CASE SendDecide(t)
    BY <2>5 DEF SendDecide
  <2>6. CASE SendClosedAgain(t)
    BY <2>6 DEF SendClosedAgain
  <2>7. CASE SendTicket(t)
    BY <2>7 DEF SendTicket
  <2>8. CASE SendStore(t)
    BY <2>8 DEF SendStore
  <2>9. CASE SendPublish(t)
    BY <2>9 DEF SendPublish
  <2> HIDE DEF Alone
  <2>10. QED
    BY <1>1, <2>1, <2>2, <2>3, <2>4, <2>5, <2>6, <2>7, <2>8, <2>9 DEF SendStep
<1>2. CASE MeetStep(t) \/ MeetTimeout(t) \/ MeetStop(t)
  <2>1. CASE MeetLoadDeq(t)
    BY <2>1 DEF MeetLoadDeq
  <2>2. CASE MeetClosed(t)
    BY <2>2 DEF MeetClosed
  <2>3. CASE MeetRetry(t)
    BY <2>3 DEF MeetRetry
  <2>4. CASE CancelTicket(t)
    BY <2>4 DEF CancelTicket
  <2>5. CASE CancelClear(t)
    BY <2>5 DEF CancelClear
  <2>6. CASE CancelPublish(t)
    BY <2>6 DEF CancelPublish
  <2>7. CASE MeetTimeout(t)
    BY <2>7 DEF MeetTimeout
  <2>8. CASE MeetStop(t)
    BY <2>8 DEF MeetStop
  <2> HIDE DEF Alone
  <2>9. QED
    BY <1>2, <2>1, <2>2, <2>3, <2>4, <2>5, <2>6, <2>7, <2>8 DEF MeetStep
<1>3. CASE RecvStart(t) \/ RecvStep(t)
  <2>1. CASE RecvStart(t)
    BY <2>1 DEF RecvStart
  <2>2. CASE RecvLoadSeq(t)
    BY <2>2 DEF RecvLoadSeq
  <2>3. CASE RecvLoadDeq(t)
    BY <2>3 DEF RecvLoadDeq
  <2>4. CASE RecvTicket(t)
    BY <2>4 DEF RecvTicket
  <2>5. CASE RecvLoad(t)
    BY <2>5 DEF RecvLoad
  <2>6. CASE RecvClear(t)
    BY <2>6 DEF RecvClear
  <2>7. CASE RecvPublish(t)
    BY <2>7 DEF RecvPublish
  <2>8. CASE RecvClosed(t)
    BY <2>8 DEF RecvClosed
  <2>9. CASE RecvLoadEnq(t)
    BY <2>9 DEF RecvLoadEnq
  <2> HIDE DEF Alone
  <2>10. QED
    BY <1>3, <2>1, <2>2, <2>3, <2>4, <2>5, <2>6, <2>7, <2>8, <2>9 DEF RecvStep
<1>4. CASE PeekStep(t)
  <2>1. CASE PeekStart(t)
    BY <2>1 DEF PeekStart
  <2>2. CASE PeekLoadSeq(t)
    BY <2>2 DEF PeekLoadSeq
  <2>3. CASE PeekLoadDeq(t)
    BY <2>3 DEF PeekLoadDeq
  <2>4. CASE PeekLoad(t)
    BY <2>4 DEF PeekLoad
  <2>5. CASE PeekRecheck(t)
    BY <2>5 DEF PeekRecheck, Recheck
  <2>6. CASE PeekClosed(t)
    BY <2>6 DEF PeekClosed
  <2>7. CASE PeekLoadEnq(t)
    BY <2>7 DEF PeekLoadEnq
  <2> HIDE DEF Alone
  <2>8. QED
    BY <1>4, <2>1, <2>2, <2>3, <2>4, <2>5, <2>6, <2>7 DEF PeekStep
<1> HIDE DEF Alone
<1>5. QED
  BY <1>1, <1>2, <1>3, <1>4 DEF Step

(* Only a successful CAS of enq appends to the ledger; the other steps keep *)
(* the messages in it.                                                      *)
TicketWon(t) == SendTicket(t) /\ enq = pos[t]

(* The ledger gains no entry and loses no message.                         *)
Keeping == UNCHANGED enq /\ Kept /\ ledger' \in Seq(Entry)

(* A step of a thread wins a ticket, or keeps the messages.                *)
LEMMA StepLedger ==
  ASSUME Shape, NEW t \in Threads, Step(t)
  PROVE  TicketWon(t) \/ Keeping
<1>a. UNCHANGED <<enq, ledger>> => Keeping
  BY DEF Shape, Kept, Keeping
<1>b. Marks(pos[t] + 1) /\ UNCHANGED enq => Keeping
  BY MarksKept, pos[t] + 1 \in Nat DEF Shape, Keeping
<1> USE DEF shared, ring
<1>1. CASE SendStart(t) \/ SendStep(t)
  <2>1. CASE SendStart(t)
    BY <2>1, <1>a DEF SendStart
  <2>2. CASE SendClosed(t)
    BY <2>2, <1>a DEF SendClosed
  <2>3. CASE SendLoadEnq(t)
    BY <2>3, <1>a DEF SendLoadEnq
  <2>4. CASE SendLoadSeq(t)
    BY <2>4, <1>a DEF SendLoadSeq
  <2>5. CASE SendDecide(t)
    BY <2>5, <1>a DEF SendDecide
  <2>6. CASE SendClosedAgain(t)
    BY <2>6, <1>a DEF SendClosedAgain
  <2>7. CASE SendTicket(t)
    BY <1>a, <2>7 DEF SendTicket, TicketWon
  <2>8. CASE SendStore(t)
    BY <2>8, <1>a DEF SendStore
  <2>9. CASE SendPublish(t)
    <3>1. (Marks(pos[t] + 1) \/ UNCHANGED ledger) /\ UNCHANGED enq
      BY <2>9 DEF SendPublish, Marks, Tell
    <3>2. QED
      BY <1>a, <1>b, <3>1
  <2>10. QED
    BY <1>1, <2>1, <2>2, <2>3, <2>4, <2>5, <2>6, <2>7, <2>8, <2>9 DEF SendStep
<1>2. CASE MeetStep(t) \/ MeetTimeout(t) \/ MeetStop(t)
  <2>1. CASE MeetLoadDeq(t)
    <3>1. (Marks(pos[t] + 1) \/ UNCHANGED ledger) /\ UNCHANGED enq
      BY <2>1 DEF MeetLoadDeq, Marks, Tell
    <3>2. QED
      BY <1>a, <1>b, <3>1
  <2>2. CASE MeetClosed(t)
    BY <2>2, <1>a DEF MeetClosed
  <2>3. CASE MeetRetry(t)
    BY <2>3, <1>a DEF MeetRetry
  <2>4. CASE CancelTicket(t)
    <3>1. (Marks(pos[t] + 1) \/ UNCHANGED ledger) /\ UNCHANGED enq
      BY <2>4 DEF CancelTicket, Marks, Tell
    <3>2. QED
      BY <1>a, <1>b, <3>1
  <2>5. CASE CancelClear(t)
    BY <2>5, <1>a DEF CancelClear
  <2>6. CASE CancelPublish(t)
    <3>1. (Marks(pos[t] + 1) \/ UNCHANGED ledger) /\ UNCHANGED enq
      BY <2>6 DEF CancelPublish, Marks, Tell
    <3>2. QED
      BY <1>a, <1>b, <3>1
  <2>7. CASE MeetTimeout(t)
    BY <2>7, <1>a DEF MeetTimeout
  <2>8. CASE MeetStop(t)
    BY <2>8, <1>a DEF MeetStop
  <2>9. QED
    BY <1>2, <2>1, <2>2, <2>3, <2>4, <2>5, <2>6, <2>7, <2>8 DEF MeetStep
<1>3. CASE RecvStart(t) \/ RecvStep(t)
  <2>1. CASE RecvStart(t)
    BY <2>1, <1>a DEF RecvStart
  <2>2. CASE RecvLoadSeq(t)
    BY <2>2, <1>a DEF RecvLoadSeq
  <2>3. CASE RecvLoadDeq(t)
    BY <2>3, <1>a DEF RecvLoadDeq
  <2>4. CASE RecvTicket(t)
    <3>1. (Marks(pos[t] + 1) \/ UNCHANGED ledger) /\ UNCHANGED enq
      BY <2>4 DEF RecvTicket, Marks, Tell
    <3>2. QED
      BY <1>a, <1>b, <3>1
  <2>5. CASE RecvLoad(t)
    BY <2>5, <1>a DEF RecvLoad
  <2>6. CASE RecvClear(t)
    BY <2>6, <1>a DEF RecvClear
  <2>7. CASE RecvPublish(t)
    BY <2>7, <1>a DEF RecvPublish
  <2>8. CASE RecvClosed(t)
    BY <2>8, <1>a DEF RecvClosed
  <2>9. CASE RecvLoadEnq(t)
    BY <2>9, <1>a DEF RecvLoadEnq
  <2>10. QED
    BY <1>3, <2>1, <2>2, <2>3, <2>4, <2>5, <2>6, <2>7, <2>8, <2>9 DEF RecvStep
<1>4. CASE PeekStep(t)
  <2>1. CASE PeekStart(t)
    BY <2>1, <1>a DEF PeekStart
  <2>2. CASE PeekLoadSeq(t)
    BY <2>2, <1>a DEF PeekLoadSeq
  <2>3. CASE PeekLoadDeq(t)
    BY <2>3, <1>a DEF PeekLoadDeq
  <2>4. CASE PeekLoad(t)
    BY <2>4, <1>a DEF PeekLoad
  <2>5. CASE PeekRecheck(t)
    BY <2>5, <1>a DEF PeekRecheck, Recheck
  <2>6. CASE PeekClosed(t)
    BY <2>6, <1>a DEF PeekClosed
  <2>7. CASE PeekLoadEnq(t)
    BY <2>7, <1>a DEF PeekLoadEnq
  <2>8. QED
    BY <1>4, <2>1, <2>2, <2>3, <2>4, <2>5, <2>6, <2>7 DEF PeekStep
<1>5. QED
  BY <1>1, <1>2, <1>3, <1>4 DEF Step

(* Every step wins a ticket, or keeps the messages.                        *)
LEMMA NextLedger ==
  ASSUME Shape, [Next]_vars
  PROVE  Keeping \/ \E t \in Threads : TicketWon(t)
<1>1. CASE Close
  BY <1>1 DEF Close, Keeping, Kept, Shape
<1>2. CASE UNCHANGED vars
  BY <1>2 DEF vars, shared, ring, Keeping, Kept, Shape
<1>3. QED
  BY <1>1, <1>2, Stepping, StepLedger

(* What the winner of a ticket enters. *)
LEMMA TicketEntry ==
  ASSUME Shape, Budget, Sides, NEW t \in Threads, TicketWon(t)
  PROVE  \E e \in Entry :
           /\ ledger' = Append(ledger, e)
           /\ e.msg = NextMessage(t) /\ e.fate = "open" /\ e.told = "nothing"
           /\ t \in Senders /\ Cardinality(Tickets(t)) < MaxTickets
<1> DEFINE e == [msg |-> NextMessage(t), fate |-> "open", told |-> "nothing"]
<1>1. pc[t] = "s_cas" /\ t \in Senders
  BY DEF TicketWon, SendTicket, At, Sides, SendPcs
<1>2. Cardinality(Tickets(t)) < MaxTickets
  BY <1>1 DEF Budget, Deciding
<1>3. Cardinality(Tickets(t)) + 1 \in 1 .. MaxTickets
  BY <1>2, TicketsFinite, ChannelAssumption DEF Shape
<1>4. e \in Entry
  BY <1>1, <1>3 DEF NextMessage, Messages, Entry
<1>5. ledger' = Append(ledger, e)
  BY DEF TicketWon, SendTicket
<1>6. QED
  BY <1>1, <1>2, <1>4, <1>5

(* Types of what a step of a thread assigns besides enq and the ledger.    *)
Control ==
  /\ deq \in Nat /\ closed \in BOOLEAN
  /\ pc \in [Threads -> Labels] /\ pos \in [Threads -> Nat]

(* The label a thread goes to is one of its side. *)
LEMMA StepControl ==
  ASSUME Control, enq \in Nat, NEW t \in Threads, Step(t)
  PROVE  Control' /\ UNCHANGED shape
<1> USE DEF At, Goto, LoadPos, Return, shared, shape, ring, Control
<1> USE DEF Labels, SendPcs, RecvPcs, PeekPcs
<1>1. CASE SendStart(t) \/ SendStep(t)
  <2>1. CASE SendStart(t)
    BY <2>1 DEF SendStart
  <2>2. CASE SendClosed(t)
    BY <2>2 DEF SendClosed
  <2>3. CASE SendLoadEnq(t)
    BY <2>3 DEF SendLoadEnq
  <2>4. CASE SendLoadSeq(t)
    BY <2>4 DEF SendLoadSeq
  <2>5. CASE SendDecide(t)
    <3>1. Return(t, "idle") \/ Goto(t, "s_again") \/ Goto(t, "s_enq")
      BY <2>5 DEF SendDecide
    <3>2. QED
      BY <2>5, <3>1 DEF SendDecide
  <2>6. CASE SendClosedAgain(t)
    BY <2>6 DEF SendClosedAgain
  <2>7. CASE SendTicket(t)
    BY <2>7 DEF SendTicket
  <2>8. CASE SendStore(t)
    BY <2>8 DEF SendStore
  <2>9. CASE SendPublish(t)
    BY <2>9 DEF SendPublish
  <2> HIDE DEF Control, Labels
  <2>10. QED
    BY <1>1, <2>1, <2>2, <2>3, <2>4, <2>5, <2>6, <2>7, <2>8, <2>9 DEF SendStep
<1>2. CASE MeetStep(t) \/ MeetTimeout(t) \/ MeetStop(t)
  <2>1. CASE MeetLoadDeq(t)
    BY <2>1 DEF MeetLoadDeq
  <2>2. CASE MeetClosed(t)
    BY <2>2 DEF MeetClosed
  <2>3. CASE MeetRetry(t)
    BY <2>3 DEF MeetRetry
  <2>4. CASE CancelTicket(t)
    BY <2>4 DEF CancelTicket
  <2>5. CASE CancelClear(t)
    BY <2>5 DEF CancelClear
  <2>6. CASE CancelPublish(t)
    BY <2>6 DEF CancelPublish
  <2>7. CASE MeetTimeout(t)
    BY <2>7 DEF MeetTimeout
  <2>8. CASE MeetStop(t)
    BY <2>8 DEF MeetStop
  <2> HIDE DEF Control, Labels
  <2>9. QED
    BY <1>2, <2>1, <2>2, <2>3, <2>4, <2>5, <2>6, <2>7, <2>8 DEF MeetStep
<1>3. CASE RecvStart(t) \/ RecvStep(t)
  <2>1. CASE RecvStart(t)
    BY <2>1 DEF RecvStart
  <2>2. CASE RecvLoadSeq(t)
    BY <2>2 DEF RecvLoadSeq
  <2>3. CASE RecvLoadDeq(t)
    BY <2>3 DEF RecvLoadDeq
  <2>4. CASE RecvTicket(t)
    BY <2>4 DEF RecvTicket
  <2>5. CASE RecvLoad(t)
    BY <2>5 DEF RecvLoad
  <2>6. CASE RecvClear(t)
    BY <2>6 DEF RecvClear
  <2>7. CASE RecvPublish(t)
    BY <2>7 DEF RecvPublish
  <2>8. CASE RecvClosed(t)
    BY <2>8 DEF RecvClosed
  <2>9. CASE RecvLoadEnq(t)
    BY <2>9 DEF RecvLoadEnq
  <2> HIDE DEF Control, Labels
  <2>10. QED
    BY <1>3, <2>1, <2>2, <2>3, <2>4, <2>5, <2>6, <2>7, <2>8, <2>9 DEF RecvStep
<1>4. CASE PeekStep(t)
  <2>1. CASE PeekStart(t)
    BY <2>1 DEF PeekStart
  <2>2. CASE PeekLoadSeq(t)
    BY <2>2 DEF PeekLoadSeq
  <2>3. CASE PeekLoadDeq(t)
    BY <2>3 DEF PeekLoadDeq
  <2>4. CASE PeekLoad(t)
    BY <2>4 DEF PeekLoad
  <2>5. CASE PeekRecheck(t)
    BY <2>5 DEF PeekRecheck, Recheck
  <2>6. CASE PeekClosed(t)
    BY <2>6 DEF PeekClosed
  <2>7. CASE PeekLoadEnq(t)
    BY <2>7 DEF PeekLoadEnq
  <2> HIDE DEF Control, Labels
  <2>8. QED
    BY <1>4, <2>1, <2>2, <2>3, <2>4, <2>5, <2>6, <2>7 DEF PeekStep
<1> HIDE DEF Control, Labels
<1>5. QED
  BY <1>1, <1>2, <1>3, <1>4 DEF Step

(* The types of the control are kept, and so are capacity and kind.        *)
LEMMA NextShape ==
  ASSUME Shape, Budget, Sides, [Next]_vars
  PROVE  Shape' /\ UNCHANGED shape
<1>1. Control' /\ UNCHANGED shape
  <2>1. CASE Close
    BY <2>1 DEF Close, local, Control, Shape
  <2>2. CASE UNCHANGED vars
    BY <2>2 DEF vars, shared, ring, local, Control, Shape
  <2>3. QED
    BY <2>1, <2>2, Stepping, StepControl DEF Control, Shape
<1>2. ledger' \in Seq(Entry) /\ enq' \in Nat /\ enq' = Len(ledger')
  <2>1. CASE Keeping
    BY <2>1 DEF Keeping, Kept, Shape
  <2>2. ASSUME NEW t \in Threads, TicketWon(t)
        PROVE  ledger' \in Seq(Entry) /\ enq' \in Nat /\ enq' = Len(ledger')
    <3>1. PICK e \in Entry : ledger' = Append(ledger, e)
      BY <2>2, TicketEntry
    <3>2. enq' = enq + 1
      BY <2>2 DEF TicketWon, SendTicket
    <3>3. ledger' \in Seq(Entry) /\ Len(ledger') = Len(ledger) + 1
      BY <3>1, AppendProperties DEF Shape
    <3>4. QED
      BY <3>2, <3>3 DEF Shape
  <2>3. QED
    BY <2>1, <2>2, NextLedger
<1>3. QED
  BY <1>1, <1>2 DEF Shape, shape, Control

(* A send goes through Deciding from its start, where the budget allows    *)
(* one more ticket, and nobody changes sides inside a call.                *)
SideOf(t) ==
  /\ pc[t] \in SendPcs => t \in Senders
  /\ pc[t] \in RecvPcs \cup {"ended"} => t \in Receivers

(* A send that is under way has been allowed one more ticket.              *)
Fits(t) ==
  pc'[t] \in Deciding => pc[t] \in Deciding \/ Cardinality(Tickets(t)) < MaxTickets

(* A step keeps its thread on its side and within its budget.              *)
LEMMA StepSides ==
  ASSUME Control, NEW t \in Threads, SideOf(t), Step(t)
  PROVE  SideOf(t)' /\ Fits(t)
<1>a. pc \in [Threads -> Labels]
  BY DEF Control
<1> USE DEF At, Goto, LoadPos, Return, SideOf, Fits, SendPcs, RecvPcs, Deciding
<1>1. CASE SendStart(t) \/ SendStep(t)
  <2>1. CASE SendStart(t)
    BY <2>1, <1>a DEF SendStart
  <2>2. CASE SendClosed(t)
    BY <2>2, <1>a DEF SendClosed
  <2>3. CASE SendLoadEnq(t)
    BY <2>3, <1>a DEF SendLoadEnq
  <2>4. CASE SendLoadSeq(t)
    BY <2>4, <1>a DEF SendLoadSeq
  <2>5. CASE SendDecide(t)
    BY <2>5, <1>a DEF SendDecide
  <2>6. CASE SendClosedAgain(t)
    BY <2>6, <1>a DEF SendClosedAgain
  <2>7. CASE SendTicket(t)
    BY <2>7, <1>a DEF SendTicket
  <2>8. CASE SendStore(t)
    BY <2>8, <1>a DEF SendStore
  <2>9. CASE SendPublish(t)
    BY <2>9, <1>a DEF SendPublish
  <2> HIDE DEF SideOf, Fits, SendPcs, RecvPcs, Deciding
  <2>10. QED
    BY <1>1, <2>1, <2>2, <2>3, <2>4, <2>5, <2>6, <2>7, <2>8, <2>9 DEF SendStep
<1>2. CASE MeetStep(t) \/ MeetTimeout(t) \/ MeetStop(t)
  <2>1. CASE MeetLoadDeq(t)
    BY <2>1, <1>a DEF MeetLoadDeq
  <2>2. CASE MeetClosed(t)
    BY <2>2, <1>a DEF MeetClosed
  <2>3. CASE MeetRetry(t)
    BY <2>3, <1>a DEF MeetRetry
  <2>4. CASE CancelTicket(t)
    BY <2>4, <1>a DEF CancelTicket
  <2>5. CASE CancelClear(t)
    BY <2>5, <1>a DEF CancelClear
  <2>6. CASE CancelPublish(t)
    BY <2>6, <1>a DEF CancelPublish
  <2>7. CASE MeetTimeout(t)
    BY <2>7, <1>a DEF MeetTimeout
  <2>8. CASE MeetStop(t)
    BY <2>8, <1>a DEF MeetStop
  <2> HIDE DEF SideOf, Fits, SendPcs, RecvPcs, Deciding
  <2>9. QED
    BY <1>2, <2>1, <2>2, <2>3, <2>4, <2>5, <2>6, <2>7, <2>8 DEF MeetStep
<1>3. CASE RecvStart(t) \/ RecvStep(t)
  <2>1. CASE RecvStart(t)
    BY <2>1, <1>a DEF RecvStart
  <2>2. CASE RecvLoadSeq(t)
    BY <2>2, <1>a DEF RecvLoadSeq
  <2>3. CASE RecvLoadDeq(t)
    BY <2>3, <1>a DEF RecvLoadDeq
  <2>4. CASE RecvTicket(t)
    BY <2>4, <1>a DEF RecvTicket
  <2>5. CASE RecvLoad(t)
    BY <2>5, <1>a DEF RecvLoad
  <2>6. CASE RecvClear(t)
    BY <2>6, <1>a DEF RecvClear
  <2>7. CASE RecvPublish(t)
    BY <2>7, <1>a DEF RecvPublish
  <2>8. CASE RecvClosed(t)
    BY <2>8, <1>a DEF RecvClosed
  <2>9. CASE RecvLoadEnq(t)
    BY <2>9, <1>a DEF RecvLoadEnq
  <2> HIDE DEF SideOf, Fits, SendPcs, RecvPcs, Deciding
  <2>10. QED
    BY <1>3, <2>1, <2>2, <2>3, <2>4, <2>5, <2>6, <2>7, <2>8, <2>9 DEF RecvStep
<1>4. CASE PeekStep(t)
  <2>1. CASE PeekStart(t)
    BY <2>1, <1>a DEF PeekStart
  <2>2. CASE PeekLoadSeq(t)
    BY <2>2, <1>a DEF PeekLoadSeq
  <2>3. CASE PeekLoadDeq(t)
    BY <2>3, <1>a DEF PeekLoadDeq
  <2>4. CASE PeekLoad(t)
    BY <2>4, <1>a DEF PeekLoad
  <2>5. CASE PeekRecheck(t)
    BY <2>5, <1>a DEF PeekRecheck, Recheck
  <2>6. CASE PeekClosed(t)
    BY <2>6, <1>a DEF PeekClosed
  <2>7. CASE PeekLoadEnq(t)
    BY <2>7, <1>a DEF PeekLoadEnq
  <2> HIDE DEF SideOf, Fits, SendPcs, RecvPcs, Deciding
  <2>8. QED
    BY <1>4, <2>1, <2>2, <2>3, <2>4, <2>5, <2>6, <2>7 DEF PeekStep
<1> HIDE DEF SideOf, Fits, SendPcs, RecvPcs, Deciding
<1>5. QED
  BY <1>1, <1>2, <1>3, <1>4 DEF Step

(* Every thread stays on its side and within its budget.                   *)
LEMMA NextSides ==
  ASSUME Shape, Contents, Sides, [Next]_vars
  PROVE  Sides' /\ \A u \in Threads : Fits(u)
<1> SUFFICES ASSUME NEW u \in Threads PROVE SideOf(u)' /\ Fits(u)
  BY DEF Sides, SideOf
<1>1. SideOf(u)
  BY DEF Sides, SideOf
<1>2. ASSUME pc'[u] = pc[u] PROVE SideOf(u)' /\ Fits(u)
  BY <1>1, <1>2 DEF SideOf, Fits
<1>3. CASE Close \/ UNCHANGED vars
  BY <1>2, <1>3 DEF Close, vars, local
<1>4. ASSUME NEW t \in Threads, Step(t) PROVE SideOf(u)' /\ Fits(u)
  <2>1. CASE u = t
    BY <1>1, <1>4, <2>1, StepSides DEF Shape, Control
  <2>2. CASE u # t
    BY <1>2, <1>4, <2>2, StepAlone DEF Shape, Contents, Alone
  <2>3. QED
    BY <2>1, <2>2
<1>5. QED
  BY <1>3, <1>4, Stepping

(* The count of tickets and the numbering of messages are kept.            *)
LEMMA NextBook ==
  ASSUME Shape, Shape', Contents, Budget, Numbered, Sides, [Next]_vars
  PROVE  Budget' /\ Numbered'
<1>0. /\ ledger \in Seq(Entry) /\ ledger' \in Seq(Entry)
      /\ DOMAIN ledger = 1 .. Len(ledger) /\ DOMAIN ledger' = 1 .. Len(ledger')
      /\ Len(ledger) \in Nat /\ MaxTickets \in Nat
  BY ChannelAssumption, LenProperties DEF Shape
<1>m. ASSUME NEW i \in DOMAIN ledger
      PROVE  ledger[i].msg[1] \in Senders /\ ledger[i].msg[2] \in Nat
  <2>1. ledger[i] \in Entry
    BY <1>0, ElementOfSeq
  <2>2. ledger[i].msg \in Senders \X (1 .. MaxTickets)
    BY <2>1 DEF Entry, Messages
  <2>3. ledger[i].msg[1] \in Senders /\ ledger[i].msg[2] \in 1 .. MaxTickets
    BY <2>2
  <2>4. QED
    BY <1>0, <2>3
<1>f. \A u \in Senders : Fits(u)
  BY NextSides DEF Threads
<1>1. ASSUME Keeping PROVE Budget' /\ Numbered'
  <2>1. \A u : Tickets(u)' = Tickets(u)
    BY <1>0, <1>1, TicketsKept DEF Keeping
  <2>2. Budget'
    BY <1>f, <2>1 DEF Budget, Fits
  <2>3. DOMAIN ledger' = DOMAIN ledger
        /\ \A i \in DOMAIN ledger : ledger'[i].msg = ledger[i].msg
    BY <1>0, <1>1 DEF Keeping, Kept
  <2>4. Numbered'
    BY <2>1, <2>3 DEF Numbered
  <2>5. QED
    BY <2>2, <2>4
<1>2. ASSUME NEW t \in Threads, TicketWon(t)
      PROVE  Budget' /\ Numbered'
  <2>1. PICK e \in Entry :
          /\ ledger' = Append(ledger, e) /\ e.msg = NextMessage(t)
          /\ t \in Senders /\ Cardinality(Tickets(t)) < MaxTickets
    BY <1>2, TicketEntry
  <2> DEFINE n == Cardinality(Tickets(t))
  <2>2. n \in Nat /\ e.msg[1] = t /\ e.msg[2] = n + 1
    BY <1>0, <2>1, TicketsFinite DEF NextMessage
  <2>3. \A u : u # t => Tickets(u)' = Tickets(u)
    BY <1>0, <2>1, <2>2, TicketsGrow
  <2>4. Cardinality(Tickets(t)') = n + 1
    BY <1>0, <2>1, <2>2, TicketsGrow
  <2>5. pc'[t] \notin Deciding
    BY <1>2 DEF TicketWon, SendTicket, Goto, Deciding, Shape
  <2> HIDE DEF n
  <2>6. ASSUME NEW u \in Senders
        PROVE  /\ Cardinality(Tickets(u)') <= MaxTickets
               /\ pc'[u] \in Deciding => Cardinality(Tickets(u)') < MaxTickets
    <3>1. CASE u = t
      BY <1>0, <2>1, <2>2, <2>4, <2>5, <3>1 DEF n
    <3>2. CASE u # t
      BY <1>f, <2>3, <3>2 DEF Budget, Fits
    <3>3. QED
      BY <3>1, <3>2
  <2>7. /\ DOMAIN ledger' = DOMAIN ledger \cup {Len(ledger) + 1}
        /\ ledger'[Len(ledger) + 1] = e
        /\ \A i \in DOMAIN ledger : ledger'[i] = ledger[i]
    BY <1>0, <2>1
  <2>8. \A i \in DOMAIN ledger : ledger[i].msg # e.msg
    <3>1. \A i \in DOMAIN ledger : ledger[i].msg[1] = t => ledger[i].msg[2] <= n
      BY <2>1 DEF Numbered, n
    <3>2. QED
      BY <1>m, <2>2, <3>1
  <2>9. ASSUME NEW i \in DOMAIN ledger', NEW u \in Senders, ledger'[i].msg[1] = u
        PROVE  ledger'[i].msg[2] <= Cardinality(Tickets(u)')
    <3>1. CASE i = Len(ledger) + 1
      BY <2>2, <2>4, <2>7, <2>9, <3>1
    <3>2. ASSUME i \in DOMAIN ledger
          PROVE  ledger'[i].msg[2] <= Cardinality(Tickets(u)')
      <4>1. ledger[i].msg[1] = u /\ ledger[i].msg[2] <= Cardinality(Tickets(u))
        BY <2>7, <2>9, <3>2 DEF Numbered
      <4>2. CASE u = t
        BY <1>m, <2>2, <2>4, <2>7, <3>2, <4>1, <4>2 DEF n
      <4>3. CASE u # t
        BY <2>3, <2>7, <3>2, <4>1, <4>3
      <4>4. QED
        BY <4>2, <4>3
    <3>3. QED
      BY <2>7, <3>1, <3>2
  <2>10. \A i, j \in DOMAIN ledger' : i # j => ledger'[i].msg # ledger'[j].msg
    <3>1. \A i, j \in DOMAIN ledger : i # j => ledger[i].msg # ledger[j].msg
      BY DEF Numbered
    <3>2. QED
      BY <2>7, <2>8, <3>1
  <2>11. Budget'
    BY <2>6 DEF Budget
  <2>12. Numbered'
    BY <2>9, <2>10 DEF Numbered
  <2>13. QED
    BY <2>11, <2>12
<1>3. QED
  BY <1>1, <1>2, NextLedger

-----------------------------------------------------------------------------
(* Between the CAS of a send and its answer: the ticket at pos is this     *)
(* thread's.                                                               *)
Meeting == {"v_deq", "v_closed", "v_wait", "v_cancel", "x_clear", "x_pub"}

(* Here the thread holds a ticket of a send.                               *)
Owning == {"s_store", "s_pub"} \cup Meeting

(* Here the thread holds a ticket of a receive.                            *)
Taking == {"r_load", "r_clear", "r_pub"}

(* A receive and a peek start from a position deq has had. *)
Lagging == RecvPcs \cup PeekPcs

(* Where the position of a thread is, seen from enq and deq.               *)
Positioned(t) ==
  /\ pos[t] <= enq
  /\ pc[t] \in Lagging => pos[t] <= deq
  /\ pc[t] \in {"s_again", "s_cas"} \cup Owning => pos[t] < deq + cap
  /\ pc[t] \in Owning \cup {"r_cas", "p_load", "p_deq2"} => pos[t] < enq
  /\ pc[t] \in Taking \cup {"x_clear", "x_pub"} => pos[t] < deq
  /\ pc[t] \in Meeting => rendezvous
  /\ pc[t] = "r_enq" => closed

(* The tickets open are no more than the slots.                            *)
Span == deq <= enq /\ enq <= deq + cap

(* Tickets and positions are in their places.                              *)
Flow == Span /\ \A t \in Threads : Positioned(t)

(* A slot never runs ahead of the tickets, except to the first position of *)
(* its own on a later lap.                                                 *)
SeqBound ==
  \A s \in Slots : seq[s] <= enq \/ (cap >= 2 /\ Slot(seq[s]) = s)

(* Every position has a slot.                                              *)
LEMMA SlotIn ==
  ASSUME Shape, NEW p \in Nat
  PROVE  Slot(p) \in Slots
BY Euclid DEF Shape, Slot, Slots

(* A slot that reads full for a position has had a ticket for it.          *)
LEMMA FullIssued ==
  ASSUME Shape, Contents, SeqBound, NEW p \in Nat, seq[Slot(p)] = p + 1
  PROVE  p < enq
<1>1. Slot(p) \in Slots /\ enq \in Nat
  BY SlotIn DEF Shape
<1>2. CASE cap >= 2 /\ Slot(p + 1) = Slot(p)
  BY <1>2, NextSlot DEF Shape, Slot
<1>3. CASE p + 1 <= enq
  BY <1>1, <1>3
<1>4. QED
  BY <1>1, <1>2, <1>3 DEF SeqBound

(* Who writes what. *)
SeqWriter(t) == SendPublish(t) \/ CancelPublish(t) \/ RecvPublish(t)

(* The steps that write a value.                                           *)
TvWriter(t) == SendStore(t) \/ CancelClear(t) \/ RecvClear(t)

(* Three steps write a sequence number, three a value, none closes.        *)
LEMMA StepWrites ==
  ASSUME NEW t \in Threads, Step(t)
  PROVE  /\ UNCHANGED closed
         /\ UNCHANGED seq \/ SeqWriter(t)
         /\ UNCHANGED tv \/ TvWriter(t)
<1> USE DEF shared, ring, SeqWriter, TvWriter
<1>1. CASE SendStart(t) \/ SendStep(t)
  <2>1. CASE SendStart(t)
    BY <2>1 DEF SendStart
  <2>2. CASE SendClosed(t)
    BY <2>2 DEF SendClosed
  <2>3. CASE SendLoadEnq(t)
    BY <2>3 DEF SendLoadEnq
  <2>4. CASE SendLoadSeq(t)
    BY <2>4 DEF SendLoadSeq
  <2>5. CASE SendDecide(t)
    BY <2>5 DEF SendDecide
  <2>6. CASE SendClosedAgain(t)
    BY <2>6 DEF SendClosedAgain
  <2>7. CASE SendTicket(t)
    BY <2>7 DEF SendTicket
  <2>8. CASE SendStore(t)
    BY <2>8 DEF SendStore
  <2>9. CASE SendPublish(t)
    BY <2>9 DEF SendPublish
  <2> HIDE DEF SeqWriter, TvWriter
  <2>10. QED
    BY <1>1, <2>1, <2>2, <2>3, <2>4, <2>5, <2>6, <2>7, <2>8, <2>9 DEF SendStep
<1>2. CASE MeetStep(t) \/ MeetTimeout(t) \/ MeetStop(t)
  <2>1. CASE MeetLoadDeq(t)
    BY <2>1 DEF MeetLoadDeq
  <2>2. CASE MeetClosed(t)
    BY <2>2 DEF MeetClosed
  <2>3. CASE MeetRetry(t)
    BY <2>3 DEF MeetRetry
  <2>4. CASE CancelTicket(t)
    BY <2>4 DEF CancelTicket
  <2>5. CASE CancelClear(t)
    BY <2>5 DEF CancelClear
  <2>6. CASE CancelPublish(t)
    BY <2>6 DEF CancelPublish
  <2>7. CASE MeetTimeout(t)
    BY <2>7 DEF MeetTimeout
  <2>8. CASE MeetStop(t)
    BY <2>8 DEF MeetStop
  <2> HIDE DEF SeqWriter, TvWriter
  <2>9. QED
    BY <1>2, <2>1, <2>2, <2>3, <2>4, <2>5, <2>6, <2>7, <2>8 DEF MeetStep
<1>3. CASE RecvStart(t) \/ RecvStep(t)
  <2>1. CASE RecvStart(t)
    BY <2>1 DEF RecvStart
  <2>2. CASE RecvLoadSeq(t)
    BY <2>2 DEF RecvLoadSeq
  <2>3. CASE RecvLoadDeq(t)
    BY <2>3 DEF RecvLoadDeq
  <2>4. CASE RecvTicket(t)
    BY <2>4 DEF RecvTicket
  <2>5. CASE RecvLoad(t)
    BY <2>5 DEF RecvLoad
  <2>6. CASE RecvClear(t)
    BY <2>6 DEF RecvClear
  <2>7. CASE RecvPublish(t)
    BY <2>7 DEF RecvPublish
  <2>8. CASE RecvClosed(t)
    BY <2>8 DEF RecvClosed
  <2>9. CASE RecvLoadEnq(t)
    BY <2>9 DEF RecvLoadEnq
  <2> HIDE DEF SeqWriter, TvWriter
  <2>10. QED
    BY <1>3, <2>1, <2>2, <2>3, <2>4, <2>5, <2>6, <2>7, <2>8, <2>9 DEF RecvStep
<1>4. CASE PeekStep(t)
  <2>1. CASE PeekStart(t)
    BY <2>1 DEF PeekStart
  <2>2. CASE PeekLoadSeq(t)
    BY <2>2 DEF PeekLoadSeq
  <2>3. CASE PeekLoadDeq(t)
    BY <2>3 DEF PeekLoadDeq
  <2>4. CASE PeekLoad(t)
    BY <2>4 DEF PeekLoad
  <2>5. CASE PeekRecheck(t)
    BY <2>5 DEF PeekRecheck, Recheck
  <2>6. CASE PeekClosed(t)
    BY <2>6 DEF PeekClosed
  <2>7. CASE PeekLoadEnq(t)
    BY <2>7 DEF PeekLoadEnq
  <2> HIDE DEF SeqWriter, TvWriter
  <2>8. QED
    BY <1>4, <2>1, <2>2, <2>3, <2>4, <2>5, <2>6, <2>7 DEF PeekStep
<1> HIDE DEF SeqWriter, TvWriter
<1>5. QED
  BY <1>1, <1>2, <1>3, <1>4 DEF Step

(* A step of t leaves its own position and the counters in their places.   *)
LEMMA StepFlow ==
  ASSUME Shape, Contents, SeqBound, Span, NEW t \in Threads, Positioned(t), Step(t)
  PROVE  Positioned(t)' /\ Span' /\ deq <= deq' /\ enq <= enq'
<1>a. /\ cap \in Nat \ {0} /\ enq \in Nat /\ deq \in Nat
      /\ pc \in [Threads -> Labels] /\ pos \in [Threads -> Nat]
      /\ rendezvous => cap = 1
  BY DEF Shape
<1>b. seq[Slot(pos[t])] = pos[t] + 1 => pos[t] < enq
  BY <1>a, FullIssued
<1> USE DEF Positioned, Span, At, Goto, LoadPos, Return, shared, shape, ring
<1> USE DEF Meeting, Owning, Taking, Lagging, RecvPcs, PeekPcs
<1>1. CASE SendStart(t) \/ SendStep(t)
  <2>1. CASE SendStart(t)
    BY <2>1, <1>a, <1>b DEF SendStart
  <2>2. CASE SendClosed(t)
    BY <2>2, <1>a, <1>b DEF SendClosed
  <2>3. CASE SendLoadEnq(t)
    BY <2>3, <1>a, <1>b DEF SendLoadEnq
  <2>4. CASE SendLoadSeq(t)
    BY <2>4, <1>a, <1>b DEF SendLoadSeq
  <2>5. CASE SendDecide(t)
    BY <2>5, <1>a, <1>b DEF SendDecide, FullAt
  <2>6. CASE SendClosedAgain(t)
    BY <2>6, <1>a, <1>b DEF SendClosedAgain
  <2>7. CASE SendTicket(t)
    BY <2>7, <1>a, <1>b DEF SendTicket
  <2>8. CASE SendStore(t)
    BY <2>8, <1>a, <1>b DEF SendStore
  <2>9. CASE SendPublish(t)
    BY <2>9, <1>a, <1>b DEF SendPublish
  <2> HIDE DEF Positioned, Span, Meeting, Owning, Taking, Lagging, RecvPcs, PeekPcs
  <2>10. QED
    BY <1>1, <2>1, <2>2, <2>3, <2>4, <2>5, <2>6, <2>7, <2>8, <2>9 DEF SendStep
<1>2. CASE MeetStep(t) \/ MeetTimeout(t) \/ MeetStop(t)
  <2>1. CASE MeetLoadDeq(t)
    BY <2>1, <1>a, <1>b DEF MeetLoadDeq
  <2>2. CASE MeetClosed(t)
    BY <2>2, <1>a, <1>b DEF MeetClosed
  <2>3. CASE MeetRetry(t)
    BY <2>3, <1>a, <1>b DEF MeetRetry
  <2>4. CASE CancelTicket(t)
    BY <2>4, <1>a, <1>b DEF CancelTicket
  <2>5. CASE CancelClear(t)
    BY <2>5, <1>a, <1>b DEF CancelClear
  <2>6. CASE CancelPublish(t)
    <3>1. Return(t, "idle") /\ UNCHANGED <<shape, enq, deq, closed>>
      BY <2>6 DEF CancelPublish
    <3>2. QED
      BY <1>a, <3>1
  <2>7. CASE MeetTimeout(t)
    BY <2>7, <1>a, <1>b DEF MeetTimeout
  <2>8. CASE MeetStop(t)
    BY <2>8, <1>a, <1>b DEF MeetStop
  <2> HIDE DEF Positioned, Span, Meeting, Owning, Taking, Lagging, RecvPcs, PeekPcs
  <2>9. QED
    BY <1>2, <2>1, <2>2, <2>3, <2>4, <2>5, <2>6, <2>7, <2>8 DEF MeetStep
<1>3. CASE RecvStart(t) \/ RecvStep(t)
  <2>1. CASE RecvStart(t)
    BY <2>1, <1>a, <1>b DEF RecvStart
  <2>2. CASE RecvLoadSeq(t)
    BY <2>2, <1>a, <1>b DEF RecvLoadSeq
  <2>3. CASE RecvLoadDeq(t)
    BY <2>3, <1>a, <1>b DEF RecvLoadDeq
  <2>4. CASE RecvTicket(t)
    BY <2>4, <1>a, <1>b DEF RecvTicket
  <2>5. CASE RecvLoad(t)
    BY <2>5, <1>a, <1>b DEF RecvLoad
  <2>6. CASE RecvClear(t)
    BY <2>6, <1>a, <1>b DEF RecvClear
  <2>7. CASE RecvPublish(t)
    BY <2>7, <1>a, <1>b DEF RecvPublish
  <2>8. CASE RecvClosed(t)
    BY <2>8, <1>a, <1>b DEF RecvClosed
  <2>9. CASE RecvLoadEnq(t)
    BY <2>9, <1>a, <1>b DEF RecvLoadEnq
  <2> HIDE DEF Positioned, Span, Meeting, Owning, Taking, Lagging, RecvPcs, PeekPcs
  <2>10. QED
    BY <1>3, <2>1, <2>2, <2>3, <2>4, <2>5, <2>6, <2>7, <2>8, <2>9 DEF RecvStep
<1>4. CASE PeekStep(t)
  <2>1. CASE PeekStart(t)
    BY <2>1, <1>a, <1>b DEF PeekStart
  <2>2. CASE PeekLoadSeq(t)
    BY <2>2, <1>a, <1>b DEF PeekLoadSeq
  <2>3. CASE PeekLoadDeq(t)
    BY <2>3, <1>a, <1>b DEF PeekLoadDeq
  <2>4. CASE PeekLoad(t)
    BY <2>4, <1>a, <1>b DEF PeekLoad
  <2>5. CASE PeekRecheck(t)
    BY <2>5, <1>a, <1>b DEF PeekRecheck, Recheck
  <2>6. CASE PeekClosed(t)
    BY <2>6, <1>a, <1>b DEF PeekClosed
  <2>7. CASE PeekLoadEnq(t)
    BY <2>7, <1>a, <1>b DEF PeekLoadEnq
  <2> HIDE DEF Positioned, Span, Meeting, Owning, Taking, Lagging, RecvPcs, PeekPcs
  <2>8. QED
    BY <1>4, <2>1, <2>2, <2>3, <2>4, <2>5, <2>6, <2>7 DEF PeekStep
<1> HIDE DEF Positioned, Span, Meeting, Owning, Taking, Lagging, RecvPcs, PeekPcs
<1>5. QED
  BY <1>1, <1>2, <1>3, <1>4 DEF Step

(* Every position stays in its place; enq, deq and closed only grow.       *)
LEMMA NextFlow ==
  ASSUME Shape, Contents, SeqBound, Flow, [Next]_vars
  PROVE  Flow' /\ deq <= deq' /\ enq <= enq' /\ (closed => closed')
<1>a. /\ cap \in Nat /\ enq \in Nat /\ deq \in Nat
      /\ pos \in [Threads -> Nat]
  BY DEF Shape
<1>1. CASE Close
  <2>1. UNCHANGED <<cap, rendezvous, enq, deq, pc, pos>> /\ closed'
    BY <1>1 DEF Close, local, shape
  <2>2. QED
    BY <1>a, <2>1 DEF Flow, Span, Positioned
<1>2. CASE UNCHANGED vars
  BY <1>a, <1>2 DEF vars, local, shared, ring, shape, Flow, Span, Positioned
<1>3. ASSUME NEW t \in Threads, Step(t)
      PROVE  Flow' /\ deq <= deq' /\ enq <= enq' /\ (closed => closed')
  <2>1. /\ Positioned(t)' /\ Span' /\ deq <= deq' /\ enq <= enq'
        /\ UNCHANGED shape /\ deq' \in Nat /\ enq' \in Nat
    <3>1. Positioned(t)' /\ Span' /\ deq <= deq' /\ enq <= enq'
      BY <1>3, StepFlow DEF Flow
    <3>2. Control' /\ UNCHANGED shape
      BY <1>3, StepControl DEF Control, Shape
    <3>3. enq' \in Nat
      <4>1. CASE TicketWon(t)
        BY <1>a, <4>1 DEF TicketWon, SendTicket
      <4>2. CASE Keeping
        BY <1>a, <4>2 DEF Keeping
      <4>3. QED
        BY <1>3, <4>1, <4>2, StepLedger
    <3>4. QED
      BY <3>1, <3>2, <3>3 DEF Control
  <2>2. closed' = closed
    BY <1>3, StepWrites
  <2>3. ASSUME NEW u \in Threads \ {t} PROVE Positioned(u)'
    <3>1. pc'[u] = pc[u] /\ pos'[u] = pos[u] /\ Positioned(u) /\ pos[u] \in Nat
      BY <1>a, <1>3, StepAlone DEF Flow, Shape, Contents, Alone
    <3>2. QED
      BY <1>a, <2>1, <2>2, <3>1 DEF Positioned, shape
  <2>4. QED
    BY <2>1, <2>2, <2>3 DEF Flow
<1>4. QED
  BY <1>1, <1>2, <1>3, Stepping

(* No release of a slot runs ahead of the tickets.                         *)
LEMMA NextSeqBound ==
  ASSUME Shape, Shape', UNCHANGED shape, Contents, Flow, SeqBound, [Next]_vars
  PROVE  SeqBound'
<1>w. UNCHANGED seq \/ \E t \in Threads : SeqWriter(t)
  BY Stepping, StepWrites DEF Close, vars, shared, ring
<1>a. /\ cap \in Nat \ {0} /\ enq \in Nat /\ deq \in Nat /\ cap' = cap
      /\ pos \in [Threads -> Nat] /\ seq \in [Slots -> Nat] /\ (rendezvous => cap = 1)
  BY DEF Shape, Contents, shape
<1>b. enq' \in Nat /\ enq' >= enq
  BY NextFlow DEF Shape
<1> DEFINE Released(p, v) ==
             /\ enq' = enq /\ seq'[Slot(p)] = v
             /\ \A s \in Slots \ {Slot(p)} : seq'[s] = seq[s]
             /\ v <= enq \/ (cap >= 2 /\ Slot(v) = Slot(p))
<1>c. ASSUME NEW p \in Nat, NEW v \in Nat, Released(p, v)
      PROVE  SeqBound'
  BY <1>a, <1>c DEF SeqBound, Slots, Slot
<1>d. \A t \in Threads : Positioned(t) /\ pos[t] \in Nat /\ Slot(pos[t]) \in Slots
  BY <1>a, SlotIn DEF Flow
<1>1. CASE UNCHANGED seq
  BY <1>1, <1>a, <1>b DEF SeqBound, Slots, Slot
<1>2. ASSUME NEW t \in Threads, SendPublish(t) PROVE SeqBound'
  <2>1. /\ pc[t] = "s_pub" /\ enq' = enq
        /\ seq' = [seq EXCEPT ![Slot(pos[t])] = pos[t] + 1]
    BY <1>2 DEF SendPublish, At
  <2>2. pos[t] + 1 <= enq
    BY <1>a, <1>d, <2>1 DEF Positioned, Owning, Meeting, Taking
  <2>3. /\ seq'[Slot(pos[t])] = pos[t] + 1
        /\ \A s \in Slots \ {Slot(pos[t])} : seq'[s] = seq[s]
    BY <1>a, <1>d, <2>1
  <2>4. Released(pos[t], pos[t] + 1) /\ pos[t] + 1 \in Nat
    BY <1>a, <1>d, <2>1, <2>2, <2>3
  <2> HIDE DEF Released
  <2>5. QED
    BY <1>c, <1>d, <2>4
<1>3. ASSUME NEW t \in Threads, CancelPublish(t) PROVE SeqBound'
  <2>1. /\ pc[t] = "x_pub" /\ enq' = enq
        /\ seq' = [seq EXCEPT ![Slot(pos[t])] = pos[t] + cap]
    BY <1>3 DEF CancelPublish, At
  <2>2. pos[t] + cap <= enq
    BY <1>a, <1>d, <2>1 DEF Positioned, Owning, Meeting, Taking
  <2>3. /\ seq'[Slot(pos[t])] = pos[t] + cap
        /\ \A s \in Slots \ {Slot(pos[t])} : seq'[s] = seq[s]
    BY <1>a, <1>d, <2>1
  <2>4. Released(pos[t], pos[t] + cap) /\ pos[t] + cap \in Nat
    BY <1>a, <1>d, <2>1, <2>2, <2>3
  <2> HIDE DEF Released
  <2>5. QED
    BY <1>c, <1>d, <2>4
<1>4. ASSUME NEW t \in Threads, RecvPublish(t) PROVE SeqBound'
  <2>1. /\ pc[t] = "r_pub" /\ enq' = enq
        /\ seq' = [seq EXCEPT ![Slot(pos[t])] = pos[t] + cap]
    BY <1>4 DEF RecvPublish, At
  <2>2. pos[t] + 1 <= enq
    BY <1>a, <1>d, <2>1 DEF Positioned, Owning, Meeting, Taking, Span, Flow
  <2>3. /\ seq'[Slot(pos[t])] = pos[t] + cap
        /\ \A s \in Slots \ {Slot(pos[t])} : seq'[s] = seq[s]
    BY <1>a, <1>d, <2>1
  <2>4. cap >= 2 => Slot(pos[t] + cap) = Slot(pos[t])
    BY <1>a, <1>d, SameLap DEF Slot
  <2>5. Released(pos[t], pos[t] + cap) /\ pos[t] + cap \in Nat
    BY <1>a, <1>d, <2>1, <2>2, <2>3, <2>4
  <2> HIDE DEF Released
  <2>6. QED
    BY <1>c, <1>d, <2>5
<1>5. QED
  BY <1>1, <1>2, <1>3, <1>4, <1>w DEF SeqWriter

(* Types of what threads have read.                                        *)
Loaded == seen \in [Threads -> Nat] /\ val \in [Threads -> Messages \cup {Cleared}]

(* What a thread loads has the type of what is in the slot.                *)
LEMMA StepLoaded ==
  ASSUME Loaded, NEW t \in Threads, Step(t),
         seq[Slot(pos[t])] \in Nat, tv[Slot(pos[t])] \in Messages \cup {Cleared}
  PROVE  Loaded'
<1> USE DEF Goto, LoadPos, Return, Loaded
<1>1. CASE SendStart(t) \/ SendStep(t)
  <2>1. CASE SendStart(t)
    BY <2>1 DEF SendStart
  <2>2. CASE SendClosed(t)
    BY <2>2 DEF SendClosed
  <2>3. CASE SendLoadEnq(t)
    BY <2>3 DEF SendLoadEnq
  <2>4. CASE SendLoadSeq(t)
    BY <2>4 DEF SendLoadSeq
  <2>5. CASE SendDecide(t)
    BY <2>5 DEF SendDecide
  <2>6. CASE SendClosedAgain(t)
    BY <2>6 DEF SendClosedAgain
  <2>7. CASE SendTicket(t)
    BY <2>7 DEF SendTicket
  <2>8. CASE SendStore(t)
    BY <2>8 DEF SendStore
  <2>9. CASE SendPublish(t)
    BY <2>9 DEF SendPublish
  <2> HIDE DEF Loaded
  <2>10. QED
    BY <1>1, <2>1, <2>2, <2>3, <2>4, <2>5, <2>6, <2>7, <2>8, <2>9 DEF SendStep
<1>2. CASE MeetStep(t) \/ MeetTimeout(t) \/ MeetStop(t)
  <2>1. CASE MeetLoadDeq(t)
    BY <2>1 DEF MeetLoadDeq
  <2>2. CASE MeetClosed(t)
    BY <2>2 DEF MeetClosed
  <2>3. CASE MeetRetry(t)
    BY <2>3 DEF MeetRetry
  <2>4. CASE CancelTicket(t)
    BY <2>4 DEF CancelTicket
  <2>5. CASE CancelClear(t)
    BY <2>5 DEF CancelClear
  <2>6. CASE CancelPublish(t)
    BY <2>6 DEF CancelPublish
  <2>7. CASE MeetTimeout(t)
    BY <2>7 DEF MeetTimeout
  <2>8. CASE MeetStop(t)
    BY <2>8 DEF MeetStop
  <2> HIDE DEF Loaded
  <2>9. QED
    BY <1>2, <2>1, <2>2, <2>3, <2>4, <2>5, <2>6, <2>7, <2>8 DEF MeetStep
<1>3. CASE RecvStart(t) \/ RecvStep(t)
  <2>1. CASE RecvStart(t)
    BY <2>1 DEF RecvStart
  <2>2. CASE RecvLoadSeq(t)
    BY <2>2 DEF RecvLoadSeq
  <2>3. CASE RecvLoadDeq(t)
    BY <2>3 DEF RecvLoadDeq
  <2>4. CASE RecvTicket(t)
    BY <2>4 DEF RecvTicket
  <2>5. CASE RecvLoad(t)
    BY <2>5 DEF RecvLoad
  <2>6. CASE RecvClear(t)
    BY <2>6 DEF RecvClear
  <2>7. CASE RecvPublish(t)
    BY <2>7 DEF RecvPublish
  <2>8. CASE RecvClosed(t)
    BY <2>8 DEF RecvClosed
  <2>9. CASE RecvLoadEnq(t)
    BY <2>9 DEF RecvLoadEnq
  <2> HIDE DEF Loaded
  <2>10. QED
    BY <1>3, <2>1, <2>2, <2>3, <2>4, <2>5, <2>6, <2>7, <2>8, <2>9 DEF RecvStep
<1>4. CASE PeekStep(t)
  <2>1. CASE PeekStart(t)
    BY <2>1 DEF PeekStart
  <2>2. CASE PeekLoadSeq(t)
    BY <2>2 DEF PeekLoadSeq
  <2>3. CASE PeekLoadDeq(t)
    BY <2>3 DEF PeekLoadDeq
  <2>4. CASE PeekLoad(t)
    BY <2>4 DEF PeekLoad
  <2>5. CASE PeekRecheck(t)
    BY <2>5 DEF PeekRecheck, Recheck
  <2>6. CASE PeekClosed(t)
    BY <2>6 DEF PeekClosed
  <2>7. CASE PeekLoadEnq(t)
    BY <2>7 DEF PeekLoadEnq
  <2> HIDE DEF Loaded
  <2>8. QED
    BY <1>4, <2>1, <2>2, <2>3, <2>4, <2>5, <2>6, <2>7 DEF PeekStep
<1> HIDE DEF Loaded
<1>5. QED
  BY <1>1, <1>2, <1>3, <1>4 DEF Step

(* A step of a thread keeps the types of slots and loads.                  *)
LEMMA StepContents ==
  ASSUME Shape, UNCHANGED shape, Contents, Flow, NEW t \in Threads, Step(t)
  PROVE  Contents'
<1>a. /\ cap \in Nat \ {0} /\ cap' = cap /\ pos \in [Threads -> Nat]
      /\ enq \in Nat /\ pc \in [Threads -> Labels]
  BY DEF Shape, shape
<1>b. /\ \A u \in Threads : Slot(pos[u]) \in Slots
      /\ Slots' = Slots
  BY <1>a, SlotIn DEF Slots
<1>c. /\ seq \in [Slots -> Nat] /\ tv \in [Slots -> Messages \cup {Cleared}]
      /\ seen \in [Threads -> Nat] /\ val \in [Threads -> Messages \cup {Cleared}]
  BY DEF Contents
<1>1. seq' \in [Slots -> Nat]
  <2>1. ASSUME SeqWriter(t)
        PROVE  \E v \in Nat : seq' = [seq EXCEPT ![Slot(pos[t])] = v]
    <3>1. pos[t] + 1 \in Nat /\ pos[t] + cap \in Nat
      BY <1>a
    <3>2. \/ seq' = [seq EXCEPT ![Slot(pos[t])] = pos[t] + 1]
          \/ seq' = [seq EXCEPT ![Slot(pos[t])] = pos[t] + cap]
      BY <2>1 DEF SeqWriter, SendPublish, CancelPublish, RecvPublish
    <3>3. QED
      BY <3>1, <3>2
  <2>2. QED
    BY <1>b, <1>c, <2>1, StepWrites
<1>2. tv' \in [Slots -> Messages \cup {Cleared}]
  <2>1. ASSUME SendStore(t)
        PROVE  ledger[pos[t] + 1].msg \in Messages
    <3>1. pos[t] + 1 \in 1 .. Len(ledger)
      BY <1>a, <2>1 DEF SendStore, At, Flow, Positioned, Owning, Shape
    <3>2. ledger[pos[t] + 1] \in Entry
      BY <3>1, ElementOfSeq DEF Shape
    <3>3. QED
      BY <3>2 DEF Entry
  <2>2. CASE TvWriter(t)
    BY <1>c, <2>1, <2>2 DEF TvWriter, SendStore, CancelClear, RecvClear
  <2>3. QED
    BY <1>c, <2>2, StepWrites
<1>3. Loaded'
  BY <1>a, <1>b, <1>c, StepLoaded DEF Loaded
<1>4. QED
  BY <1>1, <1>2, <1>3, <1>b DEF Contents, Loaded

(* Every step keeps the types of slots and loads.                          *)
LEMMA NextContents ==
  ASSUME Shape, UNCHANGED shape, Contents, Flow, [Next]_vars
  PROVE  Contents'
<1>1. CASE Close \/ UNCHANGED vars
  BY <1>1 DEF Close, vars, shared, ring, local, shape, Contents, Slots
<1>2. QED
  BY <1>1, Stepping, StepContents

-----------------------------------------------------------------------------
(* Tickets are open until deq has passed them. *)
Fates ==
  \A i \in 1 .. Len(ledger) : ledger[i].fate = "open" <=> i > deq

(* A ticket belongs to one sender, who alone withdraws it or answers. *)
Withdrawing == {"x_clear", "x_pub"}

(* The ticket a sender works on is its own, unanswered, and withdrawn only *)
(* by the sender itself.                                                   *)
Owner(t) ==
  pc[t] \in Owning =>
    /\ ledger[pos[t] + 1].msg[1] = t /\ ledger[pos[t] + 1].told = "nothing"
    /\ pc[t] \in Withdrawing <=> ledger[pos[t] + 1].fate = "withdrawn"

(* This is so for every thread.                                            *)
Owners == \A t \in Threads : Owner(t)

(* What a step does to the ledger: nothing, a ticket (TicketWon), an answer *)
(* to the sender, or the end of the oldest open ticket.                     *)
Passes(t) ==
  /\ UNCHANGED <<ledger, deq>>
  /\ pc'[t] \in Owning => pc[t] \in Owning /\ pos'[t] = pos[t]
  /\ pc'[t] \in Withdrawing => pc[t] \in Withdrawing
  /\ pc'[t] \in Owning /\ pc[t] \in Withdrawing => pc'[t] \in Withdrawing

(* The sender is told the fate of its ticket.                              *)
Answers(t, a) ==
  /\ Tell(t, a) /\ UNCHANGED deq
  /\ pc[t] \in Owning /\ pc'[t] = "idle"
  /\ a = "sent" => pc[t] \notin Withdrawing /\ (rendezvous => deq > pos[t])
  /\ a = "not sent" => pc[t] \in Withdrawing

(* The oldest open ticket is taken or withdrawn.                           *)
Settles(t, a) ==
  /\ ledger' = [ledger EXCEPT ![pos[t] + 1].fate = a]
  /\ deq = pos[t] /\ deq' = deq + 1 /\ deq < enq
  /\ a = "taken" => pc[t] = "r_cas" /\ pc'[t] = "r_load"
  /\ a = "withdrawn" => /\ pc[t] = "v_cancel" /\ pc'[t] = "x_clear"
                        /\ pos'[t] = pos[t]

(* A step of a thread does one of these to the ledger.                     *)
LEMMA StepTruth ==
  ASSUME Shape, NEW t \in Threads, Positioned(t), Step(t)
  PROVE  \/ Passes(t)
         \/ TicketWon(t)
         \/ \E a \in {"sent", "not sent"} : Answers(t, a)
         \/ \E a \in {"taken", "withdrawn"} : Settles(t, a)
<1>a. /\ cap \in Nat \ {0} /\ enq \in Nat /\ deq \in Nat
      /\ pc \in [Threads -> Labels] /\ pos \in [Threads -> Nat]
      /\ rendezvous => cap = 1
  BY DEF Shape
<1> USE DEF At, Goto, LoadPos, Return, shared, shape, ring
<1> USE DEF Owning, Meeting, Withdrawing, Passes
<1>1. CASE SendStart(t) \/ SendStep(t)
  <2>1. CASE SendStart(t)
    BY <2>1, <1>a DEF SendStart
  <2>2. CASE SendClosed(t)
    BY <2>2, <1>a DEF SendClosed
  <2>3. CASE SendLoadEnq(t)
    BY <2>3, <1>a DEF SendLoadEnq
  <2>4. CASE SendLoadSeq(t)
    BY <2>4, <1>a DEF SendLoadSeq
  <2>5. CASE SendDecide(t)
    BY <2>5, <1>a DEF SendDecide
  <2>6. CASE SendClosedAgain(t)
    BY <2>6, <1>a DEF SendClosedAgain
  <2>7. CASE SendTicket(t)
    BY <2>7, <1>a DEF SendTicket, TicketWon
  <2>8. CASE SendStore(t)
    BY <2>8, <1>a DEF SendStore
  <2>9. CASE SendPublish(t)
    <3>1. CASE rendezvous
      BY <1>a, <2>9, <3>1 DEF SendPublish
    <3>2. CASE ~rendezvous
      <4>1. Answers(t, "sent")
        BY <1>a, <2>9, <3>2 DEF SendPublish, Answers
      <4>2. QED
        BY <4>1
    <3>3. QED
      BY <3>1, <3>2
  <2> HIDE DEF Passes, Owning, Meeting, Withdrawing
  <2>10. QED
    BY <1>1, <2>1, <2>2, <2>3, <2>4, <2>5, <2>6, <2>7, <2>8, <2>9 DEF SendStep
<1>2. CASE MeetStep(t) \/ MeetTimeout(t) \/ MeetStop(t)
  <2>1. CASE MeetLoadDeq(t)
    <3>1. CASE deq > pos[t]
      <4>1. Answers(t, "sent")
        BY <1>a, <2>1, <3>1 DEF MeetLoadDeq, Answers
      <4>2. QED
        BY <4>1
    <3>2. CASE ~(deq > pos[t])
      BY <1>a, <2>1, <3>2 DEF MeetLoadDeq
    <3>3. QED
      BY <3>1, <3>2
  <2>2. CASE MeetClosed(t)
    BY <2>2, <1>a DEF MeetClosed
  <2>3. CASE MeetRetry(t)
    BY <2>3, <1>a DEF MeetRetry
  <2>4. CASE CancelTicket(t)
    <3>1. CASE deq = pos[t]
      <4>1. Settles(t, "withdrawn")
        BY <1>a, <2>4, <3>1 DEF CancelTicket, Settles, Positioned
      <4>2. QED
        BY <4>1
    <3>2. CASE deq # pos[t]
      <4>1. Answers(t, "sent")
        BY <1>a, <2>4, <3>2 DEF CancelTicket, Answers, Positioned
      <4>2. QED
        BY <4>1
    <3>3. QED
      BY <3>1, <3>2
  <2>5. CASE CancelClear(t)
    BY <2>5, <1>a DEF CancelClear
  <2>6. CASE CancelPublish(t)
    <3>1. Answers(t, "not sent")
      BY <1>a, <2>6 DEF CancelPublish, Answers
    <3>2. QED
      BY <3>1
  <2>7. CASE MeetTimeout(t)
    BY <2>7, <1>a DEF MeetTimeout
  <2>8. CASE MeetStop(t)
    BY <2>8, <1>a DEF MeetStop
  <2> HIDE DEF Passes, Owning, Meeting, Withdrawing
  <2>9. QED
    BY <1>2, <2>1, <2>2, <2>3, <2>4, <2>5, <2>6, <2>7, <2>8 DEF MeetStep
<1>3. CASE RecvStart(t) \/ RecvStep(t)
  <2>1. CASE RecvStart(t)
    BY <2>1, <1>a DEF RecvStart
  <2>2. CASE RecvLoadSeq(t)
    BY <2>2, <1>a DEF RecvLoadSeq
  <2>3. CASE RecvLoadDeq(t)
    BY <2>3, <1>a DEF RecvLoadDeq
  <2>4. CASE RecvTicket(t)
    <3>1. CASE deq = pos[t]
      <4>1. Settles(t, "taken")
        BY <1>a, <2>4, <3>1 DEF RecvTicket, Settles, Positioned
      <4>2. QED
        BY <4>1
    <3>2. CASE deq # pos[t]
      BY <1>a, <2>4, <3>2 DEF RecvTicket
    <3>3. QED
      BY <3>1, <3>2
  <2>5. CASE RecvLoad(t)
    BY <2>5, <1>a DEF RecvLoad
  <2>6. CASE RecvClear(t)
    BY <2>6, <1>a DEF RecvClear
  <2>7. CASE RecvPublish(t)
    BY <2>7, <1>a DEF RecvPublish
  <2>8. CASE RecvClosed(t)
    BY <2>8, <1>a DEF RecvClosed
  <2>9. CASE RecvLoadEnq(t)
    BY <2>9, <1>a DEF RecvLoadEnq
  <2> HIDE DEF Passes, Owning, Meeting, Withdrawing
  <2>10. QED
    BY <1>3, <2>1, <2>2, <2>3, <2>4, <2>5, <2>6, <2>7, <2>8, <2>9 DEF RecvStep
<1>4. CASE PeekStep(t)
  <2>1. CASE PeekStart(t)
    BY <2>1, <1>a DEF PeekStart
  <2>2. CASE PeekLoadSeq(t)
    BY <2>2, <1>a DEF PeekLoadSeq
  <2>3. CASE PeekLoadDeq(t)
    BY <2>3, <1>a DEF PeekLoadDeq
  <2>4. CASE PeekLoad(t)
    BY <2>4, <1>a DEF PeekLoad
  <2>5. CASE PeekRecheck(t)
    BY <2>5, <1>a DEF PeekRecheck, Recheck
  <2>6. CASE PeekClosed(t)
    BY <2>6, <1>a DEF PeekClosed
  <2>7. CASE PeekLoadEnq(t)
    BY <2>7, <1>a DEF PeekLoadEnq
  <2> HIDE DEF Passes, Owning, Meeting, Withdrawing
  <2>8. QED
    BY <1>4, <2>1, <2>2, <2>3, <2>4, <2>5, <2>6, <2>7 DEF PeekStep
<1> HIDE DEF Passes, Owning, Meeting, Withdrawing
<1>5. QED
  BY <1>1, <1>2, <1>3, <1>4 DEF Step

(* What the ledger says of tickets, owners and answers fits together.      *)
Truth == Fates /\ Owners /\ MeetTruthful

(* Every step keeps this.                                                  *)
LEMMA NextTruth ==
  ASSUME Shape, Shape', UNCHANGED shape, Contents, Budget, Sides, Flow, Flow', Truth,
         [Next]_vars
  PROVE  Truth'
<1>a. /\ cap \in Nat \ {0} /\ enq \in Nat /\ deq \in Nat /\ enq = Len(ledger)
      /\ pc \in [Threads -> Labels] /\ pos \in [Threads -> Nat]
      /\ DOMAIN ledger = 1 .. Len(ledger) /\ DOMAIN ledger' = 1 .. Len(ledger')
      /\ ledger \in Seq(Entry) /\ rendezvous' = rendezvous
  BY LenProperties DEF Shape, shape
<1>b. \A i \in 1 .. Len(ledger) : ledger[i].fate \in {"open", "taken", "withdrawn"}
  <2>1. \A i \in 1 .. Len(ledger) : ledger[i] \in Entry
    BY <1>a, ElementOfSeq
  <2>2. QED
    BY <2>1 DEF Entry
<1>c. \A u \in Threads : pc[u] \in Owning => pos[u] + 1 \in 1 .. Len(ledger)
  BY <1>a DEF Flow, Positioned
<1>e. \A u, v \in Threads :
        u # v /\ pc[u] \in Owning /\ pc[v] \in Owning => pos[u] # pos[v]
  BY DEF Truth, Owners, Owner
<1>1. ASSUME UNCHANGED <<ledger, deq, pc, pos>> PROVE Truth'
  BY <1>a, <1>1 DEF Truth, Fates, Owners, Owner, MeetTruthful
<1>2. ASSUME NEW t \in Threads, Alone(t), Passes(t) PROVE Truth'
  <2>1. Fates' /\ MeetTruthful'
    BY <1>a, <1>2 DEF Truth, Fates, MeetTruthful, Passes
  <2>2. ASSUME NEW u \in Threads PROVE Owner(u)'
    <3>1. CASE u = t
      BY <1>2, <3>1 DEF Passes, Truth, Owners, Owner
    <3>2. CASE u # t
      BY <1>2, <3>2 DEF Passes, Alone, Truth, Owners, Owner
    <3>3. QED
      BY <3>1, <3>2
  <2>3. QED
    BY <2>1, <2>2 DEF Truth, Owners
<1>3. ASSUME NEW t \in Threads, Alone(t), TicketWon(t) PROVE Truth'
  <2>1. PICK e \in Entry :
          /\ ledger' = Append(ledger, e) /\ e.msg = NextMessage(t)
          /\ e.fate = "open" /\ e.told = "nothing"
    BY <1>3, TicketEntry
  <2>2. /\ Len(ledger') = Len(ledger) + 1 /\ ledger'[Len(ledger) + 1] = e
        /\ \A i \in 1 .. Len(ledger) : ledger'[i] = ledger[i]
    BY <1>a, <2>1
  <2>3. deq' = deq /\ pc'[t] = "s_store" /\ pos'[t] = pos[t] /\ pos[t] = Len(ledger)
    BY <1>a, <1>3 DEF TicketWon, SendTicket, Goto
  <2>4. Fates'
    BY <1>a, <2>1, <2>2, <2>3 DEF Truth, Fates, Flow, Span
  <2>5. MeetTruthful'
    <3>1. ASSUME NEW i \in 1 .. Len(ledger')
          PROVE  /\ rendezvous /\ ledger'[i].told = "sent" => ledger'[i].fate = "taken"
                 /\ ledger'[i].told = "not sent" => ledger'[i].fate = "withdrawn"
      <4>1. CASE i = Len(ledger) + 1
        BY <2>1, <2>2, <4>1
      <4>2. CASE i \in 1 .. Len(ledger)
        BY <1>a, <2>2, <4>2 DEF Truth, MeetTruthful
      <4>3. i = Len(ledger) + 1 \/ i \in 1 .. Len(ledger)
        <5>1. Len(ledger) \in Nat
          BY <1>a
        <5>2. QED
          BY <2>2, <3>1, <5>1
      <4>4. QED
        BY <4>1, <4>2, <4>3
    <3>2. QED
      BY <1>a, <3>1 DEF MeetTruthful
  <2>6. ASSUME NEW u \in Threads PROVE Owner(u)'
    <3>1. CASE u = t
      BY <2>1, <2>2, <2>3, <3>1 DEF Owner, NextMessage, Withdrawing
    <3>2. CASE u # t
      BY <1>3, <1>c, <2>2, <3>2 DEF Alone, Truth, Owners, Owner
    <3>3. QED
      BY <3>1, <3>2
  <2>7. QED
    BY <2>4, <2>5, <2>6 DEF Truth, Owners
<1>f. /\ \A u \in Threads :
           pos[u] + 1 \in Nat /\ (deq > pos[u] => ~(pos[u] + 1 > deq))
      /\ \A u, v \in Threads : pos[u] # pos[v] => pos[u] + 1 # pos[v] + 1
  BY <1>a
<1>4. ASSUME NEW t \in Threads, Alone(t), NEW a \in {"sent", "not sent"}, Answers(t, a)
      PROVE  Truth'
  <2>1. /\ Len(ledger') = Len(ledger)
        /\ \A i \in 1 .. Len(ledger) :
             /\ ledger'[i].msg = ledger[i].msg /\ ledger'[i].fate = ledger[i].fate
             /\ i = pos[t] + 1 => ledger'[i].told = a
             /\ i # pos[t] + 1 => ledger'[i].told = ledger[i].told
    <3>1. ledger' = [ledger EXCEPT ![pos[t] + 1].told = a]
      BY <1>4 DEF Answers, Tell
    <3>2. pos[t] + 1 \in Nat
      BY <1>f, <1>4
    <3>3. PICK k \in Nat : k = pos[t] + 1
      BY <3>2
    <3>4. ledger' = [ledger EXCEPT ![k].told = a]
      BY <3>1, <3>3
    <3>5. /\ Len(ledger') = Len(ledger)
          /\ \A i \in 1 .. Len(ledger) :
               /\ ledger'[i].msg = ledger[i].msg /\ ledger'[i].fate = ledger[i].fate
               /\ i = k => ledger'[i].told = a
               /\ i # k => ledger'[i].told = ledger[i].told
      <4>1. ledger \in Seq(Entry) /\ a \in {"sent", "not sent"}
        BY <1>a, <1>4
      <4>2. QED
        BY <3>4, <4>1, EntryTold, Zenon
    <3>6. QED
      BY <3>3, <3>5
  <2>2. Fates'
    BY <1>4, <2>1 DEF Truth, Fates, Answers
  <2>3. MeetTruthful'
    <3>1. /\ pos[t] + 1 \in 1 .. Len(ledger)
          /\ pc[t] \in Withdrawing <=> ledger[pos[t] + 1].fate = "withdrawn"
          /\ deq > pos[t] => ledger[pos[t] + 1].fate # "open"
      <4>1. pos[t] + 1 \in 1 .. Len(ledger)
        BY <1>4, <1>c DEF Answers
      <4>2. pc[t] \in Withdrawing <=> ledger[pos[t] + 1].fate = "withdrawn"
        BY <1>4 DEF Answers, Truth, Owners, Owner
      <4>3. deq > pos[t] => ~(pos[t] + 1 > deq)
        BY <1>f, <1>4
      <4>4. QED
        BY <4>1, <4>2, <4>3 DEF Truth, Fates
    <3>2. \A i \in 1 .. Len(ledger) : i # pos[t] + 1 =>
            /\ rendezvous /\ ledger'[i].told = "sent" => ledger'[i].fate = "taken"
            /\ ledger'[i].told = "not sent" => ledger'[i].fate = "withdrawn"
      BY <1>a, <2>1 DEF Truth, MeetTruthful
    <3>3. /\ rendezvous /\ a = "sent" => ledger[pos[t] + 1].fate = "taken"
          /\ a = "not sent" => ledger[pos[t] + 1].fate = "withdrawn"
      BY <1>4, <1>b, <3>1 DEF Answers
    <3>4. QED
      BY <1>a, <2>1, <3>1, <3>2, <3>3 DEF MeetTruthful
  <2>4. ASSUME NEW u \in Threads, pc'[u] \in Owning PROVE Owner(u)'
    <3>1. u # t
      BY <1>4, <2>4 DEF Answers, Owning, Meeting
    <3>2. pc'[u] = pc[u] /\ pos'[u] = pos[u] /\ pos[u] # pos[t]
      BY <1>4, <1>e, <2>4, <3>1 DEF Alone, Answers
    <3>3. pos[u] + 1 \in 1 .. Len(ledger) /\ pos[u] + 1 # pos[t] + 1
      <4>1. pos[u] + 1 \in 1 .. Len(ledger)
        BY <1>c, <2>4, <3>2
      <4>2. pos[u] + 1 # pos[t] + 1
        BY <1>f, <1>4, <2>4, <3>2
      <4>3. QED
        BY <4>1, <4>2
    <3>4. Owner(u) /\ pc[u] \in Owning
      BY <2>4, <3>2 DEF Truth, Owners
    <3>5. QED
      BY <2>1, <3>2, <3>3, <3>4 DEF Owner
  <2>5. QED
    BY <2>2, <2>3, <2>4 DEF Truth, Owners, Owner
<1>5. ASSUME NEW t \in Threads, Alone(t), NEW a \in {"taken", "withdrawn"}, Settles(t, a)
      PROVE  Truth'
  <2>1. /\ Len(ledger') = Len(ledger)
        /\ \A i \in 1 .. Len(ledger) :
             /\ ledger'[i].msg = ledger[i].msg /\ ledger'[i].told = ledger[i].told
             /\ i = deq + 1 => ledger'[i].fate = a
             /\ i # deq + 1 => ledger'[i].fate = ledger[i].fate
    BY <1>a, <1>5, EntryFate, pos[t] + 1 \in Nat DEF Settles
  <2>2. deq' = deq + 1 /\ deq + 1 \in 1 .. Len(ledger) /\ pos[t] = deq
    BY <1>a, <1>5 DEF Settles
  <2>3. Fates'
    <3>1. \A i \in 1 .. Len(ledger) : i # deq + 1 => (i > deq' <=> i > deq)
      BY <1>a, <2>2
    <3>2. QED
      BY <1>a, <2>1, <2>2, <3>1 DEF Truth, Fates
  <2>4. MeetTruthful'
    <3>1. ledger[deq + 1].fate = "open"
      BY <1>a, <2>2 DEF Truth, Fates
    <3>2. ~(rendezvous /\ ledger[deq + 1].told = "sent")
          /\ ledger[deq + 1].told # "not sent"
      BY <1>a, <2>2, <3>1 DEF Truth, MeetTruthful
    <3>3. QED
      BY <1>a, <2>1, <3>2 DEF Truth, MeetTruthful
  <2>5. ASSUME NEW u \in Threads, pc'[u] \in Owning PROVE Owner(u)'
    <3>1. CASE u = t
      <4>1. a = "withdrawn" /\ pc[t] \in Owning \ Withdrawing /\ pc'[t] \in Withdrawing
            /\ pos'[t] = pos[t]
        BY <1>5, <2>5, <3>1 DEF Settles, Owning, Meeting, Withdrawing
      <4>2. QED
        BY <2>1, <2>2, <3>1, <4>1 DEF Truth, Owners, Owner
    <3>2. CASE u # t
      <4>1. pc'[u] = pc[u] /\ pos'[u] = pos[u] /\ pos[u] + 1 \in 1 .. Len(ledger)
        BY <1>5, <1>c, <2>5, <3>2 DEF Alone
      <4>2. CASE pos[u] + 1 # deq + 1
        BY <2>1, <4>1, <4>2 DEF Truth, Owners, Owner
      <4>3. CASE pos[u] + 1 = deq + 1
        <5>1. pos[u] = pos[t]
          BY <1>a, <2>2, <4>3
        <5>2. a = "taken"
          BY <1>5, <1>e, <2>5, <3>2, <4>1, <5>1 DEF Settles, Owning, Meeting
        <5>3. ledger[deq + 1].fate = "open"
          BY <1>a, <2>2 DEF Truth, Fates
        <5>4. QED
          BY <2>1, <2>2, <4>1, <4>3, <5>2, <5>3 DEF Truth, Owners, Owner
      <4>4. QED
        BY <4>2, <4>3
    <3>3. QED
      BY <3>1, <3>2
  <2>6. QED
    BY <2>3, <2>4, <2>5 DEF Truth, Owners, Owner
<1>6. CASE Close \/ UNCHANGED vars
  BY <1>1, <1>6 DEF Close, vars, shared, ring, local
<1>7. ASSUME NEW t \in Threads, Step(t) PROVE Truth'
  <2>1. Alone(t)
    BY <1>7, StepAlone DEF Shape, Contents
  <2>2. QED
    BY <1>2, <1>3, <1>4, <1>5, <1>7, <2>1, StepTruth DEF Flow
<1>8. QED
  BY <1>6, <1>7, Stepping

-----------------------------------------------------------------------------
(* The inductive invariant of every channel, whatever its capacity.        *)
IInv ==
  /\ Shape /\ Contents /\ Budget /\ Numbered /\ Sides
  /\ Flow /\ SeqBound /\ Truth

(* It holds at the start.                                                  *)
LEMMA InitIInv ==
  ASSUME Init
  PROVE  IInv
<1>1. Shape
  <2>1. PICK c \in Capacities : cap = RoundCapacity(c) /\ rendezvous = (c = 0)
    BY DEF Init
  <2>2. /\ cap \in Nat \ {0} /\ cap \in {RoundCapacity(d) : d \in Capacities}
        /\ rendezvous \in BOOLEAN /\ (rendezvous => cap = 1)
    BY <2>1, RoundingAssumption
  <2>3. /\ ledger = <<>> /\ enq = 0 /\ deq = 0 /\ closed = FALSE
        /\ pc \in [Threads -> {"idle"}] /\ pos \in [Threads -> {0}]
    BY DEF Init
  <2>4. ledger \in Seq(Entry) /\ Len(ledger) = 0
    BY <2>3
  <2>5. pc \in [Threads -> Labels] /\ pos \in [Threads -> Nat]
    BY <2>3 DEF Labels
  <2>6. QED
    BY <2>2, <2>3, <2>4, <2>5 DEF Shape
<1>2. /\ enq = 0 /\ deq = 0 /\ closed = FALSE
      /\ DOMAIN ledger = {} /\ ledger = <<>> /\ Len(ledger) = 0
      /\ \A t \in Threads : pc[t] = "idle" /\ pos[t] = 0
      /\ seq \in [Slots -> Nat] /\ \A s \in Slots : seq[s] = s
  BY <1>1 DEF Init, Slots, Shape
<1>3. Contents
  BY <1>2 DEF Init, Contents
<1>4. Budget
  <2>1. \A t : Tickets(t) = {}
    BY <1>2 DEF Tickets
  <2>2. \A t : Cardinality(Tickets(t)) = 0
    BY <2>1, FS_EmptySet
  <2>3. \A t \in Senders : pc[t] \notin Deciding
    BY <1>2 DEF Deciding, Threads
  <2>4. QED
    BY <2>2, <2>3, ChannelAssumption DEF Budget
<1>5. Numbered /\ Sides
  BY <1>2 DEF Numbered, Sides, SendPcs, RecvPcs
<1>6. Flow
  BY <1>1, <1>2 DEF Flow, Span, Positioned, Lagging, Owning, Meeting, Taking,
     RecvPcs, PeekPcs, Shape
<1>7. SeqBound
  <2>1. ASSUME NEW s \in Slots
        PROVE  seq[s] <= enq \/ (cap >= 2 /\ Slot(seq[s]) = s)
    <3>1. s \in Nat /\ s < cap /\ cap \in Nat
      BY <1>1, <2>1 DEF Slots, Shape
    <3>2. CASE s = 0
      BY <1>2, <2>1, <3>2
    <3>3. CASE s # 0
      BY <1>2, <2>1, <3>1, <3>3 DEF Slot
    <3>4. QED
      BY <3>2, <3>3
  <2>2. QED
    BY <2>1 DEF SeqBound
<1>8. Truth
  BY <1>2 DEF Truth, Fates, Owners, Owner, Owning, Meeting, MeetTruthful
<1>9. QED
  BY <1>1, <1>3, <1>4, <1>5, <1>6, <1>7, <1>8 DEF IInv

(* It is kept by every step.                                               *)
LEMMA NextIInv ==
  ASSUME IInv, [Next]_vars
  PROVE  IInv'
<1>1. Shape' /\ UNCHANGED shape
  BY NextShape DEF IInv
<1>2. Contents' /\ Sides' /\ Budget' /\ Numbered'
  BY <1>1, NextContents, NextSides, NextBook DEF IInv
<1>3. Flow' /\ SeqBound'
  BY <1>1, NextFlow, NextSeqBound DEF IInv
<1>4. Truth'
  BY <1>1, <1>3, NextTruth DEF IInv
<1>5. QED
  BY <1>1, <1>2, <1>3, <1>4 DEF IInv

(* The parts hold in every reachable state of every channel.               *)
THEOREM ChannelInvariant == Spec => []IInv
BY InitIInv, NextIInv, PTL DEF Spec

(* No two tickets carry the same message, so there are no more of them     *)
(* than messages.                                                          *)
LEMMA TicketsBounded ==
  ASSUME IInv
  PROVE  enq \in Positions
<1> DEFINE f == [i \in 1 .. enq |-> ledger[i].msg]
<1>1. enq \in Nat /\ DOMAIN ledger = 1 .. enq /\ ledger \in Seq(Entry)
  BY LenProperties DEF IInv, Shape
<1>2. f \in [1 .. enq -> Messages]
  <2>1. \A i \in 1 .. enq : ledger[i] \in Entry
    BY <1>1, ElementOfSeq
  <2>2. QED
    BY <2>1 DEF Entry
<1>3. \A i, j \in 1 .. enq : f[i] = f[j] => i = j
  BY <1>1 DEF IInv, Numbered
<1> HIDE DEF f
<1>4. f \in Injection(1 .. enq, Messages)
  BY <1>2, <1>3 DEF Injection, IsInjective
<1>5. /\ IsFiniteSet(Messages)
      /\ Cardinality(Messages) = Cardinality(Senders) * MaxTickets
  <2>1. IsFiniteSet(1 .. MaxTickets) /\ Cardinality(1 .. MaxTickets) = MaxTickets
    BY FS_Interval, ChannelAssumption
  <2>2. QED
    BY <2>1, FS_Product, ChannelAssumption DEF Messages
<1>6. Cardinality(1 .. enq) = enq
  BY <1>1, FS_Interval
<1>7. enq <= Cardinality(Senders) * MaxTickets
  BY <1>4, <1>5, <1>6, FS_Injection
<1>8. Cardinality(Senders) \in Nat /\ MaxTickets \in Nat
  BY ChannelAssumption, FS_CardinalityType
<1>9. Cardinality(Senders) * MaxTickets = MaxTickets * Cardinality(Senders)
  BY <1>8
<1>10. QED
  BY <1>1, <1>7, <1>8, <1>9 DEF Positions

(* Every variable keeps its type: the tickets taken exceed the tickets     *)
(* given out never, and those never exceed them by more than the capacity. *)
THEOREM ChannelTypeCorrect == Spec => []TypeOK
<1>1. IInv => TypeOK
  <2> SUFFICES ASSUME IInv PROVE TypeOK
    OBVIOUS
  <2>1. enq \in Positions
    BY TicketsBounded
  <2>2. enq \in Nat /\ deq \in Nat /\ deq <= enq /\ enq <= deq + cap
    BY DEF IInv, Shape, Flow, Span
  <2>3. \A n \in Nat : n <= enq => n \in Positions
    <3>1. \A b \in Nat : enq \in 0 .. b => \A n \in Nat : n <= enq => n \in 0 .. b
      BY <2>2
    <3>2. MaxTickets * Cardinality(Senders) \in Nat
      BY ChannelAssumption, FS_CardinalityType
    <3>3. QED
      BY <2>1, <3>1, <3>2 DEF Positions
  <2>4. deq \in Positions
    BY <2>2, <2>3
  <2>5. pos \in [Threads -> Positions]
    <3>1. pos \in [Threads -> Nat] /\ \A t \in Threads : pos[t] <= enq
      BY DEF IInv, Shape, Flow, Positioned
    <3>2. \A t \in Threads : pos[t] \in Positions
      BY <2>3, <3>1
    <3>3. QED
      BY <3>1, <3>2
  <2>6. QED
    BY <2>1, <2>2, <2>4, <2>5 DEF IInv, Shape, Contents, Labels, TypeOK
<1>2. QED
  BY <1>1, ChannelInvariant, PTL

(* Only one load ends a receive with CLOSED. *)
LEMMA StepEnds ==
  ASSUME pc \in [Threads -> Labels], NEW t \in Threads, Step(t),
         pc[t] # "ended", pc'[t] = "ended"
  PROVE  RecvLoadEnq(t) /\ enq <= pos[t]
<1> USE DEF At, Goto, LoadPos, Return
<1>1. CASE SendStart(t) \/ SendStep(t)
  <2>1. CASE SendStart(t)
    BY <2>1 DEF SendStart
  <2>2. CASE SendClosed(t)
    BY <2>2 DEF SendClosed
  <2>3. CASE SendLoadEnq(t)
    BY <2>3 DEF SendLoadEnq
  <2>4. CASE SendLoadSeq(t)
    BY <2>4 DEF SendLoadSeq
  <2>5. CASE SendDecide(t)
    BY <2>5 DEF SendDecide
  <2>6. CASE SendClosedAgain(t)
    BY <2>6 DEF SendClosedAgain
  <2>7. CASE SendTicket(t)
    BY <2>7 DEF SendTicket
  <2>8. CASE SendStore(t)
    BY <2>8 DEF SendStore
  <2>9. CASE SendPublish(t)
    BY <2>9 DEF SendPublish
  <2>10. QED
    BY <1>1, <2>1, <2>2, <2>3, <2>4, <2>5, <2>6, <2>7, <2>8, <2>9 DEF SendStep
<1>2. CASE MeetStep(t) \/ MeetTimeout(t) \/ MeetStop(t)
  <2>1. CASE MeetLoadDeq(t)
    BY <2>1 DEF MeetLoadDeq
  <2>2. CASE MeetClosed(t)
    BY <2>2 DEF MeetClosed
  <2>3. CASE MeetRetry(t)
    BY <2>3 DEF MeetRetry
  <2>4. CASE CancelTicket(t)
    BY <2>4 DEF CancelTicket
  <2>5. CASE CancelClear(t)
    BY <2>5 DEF CancelClear
  <2>6. CASE CancelPublish(t)
    BY <2>6 DEF CancelPublish
  <2>7. CASE MeetTimeout(t)
    BY <2>7 DEF MeetTimeout
  <2>8. CASE MeetStop(t)
    BY <2>8 DEF MeetStop
  <2>9. QED
    BY <1>2, <2>1, <2>2, <2>3, <2>4, <2>5, <2>6, <2>7, <2>8 DEF MeetStep
<1>3. CASE RecvStart(t) \/ RecvStep(t)
  <2>1. CASE RecvStart(t)
    BY <2>1 DEF RecvStart
  <2>2. CASE RecvLoadSeq(t)
    BY <2>2 DEF RecvLoadSeq
  <2>3. CASE RecvLoadDeq(t)
    BY <2>3 DEF RecvLoadDeq
  <2>4. CASE RecvTicket(t)
    BY <2>4 DEF RecvTicket
  <2>5. CASE RecvLoad(t)
    BY <2>5 DEF RecvLoad
  <2>6. CASE RecvClear(t)
    BY <2>6 DEF RecvClear
  <2>7. CASE RecvPublish(t)
    BY <2>7 DEF RecvPublish
  <2>8. CASE RecvClosed(t)
    BY <2>8 DEF RecvClosed
  <2>9. CASE RecvLoadEnq(t)
    BY <2>9 DEF RecvLoadEnq
  <2>10. QED
    BY <1>3, <2>1, <2>2, <2>3, <2>4, <2>5, <2>6, <2>7, <2>8, <2>9 DEF RecvStep
<1>4. CASE PeekStep(t)
  <2>1. CASE PeekStart(t)
    BY <2>1 DEF PeekStart
  <2>2. CASE PeekLoadSeq(t)
    BY <2>2 DEF PeekLoadSeq
  <2>3. CASE PeekLoadDeq(t)
    BY <2>3 DEF PeekLoadDeq
  <2>4. CASE PeekLoad(t)
    BY <2>4 DEF PeekLoad
  <2>5. CASE PeekRecheck(t)
    BY <2>5 DEF PeekRecheck, Recheck
  <2>6. CASE PeekClosed(t)
    BY <2>6 DEF PeekClosed
  <2>7. CASE PeekLoadEnq(t)
    BY <2>7 DEF PeekLoadEnq
  <2>8. QED
    BY <1>4, <2>1, <2>2, <2>3, <2>4, <2>5, <2>6, <2>7 DEF PeekStep
<1>5. QED
  BY <1>1, <1>2, <1>3, <1>4 DEF Step

(* A receiver is told CLOSED only when the channel is closed and drained:  *)
(* its position has been in deq, and a closed flag stays set.              *)
THEOREM ChannelEndOfStream == Spec => EndOfStream
<1>1. ASSUME IInv, [Next]_vars, NEW t \in Receivers,
             pc[t] # "ended", pc'[t] = "ended"
      PROVE  closed /\ deq = enq
  <2>a. /\ t \in Threads /\ pc \in [Threads -> Labels]
        /\ enq \in Nat /\ deq \in Nat /\ pos[t] \in Nat
    BY <1>1 DEF IInv, Shape, Threads
  <2>1. PICK u \in Threads : Step(u)
    <3>1. ~Close /\ ~UNCHANGED vars
      BY <1>1 DEF Close, vars, local
    <3>2. QED
      BY <1>1, <3>1, Stepping
  <2>2. t = u
    BY <1>1, <2>a, <2>1, StepAlone DEF IInv, Shape, Contents, Alone
  <2>3. RecvLoadEnq(t) /\ enq <= pos[t]
    BY <1>1, <2>a, <2>1, <2>2, StepEnds
  <2>4. closed /\ pos[t] <= deq /\ deq <= enq
    BY <1>1, <2>a, <2>3 DEF IInv, Flow, Positioned, Span, RecvLoadEnq, At,
       Lagging, RecvPcs
  <2>5. QED
    BY <2>a, <2>3, <2>4
<1>2. IInv /\ [Next]_vars =>
        [\A t \in Receivers :
           pc[t] # "ended" /\ pc'[t] = "ended" => closed /\ deq = enq]_vars
  BY <1>1
<1>3. QED
  BY <1>2, ChannelInvariant, PTL DEF Spec, EndOfStream

(* What a sender on a rendezvous is told is true, at every moment and for  *)
(* every number of threads.                                                *)
THEOREM ChannelMeetTruthful == Spec => []MeetTruthful
<1>1. IInv => MeetTruthful
  BY DEF IInv, Truth
<1>2. QED
  BY <1>1, ChannelInvariant, PTL

-----------------------------------------------------------------------------
(* The ring of two slots and more.  The sequence number of a slot says who *)
(* may touch its value: p, the sender with ticket p or nobody yet; p + 1,  *)
(* the receiver with ticket p or nobody yet.  With one slot p + 1 is also  *)
(* the first of these for the next ticket, and all of this fails.          *)
Filling == {"s_store", "s_pub"}

(* The message of ticket p.                                                *)
Msg(p) == ledger[p + 1].msg

(* A sender with a ticket has the slot for itself.                         *)
Fills(t) ==
  pc[t] \in Filling =>
    /\ deq <= pos[t] /\ seq[Slot(pos[t])] = pos[t]
    /\ pc[t] = "s_pub" => tv[Slot(pos[t])] = Msg(pos[t])

(* A receiver with a ticket has the slot for itself, and its message.      *)
Takes(t) ==
  pc[t] \in Taking =>
    /\ enq <= pos[t] + cap /\ seq[Slot(pos[t])] = pos[t] + 1
    /\ pc[t] = "r_load" => tv[Slot(pos[t])] = Msg(pos[t])
    /\ pc[t] # "r_load" => val[t] = Msg(pos[t])

(* What a thread has read of a slot is true until its ticket is gone.      *)
Reads(t) ==
  /\ (pc[t] = "s_deq" /\ seen[t] = pos[t]) \/ pc[t] \in {"s_again", "s_cas"} =>
       enq > pos[t] \/ seq[Slot(pos[t])] = pos[t]
  /\ pc[t] \in {"r_cas", "p_load"} =>
       deq > pos[t] \/ seq[Slot(pos[t])] = pos[t] + 1
  /\ pc[t] = "p_deq2" => deq > pos[t] \/ val[t] = Msg(pos[t])
  /\ pc[t] \in {"p_seq2", "p_tv2", "peeked"} =>
       enq > pos[t] /\ val[t] = Msg(pos[t])

(* What thread t relies on.                                                *)
Held(t) == Fills(t) /\ Takes(t) /\ Reads(t)

(* A slot that is full and not taken holds the message of its ticket.      *)
Full ==
  \A q \in Nat :
    deq <= q /\ q < enq /\ seq[Slot(q)] = q + 1 => tv[Slot(q)] = Msg(q)

(* Tickets are won by one thread each.                                     *)
Apart ==
  \A t, u \in Threads :
    t # u /\ (\/ pc[t] \in Filling /\ pc[u] \in Filling
              \/ pc[t] \in Taking /\ pc[u] \in Taking) => pos[t] # pos[u]

(* The slots are passed on in order.                                       *)
Ring == Full /\ Apart /\ \A t \in Threads : Held(t)

(* Positions that share a slot are not neighbours.                         *)
LEMMA SlotApart ==
  ASSUME Shape, cap >= 2, NEW p \in Nat, NEW q \in Nat, Slot(p) = Slot(q)
  PROVE  p # q + 1 /\ q # p + 1
BY NextSlot DEF Shape, Slot

(* A step that leaves the local variables of u alone keeps Held(u) if it   *)
(* keeps what u relies on of its slot.                                     *)
LEMMA HeldKept ==
  ASSUME Shape, Flow, UNCHANGED shape, NEW u \in Threads, Held(u),
         pc'[u] = pc[u], pos'[u] = pos[u], seen'[u] = seen[u], val'[u] = val[u],
         enq' \in Nat, deq' \in Nat, enq <= enq', deq <= deq',
         pos[u] < enq => Msg(pos[u])' = Msg(pos[u]),
         pc[u] \in Filling =>
           /\ deq' <= pos[u] /\ seq'[Slot(pos[u])] = seq[Slot(pos[u])]
           /\ tv'[Slot(pos[u])] = tv[Slot(pos[u])],
         pc[u] \in Taking =>
           /\ enq' <= pos[u] + cap /\ seq'[Slot(pos[u])] = seq[Slot(pos[u])]
           /\ pc[u] = "r_load" => tv'[Slot(pos[u])] = tv[Slot(pos[u])],
         \/ seq'[Slot(pos[u])] = seq[Slot(pos[u])]
         \/ /\ seq[Slot(pos[u])] = pos[u] => enq' > pos[u]
            /\ seq[Slot(pos[u])] = pos[u] + 1 => deq' > pos[u]
  PROVE  Held(u)'
<1>a. /\ cap \in Nat /\ enq \in Nat /\ deq \in Nat /\ pos[u] \in Nat
      /\ cap' = cap /\ deq <= enq
  BY DEF Shape, Flow, Span, shape
<1>b. Slot(pos[u])' = Slot(pos[u])
  BY <1>a DEF Slot
<1>c. /\ pc[u] \in Filling => pos[u] < enq
      /\ pc[u] \in Taking => pos[u] < enq
      /\ pc[u] = "p_deq2" => pos[u] < enq
  BY <1>a DEF Flow, Positioned, Filling, Owning, Taking
<1>1. Fills(u)'
  BY <1>a, <1>b, <1>c DEF Held, Fills
<1>2. Takes(u)'
  BY <1>a, <1>b, <1>c DEF Held, Takes
<1>3. Reads(u)'
  BY <1>a, <1>b, <1>c DEF Held, Reads
<1>4. QED
  BY <1>1, <1>2, <1>3 DEF Held

(* The steps that touch what others rely on; all the others only read, and *)
(* what they read is as it should be.                                      *)
Taken(t) == RecvTicket(t) /\ deq = pos[t]

(* These steps take a ticket, or write to a slot.                          *)
Working(t) ==
  \/ TicketWon(t) \/ SendStore(t) \/ SendPublish(t)
  \/ Taken(t) \/ RecvClear(t) \/ RecvPublish(t)

(* A step that only looks keeps tickets, slots and what t relies on.       *)
Looking(t) ==
  /\ UNCHANGED <<enq, deq, seq, tv, ledger>> /\ Held(t)'
  /\ pc'[t] \in Filling => pc[t] \in Filling /\ pos'[t] = pos[t]
  /\ pc'[t] \in Taking <=> pc[t] \in Taking
  /\ pc'[t] \in Taking => pos'[t] = pos[t]

(* There are no other steps on a buffered channel.                         *)
LEMMA StepLooking ==
  ASSUME Shape, Flow, ~rendezvous, NEW t \in Threads, Held(t), Full, Step(t),
         UNCHANGED shape, seen \in [Threads -> Nat],
         val \in [Threads -> Messages \cup {Cleared}]
  PROVE  Working(t) \/ Looking(t)
<1>a. /\ cap \in Nat \ {0} /\ enq \in Nat /\ deq \in Nat
      /\ pc \in [Threads -> Labels] /\ pos \in [Threads -> Nat]
      /\ seen \in [Threads -> Nat]
      /\ val \in [Threads -> Messages \cup {Cleared}]
      /\ deq <= enq
  BY DEF Shape, Flow, Span
<1>b. cap' = cap
  BY DEF shape
<1>c. pc[t] \notin Meeting
  BY DEF Flow, Positioned
<1>d. /\ deq <= pos[t] /\ pos[t] < enq /\ seq[Slot(pos[t])] = pos[t] + 1
           => tv[Slot(pos[t])] = Msg(pos[t])
      /\ pc[t] \in Lagging => pos[t] <= deq
      /\ pc[t] \in {"p_load", "p_deq2"} => pos[t] < enq
  BY <1>a DEF Full, Flow, Positioned
<1> USE DEF Working, Looking, Held, Fills, Takes, Reads, Filling, Taking, Msg
<1> USE DEF At, Goto, LoadPos, Return, shared, shape, ring, Slot
<1>1. CASE SendStart(t) \/ SendStep(t)
  <2>1. CASE SendStart(t)
    BY <2>1, <1>a, <1>b DEF SendStart
  <2>2. CASE SendClosed(t)
    BY <2>2, <1>a, <1>b DEF SendClosed
  <2>3. CASE SendLoadEnq(t)
    BY <2>3, <1>a, <1>b DEF SendLoadEnq
  <2>4. CASE SendLoadSeq(t)
    BY <2>4, <1>a, <1>b DEF SendLoadSeq
  <2>5. CASE SendDecide(t)
    <3>1. \/ Return(t, "idle")
          \/ seen[t] = pos[t] /\ Goto(t, "s_again")
          \/ Goto(t, "s_enq")
      BY <2>5 DEF SendDecide, Mine
    <3>2. pc[t] = "s_deq" /\ UNCHANGED <<enq, deq, seq, tv, ledger>>
      BY <2>5 DEF SendDecide
    <3>3. QED
      BY <1>a, <1>b, <3>1, <3>2
  <2>6. CASE SendClosedAgain(t)
    BY <2>6, <1>a, <1>b DEF SendClosedAgain
  <2>7. CASE SendTicket(t)
    BY <2>7, <1>a, <1>b DEF SendTicket, TicketWon
  <2>8. CASE SendStore(t)
    BY <2>8
  <2>9. CASE SendPublish(t)
    BY <2>9
  <2> HIDE DEF Working, Looking, Held, Fills, Takes, Reads, Filling, Taking, Msg
  <2>10. QED
    BY <1>1, <2>1, <2>2, <2>3, <2>4, <2>5, <2>6, <2>7, <2>8, <2>9 DEF SendStep
<1>2. CASE MeetStep(t) \/ MeetTimeout(t) \/ MeetStop(t)
  <2>1. CASE MeetLoadDeq(t)
    BY <2>1, <1>a, <1>b, <1>c DEF MeetLoadDeq, Meeting
  <2>2. CASE MeetClosed(t)
    BY <2>2, <1>a, <1>b, <1>c DEF MeetClosed, Meeting
  <2>3. CASE MeetRetry(t)
    BY <2>3, <1>a, <1>b, <1>c DEF MeetRetry, Meeting
  <2>4. CASE CancelTicket(t)
    BY <2>4, <1>a, <1>b, <1>c DEF CancelTicket, Meeting
  <2>5. CASE CancelClear(t)
    BY <2>5, <1>a, <1>b, <1>c DEF CancelClear, Meeting
  <2>6. CASE CancelPublish(t)
    BY <2>6, <1>a, <1>b, <1>c DEF CancelPublish, Meeting
  <2>7. CASE MeetTimeout(t)
    BY <2>7, <1>a, <1>b, <1>c DEF MeetTimeout, Meeting
  <2>8. CASE MeetStop(t)
    BY <2>8, <1>a, <1>b, <1>c DEF MeetStop, Meeting
  <2> HIDE DEF Working, Looking, Held, Fills, Takes, Reads, Filling, Taking, Msg
  <2>9. QED
    BY <1>2, <2>1, <2>2, <2>3, <2>4, <2>5, <2>6, <2>7, <2>8 DEF MeetStep
<1>3. CASE RecvStart(t) \/ RecvStep(t)
  <2>1. CASE RecvStart(t)
    BY <2>1, <1>a, <1>b DEF RecvStart
  <2>2. CASE RecvLoadSeq(t)
    BY <2>2, <1>a, <1>b DEF RecvLoadSeq
  <2>3. CASE RecvLoadDeq(t)
    BY <2>3, <1>a, <1>b DEF RecvLoadDeq
  <2>4. CASE RecvTicket(t)
    BY <2>4, <1>a, <1>b DEF RecvTicket, Taken
  <2>5. CASE RecvLoad(t)
    BY <2>5, <1>a, <1>b DEF RecvLoad
  <2>6. CASE RecvClear(t)
    BY <2>6
  <2>7. CASE RecvPublish(t)
    BY <2>7
  <2>8. CASE RecvClosed(t)
    BY <2>8, <1>a, <1>b DEF RecvClosed
  <2>9. CASE RecvLoadEnq(t)
    BY <2>9, <1>a, <1>b DEF RecvLoadEnq
  <2> HIDE DEF Working, Looking, Held, Fills, Takes, Reads, Filling, Taking, Msg
  <2>10. QED
    BY <1>3, <2>1, <2>2, <2>3, <2>4, <2>5, <2>6, <2>7, <2>8, <2>9 DEF RecvStep
<1>4. CASE PeekStep(t)
  <2>1. CASE PeekStart(t)
    BY <2>1, <1>a, <1>b DEF PeekStart
  <2>2. CASE PeekLoadSeq(t)
    BY <2>2, <1>a, <1>b DEF PeekLoadSeq
  <2>3. CASE PeekLoadDeq(t)
    BY <2>3, <1>a, <1>b DEF PeekLoadDeq
  <2>4. CASE PeekLoad(t)
    BY <2>4, <1>a, <1>b, <1>d DEF PeekLoad, Lagging, PeekPcs
  <2>5. CASE PeekRecheck(t)
    BY <2>5, <1>a, <1>b, <1>d DEF PeekRecheck, Recheck, Lagging, PeekPcs
  <2>6. CASE PeekClosed(t)
    BY <2>6, <1>a, <1>b DEF PeekClosed
  <2>7. CASE PeekLoadEnq(t)
    BY <2>7, <1>a, <1>b DEF PeekLoadEnq
  <2> HIDE DEF Working, Looking, Held, Fills, Takes, Reads, Filling, Taking, Msg
  <2>8. QED
    BY <1>4, <2>1, <2>2, <2>3, <2>4, <2>5, <2>6, <2>7 DEF PeekStep
<1> HIDE DEF Working, Looking, Held, Fills, Takes, Reads, Filling, Taking, Msg
<1>5. QED
  BY <1>1, <1>2, <1>3, <1>4 DEF Step

(* What the proofs of those steps rely on.                                 *)
Around(t) ==
  /\ Shape /\ Flow /\ UNCHANGED shape /\ Alone(t)
  /\ cap \in Nat /\ cap >= 2 /\ cap' = cap
  /\ enq \in Nat /\ deq \in Nat /\ enq' \in Nat /\ deq' \in Nat
  /\ deq <= enq /\ enq <= deq + cap
  /\ pc \in [Threads -> Labels] /\ pos \in [Threads -> Nat]
  /\ val \in [Threads -> Messages \cup {Cleared}]
  /\ seq \in [Slots -> Nat] /\ tv \in [Slots -> Messages \cup {Cleared}]
  /\ \A p \in Nat : Slot(p) \in Slots /\ Slot(p + cap) = Slot(p)
  /\ \A p, q \in Nat : Slot(p) = Slot(q) => p # q + 1
  /\ \A q \in Nat : q < enq => Msg(q)' = Msg(q)
  /\ Full /\ Apart /\ \A u \in Threads : Held(u) /\ Positioned(u)

(* No step changes the message of a ticket.                                *)
LEMMA MsgKept ==
  ASSUME Shape, Budget, Sides, [Next]_vars, NEW q \in Nat, q < enq
  PROVE  Msg(q)' = Msg(q)
<1>1. q + 1 \in 1 .. Len(ledger) /\ ledger \in Seq(Entry)
  BY DEF Shape
<1>2. CASE Keeping
  BY <1>1, <1>2 DEF Keeping, Kept, Msg
<1>3. ASSUME NEW t \in Threads, TicketWon(t) PROVE Msg(q)' = Msg(q)
  <2>1. PICK e \in Entry : ledger' = Append(ledger, e)
    BY <1>3, TicketEntry
  <2>2. ledger'[q + 1] = ledger[q + 1]
    BY <1>1, <2>1
  <2>3. QED
    BY <2>2 DEF Msg
<1>4. QED
  BY <1>2, <1>3, NextLedger

(* All of it holds of any step of a thread.                                *)
LEMMA AroundStep ==
  ASSUME Shape, Contents, Budget, Sides, Flow, Ring, cap >= 2, Shape', UNCHANGED shape,
         NEW t \in Threads, Step(t), [Next]_vars
  PROVE  Around(t)
<1>1. Alone(t)
  BY StepAlone DEF Shape, Contents
<1>2. \A p \in Nat : Slot(p) \in Slots /\ Slot(p + cap) = Slot(p)
  BY SlotIn, SameLap DEF Shape, Slot
<1>3. \A p, q \in Nat : Slot(p) = Slot(q) => p # q + 1
  BY SlotApart
<1>4. \A q \in Nat : q < enq => Msg(q)' = Msg(q)
  BY MsgKept
<1>5. QED
  BY <1>1, <1>2, <1>3, <1>4 DEF Around, Shape, shape, Contents, Flow, Span, Ring

(* A step that only looks keeps the ring.                                  *)
LEMMA RingLooking ==
  ASSUME NEW t \in Threads, Around(t), Looking(t)
  PROVE  Ring'
<1>1. Full'
  BY DEF Around, Looking, Full, Slot
<1>2. Apart'
  BY DEF Around, Looking, Apart, Alone
<1>3. ASSUME NEW u \in Threads PROVE Held(u)'
  <2>1. CASE u = t
    BY <2>1 DEF Looking
  <2>2. CASE u # t
    BY <1>3, <2>2, HeldKept DEF Around, Looking, Alone, Msg, Held, Fills, Takes
  <2>3. QED
    BY <2>1, <2>2
<1>4. QED
  BY <1>1, <1>2, <1>3 DEF Ring

(* A ticket of a send: its slot was free, and stays so until the value is  *)
(* stored.                                                                 *)
LEMMA RingTicket ==
  ASSUME NEW t \in Threads, Around(t), TicketWon(t)
  PROVE  Ring'
<1>1. /\ pc[t] = "s_cas" /\ pc'[t] = "s_store" /\ pos'[t] = pos[t]
      /\ pos[t] = enq /\ enq' = enq + 1 /\ UNCHANGED <<deq, seq, tv>>
      /\ seq[Slot(enq)] = enq /\ Slot(enq) \in Slots
  BY DEF Around, TicketWon, SendTicket, At, Goto, Held, Reads
<1>2. ASSUME NEW u \in Threads \ {t} PROVE Held(u)'
  <2>1. /\ pos[u] \in Nat /\ Held(u)
        /\ pc'[u] = pc[u] /\ pos'[u] = pos[u] /\ seen'[u] = seen[u] /\ val'[u] = val[u]
        /\ pos[u] < enq => Msg(pos[u])' = Msg(pos[u])
    BY DEF Around, Alone
  <2>2. pc[u] \in Taking => enq' <= pos[u] + cap
    <3>1. SUFFICES ASSUME pc[u] \in Taking, pos[u] + cap <= enq PROVE FALSE
      BY <1>1, <2>1 DEF Around
    <3>2. enq = pos[u] + cap /\ seq[Slot(pos[u])] = pos[u] + 1
      BY <2>1, <3>1 DEF Around, Held, Takes
    <3>3. Slot(pos[u]) = Slot(enq)
      BY <2>1, <3>2 DEF Around
    <3>4. QED
      BY <1>1, <2>1, <3>2, <3>3 DEF Around
  <2>3. pc[u] \in Filling => deq' <= pos[u]
    BY <1>1, <2>1 DEF Held, Fills
  <2>4. QED
    BY <1>1, <2>1, <2>2, <2>3, HeldKept DEF Around
<1>3. Held(t)'
  <2>1. Slot(pos[t])' = Slot(enq)
    BY <1>1 DEF Around, Slot
  <2>2. QED
    BY <1>1, <2>1 DEF Around, Held, Fills, Takes, Reads, Taking
<1>4. Full'
  <2>1. ASSUME NEW q \in Nat, deq' <= q, q < enq', seq'[Slot(q)'] = q + 1
        PROVE  tv'[Slot(q)'] = Msg(q)'
    <3>1. Slot(q)' = Slot(q)
      BY DEF Around, Slot
    <3>2. q # enq
      BY <1>1, <2>1, <3>1 DEF Around
    <3>3. q < enq
      BY <1>1, <2>1, <3>2 DEF Around
    <3>4. QED
      BY <1>1, <2>1, <3>1, <3>3 DEF Around, Full
  <2>2. QED
    BY <2>1 DEF Full
<1>5. Apart'
  <2>1. ASSUME NEW u \in Threads \ {t}, pc[u] \in Filling PROVE pos[u] # pos[t]
    <3>1. pos[u] < enq /\ pos[u] \in Nat
      BY <2>1 DEF Around, Positioned, Filling, Owning
    <3>2. QED
      BY <1>1, <3>1 DEF Around
  <2>2. pc'[t] \notin Taking
    BY <1>1 DEF Taking
  <2>3. QED
    BY <1>1, <2>1, <2>2 DEF Around, Apart, Alone
<1>6. QED
  BY <1>2, <1>3, <1>4, <1>5 DEF Ring

(* The holder of a ticket stores: no other value is in its slot.           *)
LEMMA RingStore ==
  ASSUME NEW t \in Threads, Around(t), SendStore(t)
  PROVE  Ring'
<1>1. /\ pc[t] = "s_store" /\ pc'[t] = "s_pub" /\ pos'[t] = pos[t]
      /\ pos[t] \in Nat /\ deq <= pos[t] /\ pos[t] < enq
      /\ seq[Slot(pos[t])] = pos[t] /\ Slot(pos[t]) \in Slots
      /\ UNCHANGED <<enq, deq, seq>>
      /\ tv'[Slot(pos[t])] = Msg(pos[t]) /\ Msg(pos[t])' = Msg(pos[t])
      /\ \A x \in Slots \ {Slot(pos[t])} : tv'[x] = tv[x]
  BY DEF Around, SendStore, At, Goto, Held, Fills, Filling, Positioned, Owning, Msg
<1>2. \A q \in Nat : Slot(q) = Slot(pos[t]) => seq[Slot(q)] # q + 1
  BY <1>1 DEF Around
<1>3. ASSUME NEW u \in Threads \ {t} PROVE Held(u)'
  <2>1. /\ pos[u] \in Nat /\ Held(u) /\ Slot(pos[u]) \in Slots
        /\ pc'[u] = pc[u] /\ pos'[u] = pos[u] /\ seen'[u] = seen[u] /\ val'[u] = val[u]
        /\ pos[u] < enq => Msg(pos[u])' = Msg(pos[u])
        /\ pc[u] \in Filling /\ pc[t] \in Filling => pos[u] # pos[t]
        /\ pc[u] \in Taking /\ pc[t] \in Taking => pos[u] # pos[t]
    BY DEF Around, Alone, Apart
  <2>2. pc[u] \in Filling => deq' <= pos[u] /\ Slot(pos[u]) # Slot(pos[t])
    BY <1>1, <2>1 DEF Held, Fills, Filling
  <2>3. pc[u] \in Taking => enq' <= pos[u] + cap /\ Slot(pos[u]) # Slot(pos[t])
    BY <1>1, <1>2, <2>1 DEF Held, Takes
  <2>4. QED
    BY <1>1, <2>1, <2>2, <2>3, HeldKept DEF Around
<1>4. Held(t)'
  <2>1. Slot(pos[t])' = Slot(pos[t])
    BY <1>1 DEF Around, Slot
  <2>2. QED
    BY <1>1, <2>1 DEF Held, Fills, Takes, Reads, Filling, Taking
<1>5. Full'
  <2>1. ASSUME NEW q \in Nat, deq' <= q, q < enq', seq'[Slot(q)'] = q + 1
        PROVE  tv'[Slot(q)'] = Msg(q)'
    <3>1. Slot(q)' = Slot(q) /\ Slot(q) \in Slots /\ Msg(q)' = Msg(q)
      BY <1>1, <2>1 DEF Around, Slot
    <3>2. Slot(q) # Slot(pos[t])
      BY <1>1, <1>2, <2>1, <3>1
    <3>3. QED
      BY <1>1, <2>1, <3>1, <3>2 DEF Around, Full
  <2>2. QED
    BY <2>1 DEF Full
<1>6. Apart'
  BY <1>1 DEF Around, Apart, Alone, Filling, Taking
<1>7. QED
  BY <1>3, <1>4, <1>5, <1>6 DEF Ring

(* The receiver of a ticket clears: the value is its own.                  *)
LEMMA RingClear ==
  ASSUME NEW t \in Threads, Around(t), RecvClear(t)
  PROVE  Ring'
<1>1. /\ pc[t] = "r_clear" /\ pc'[t] = "r_pub" /\ pos'[t] = pos[t]
      /\ pos[t] \in Nat /\ pos[t] < deq /\ enq <= pos[t] + cap
      /\ seq[Slot(pos[t])] = pos[t] + 1 /\ Slot(pos[t]) \in Slots
      /\ UNCHANGED <<enq, deq, seq>>
      /\ val'[t] = Msg(pos[t]) /\ Msg(pos[t])' = Msg(pos[t])
      /\ \A x \in Slots \ {Slot(pos[t])} : tv'[x] = tv[x]
  BY DEF Around, RecvClear, At, Goto, Held, Takes, Taking, Positioned
<1>2. \A q \in Nat :
        Slot(q) = Slot(pos[t]) =>
          seq[Slot(q)] # q /\ (seq[Slot(q)] = q + 1 => q = pos[t])
  <2>1. ASSUME NEW q \in Nat, Slot(q) = Slot(pos[t])
        PROVE  seq[Slot(q)] # q /\ (seq[Slot(q)] = q + 1 => q = pos[t])
    <3>1. q # pos[t] + 1
      BY <1>1, <2>1 DEF Around
    <3>2. seq[Slot(q)] = pos[t] + 1
      BY <1>1, <2>1
    <3>3. QED
      BY <1>1, <2>1, <3>1, <3>2
  <2>2. QED
    BY <2>1
<1>3. ASSUME NEW u \in Threads \ {t} PROVE Held(u)'
  <2>1. /\ pos[u] \in Nat /\ Held(u) /\ Slot(pos[u]) \in Slots
        /\ pc'[u] = pc[u] /\ pos'[u] = pos[u] /\ seen'[u] = seen[u] /\ val'[u] = val[u]
        /\ pos[u] < enq => Msg(pos[u])' = Msg(pos[u])
        /\ pc[u] \in Filling /\ pc[t] \in Filling => pos[u] # pos[t]
        /\ pc[u] \in Taking /\ pc[t] \in Taking => pos[u] # pos[t]
    BY DEF Around, Alone, Apart
  <2>2. pc[u] \in Filling => deq' <= pos[u] /\ Slot(pos[u]) # Slot(pos[t])
    BY <1>1, <1>2, <2>1 DEF Held, Fills
  <2>3. pc[u] \in Taking => enq' <= pos[u] + cap /\ Slot(pos[u]) # Slot(pos[t])
    BY <1>1, <1>2, <2>1 DEF Held, Takes, Taking
  <2>4. pc[u] \in Filling \cup Taking => tv'[Slot(pos[u])] = tv[Slot(pos[u])]
    BY <1>1, <2>1, <2>2, <2>3
  <2>5. QED
    BY <1>1, <2>1, <2>2, <2>3, <2>4, HeldKept DEF Around
<1>4. Held(t)'
  <2>1. Slot(pos[t])' = Slot(pos[t]) /\ cap' = cap
    BY <1>1 DEF Around, Slot
  <2>2. QED
    BY <1>1, <2>1 DEF Held, Fills, Takes, Reads, Filling, Taking
<1>5. Full'
  <2>1. ASSUME NEW q \in Nat, deq' <= q, q < enq', seq'[Slot(q)'] = q + 1
        PROVE  tv'[Slot(q)'] = Msg(q)'
    <3>1. Slot(q)' = Slot(q) /\ Slot(q) \in Slots /\ Msg(q)' = Msg(q)
      BY <1>1, <2>1 DEF Around, Slot
    <3>2. Slot(q) # Slot(pos[t])
      BY <1>1, <1>2, <2>1, <3>1 DEF Around
    <3>3. QED
      BY <1>1, <2>1, <3>1, <3>2 DEF Around, Full
  <2>2. QED
    BY <2>1 DEF Full
<1>6. Apart'
  BY <1>1 DEF Around, Apart, Alone, Filling, Taking
<1>7. QED
  BY <1>3, <1>4, <1>5, <1>6 DEF Ring

(* The sender hands the slot on: it is full now.                           *)
LEMMA RingPublish ==
  ASSUME NEW t \in Threads, Around(t), SendPublish(t), ~rendezvous
  PROVE  Ring'
<1>1. /\ pc[t] = "s_pub" /\ pc'[t] = "idle" /\ pos'[t] = 0
      /\ pos[t] \in Nat /\ deq <= pos[t] /\ pos[t] < enq
      /\ seq[Slot(pos[t])] = pos[t] /\ Slot(pos[t]) \in Slots
      /\ UNCHANGED <<enq, deq, tv>> /\ tv[Slot(pos[t])] = Msg(pos[t])
      /\ seq'[Slot(pos[t])] = pos[t] + 1
      /\ \A x \in Slots \ {Slot(pos[t])} : seq'[x] = seq[x]
  BY DEF Around, SendPublish, At, Return, Held, Fills, Filling, Positioned, Owning
<1>2. \A q \in Nat :
        Slot(q) = Slot(pos[t]) =>
          seq[Slot(q)] # q + 1 /\ (seq'[Slot(q)] = q + 1 => q = pos[t])
  BY <1>1 DEF Around
<1>3. ASSUME NEW u \in Threads \ {t} PROVE Held(u)'
  <2>1. /\ pos[u] \in Nat /\ Held(u) /\ Slot(pos[u]) \in Slots
        /\ pc'[u] = pc[u] /\ pos'[u] = pos[u] /\ seen'[u] = seen[u] /\ val'[u] = val[u]
        /\ pos[u] < enq => Msg(pos[u])' = Msg(pos[u])
        /\ pc[u] \in Filling /\ pc[t] \in Filling => pos[u] # pos[t]
        /\ pc[u] \in Taking /\ pc[t] \in Taking => pos[u] # pos[t]
    BY DEF Around, Alone, Apart
  <2>2. pc[u] \in Filling => deq' <= pos[u] /\ Slot(pos[u]) # Slot(pos[t])
    BY <1>1, <2>1 DEF Held, Fills, Filling
  <2>3. pc[u] \in Taking => enq' <= pos[u] + cap /\ Slot(pos[u]) # Slot(pos[t])
    BY <1>1, <1>2, <2>1 DEF Held, Takes
  <2>4. \/ seq'[Slot(pos[u])] = seq[Slot(pos[u])]
        \/ /\ seq[Slot(pos[u])] = pos[u] => enq' > pos[u]
           /\ seq[Slot(pos[u])] = pos[u] + 1 => deq' > pos[u]
    BY <1>1, <1>2, <2>1
  <2>5. QED
    BY <1>1, <2>1, <2>2, <2>3, <2>4, HeldKept DEF Around
<1>4. Held(t)'
  BY <1>1 DEF Held, Fills, Takes, Reads, Filling, Taking
<1>5. Full'
  <2>1. ASSUME NEW q \in Nat, deq' <= q, q < enq', seq'[Slot(q)'] = q + 1
        PROVE  tv'[Slot(q)'] = Msg(q)'
    <3>1. Slot(q)' = Slot(q) /\ Slot(q) \in Slots /\ Msg(q)' = Msg(q)
      BY <1>1, <2>1 DEF Around, Slot
    <3>2. CASE Slot(q) = Slot(pos[t])
      <4>1. q = pos[t]
        BY <1>2, <2>1, <3>1, <3>2
      <4>2. QED
        BY <1>1, <3>1, <4>1
    <3>3. CASE Slot(q) # Slot(pos[t])
      BY <1>1, <2>1, <3>1, <3>3 DEF Around, Full
    <3>4. QED
      BY <3>2, <3>3
  <2>2. QED
    BY <2>1 DEF Full
<1>6. Apart'
  BY <1>1 DEF Around, Apart, Alone, Filling, Taking
<1>7. QED
  BY <1>3, <1>4, <1>5, <1>6 DEF Ring

(* A ticket of a receive: its slot was full, and holds the message.        *)
LEMMA RingTaken ==
  ASSUME NEW t \in Threads, Around(t), Taken(t)
  PROVE  Ring'
<1>1. /\ pc[t] = "r_cas" /\ pc'[t] = "r_load" /\ pos'[t] = pos[t]
      /\ pos[t] \in Nat /\ deq = pos[t] /\ deq' = deq + 1 /\ pos[t] < enq
      /\ seq[Slot(pos[t])] = pos[t] + 1 /\ Slot(pos[t]) \in Slots
      /\ UNCHANGED <<enq, seq, tv>>
      /\ tv[Slot(pos[t])] = Msg(pos[t]) /\ Msg(pos[t])' = Msg(pos[t])
  <2>1. /\ pc[t] = "r_cas" /\ pc'[t] = "r_load" /\ pos'[t] = pos[t]
        /\ pos[t] \in Nat /\ deq = pos[t] /\ deq' = deq + 1
        /\ Slot(pos[t]) \in Slots /\ UNCHANGED <<enq, seq, tv>>
    BY DEF Around, Taken, RecvTicket, At, Goto
  <2>2. pos[t] < enq /\ seq[Slot(pos[t])] = pos[t] + 1
    BY <2>1 DEF Around, Positioned, Held, Reads
  <2>3. QED
    BY <2>1, <2>2 DEF Around, Full
<1>2. \A q \in Nat : Slot(q) = Slot(pos[t]) => seq[Slot(q)] # q
  BY <1>1 DEF Around
<1>3. ASSUME NEW u \in Threads \ {t} PROVE Held(u)'
  <2>1. /\ pos[u] \in Nat /\ Held(u) /\ Slot(pos[u]) \in Slots
        /\ pc'[u] = pc[u] /\ pos'[u] = pos[u] /\ seen'[u] = seen[u] /\ val'[u] = val[u]
        /\ pos[u] < enq => Msg(pos[u])' = Msg(pos[u])
        /\ pc[u] \in Filling /\ pc[t] \in Filling => pos[u] # pos[t]
        /\ pc[u] \in Taking /\ pc[t] \in Taking => pos[u] # pos[t]
    BY DEF Around, Alone, Apart
  <2>2. pc[u] \in Filling => deq' <= pos[u]
    <3>1. pc[u] \in Filling => deq <= pos[u] /\ pos[u] # pos[t]
      BY <1>1, <1>2, <2>1 DEF Held, Fills
    <3>2. QED
      BY <1>1, <2>1, <3>1 DEF Around
  <2>3. pc[u] \in Taking => enq' <= pos[u] + cap
    BY <1>1, <2>1 DEF Held, Takes
  <2>4. QED
    BY <1>1, <2>1, <2>2, <2>3, HeldKept DEF Around
<1>4. Held(t)'
  <2>1. Slot(pos[t])' = Slot(pos[t]) /\ enq <= pos[t] + cap
    BY <1>1 DEF Around, Slot
  <2>2. QED
    BY <1>1, <2>1 DEF Around, Held, Fills, Takes, Reads, Filling
<1>5. Full'
  <2>1. ASSUME NEW q \in Nat, deq' <= q, q < enq', seq'[Slot(q)'] = q + 1
        PROVE  tv'[Slot(q)'] = Msg(q)'
    <3>1. Slot(q)' = Slot(q) /\ Slot(q) \in Slots /\ Msg(q)' = Msg(q)
      BY <1>1, <2>1 DEF Around, Slot
    <3>2. deq <= q /\ q < enq /\ seq[Slot(q)] = q + 1
      BY <1>1, <2>1, <3>1 DEF Around
    <3>3. QED
      BY <1>1, <3>1, <3>2 DEF Around, Full
  <2>2. QED
    BY <2>1 DEF Full
<1>6. Apart'
  <2>1. ASSUME NEW u \in Threads \ {t}, pc[u] \in Taking PROVE pos[u] # pos[t]
    <3>1. pos[u] < deq /\ pos[u] \in Nat
      BY <2>1 DEF Around, Positioned
    <3>2. QED
      BY <1>1, <3>1 DEF Around
  <2>2. pc'[t] \notin Filling
    BY <1>1 DEF Filling
  <2>3. QED
    BY <1>1, <2>1, <2>2 DEF Around, Apart, Alone
<1>7. QED
  BY <1>3, <1>4, <1>5, <1>6 DEF Ring

(* The receiver hands the slot to the next lap.                            *)
LEMMA RingFreed ==
  ASSUME NEW t \in Threads, Around(t), RecvPublish(t)
  PROVE  Ring'
<1>1. /\ pc[t] = "r_pub" /\ pc'[t] = "idle" /\ pos'[t] = 0
      /\ pos[t] \in Nat /\ pos[t] < deq /\ enq <= pos[t] + cap
      /\ seq[Slot(pos[t])] = pos[t] + 1 /\ Slot(pos[t]) \in Slots
      /\ UNCHANGED <<enq, deq, tv>>
      /\ seq'[Slot(pos[t])] = pos[t] + cap
      /\ \A x \in Slots \ {Slot(pos[t])} : seq'[x] = seq[x]
  BY DEF Around, RecvPublish, At, Return, Held, Takes, Taking, Positioned
<1>2. \A q \in Nat :
        Slot(q) = Slot(pos[t]) =>
          /\ seq[Slot(q)] # q /\ (seq[Slot(q)] = q + 1 => q = pos[t])
          /\ seq'[Slot(q)] # q + 1
  <2>1. ASSUME NEW q \in Nat, Slot(q) = Slot(pos[t])
        PROVE  seq[Slot(q)] # q /\ (seq[Slot(q)] = q + 1 => q = pos[t])
    <3>1. q # pos[t] + 1
      BY <1>1, <2>1 DEF Around
    <3>2. seq[Slot(q)] = pos[t] + 1
      BY <1>1, <2>1
    <3>3. QED
      BY <1>1, <2>1, <3>1, <3>2
  <2>2. ASSUME NEW q \in Nat, Slot(q) = Slot(pos[t]) PROVE pos[t] + cap # q + 1
    <3>1. Slot(pos[t] + cap) = Slot(q) /\ pos[t] + cap \in Nat
      BY <1>1, <2>2 DEF Around
    <3>2. QED
      BY <2>2, <3>1 DEF Around
  <2>3. QED
    BY <1>1, <2>1, <2>2
<1>3. ASSUME NEW u \in Threads \ {t} PROVE Held(u)'
  <2>1. /\ pos[u] \in Nat /\ Held(u) /\ Slot(pos[u]) \in Slots
        /\ pc'[u] = pc[u] /\ pos'[u] = pos[u] /\ seen'[u] = seen[u] /\ val'[u] = val[u]
        /\ pos[u] < enq => Msg(pos[u])' = Msg(pos[u])
        /\ pc[u] \in Filling /\ pc[t] \in Filling => pos[u] # pos[t]
        /\ pc[u] \in Taking /\ pc[t] \in Taking => pos[u] # pos[t]
    BY DEF Around, Alone, Apart
  <2>2. pc[u] \in Filling => deq' <= pos[u] /\ Slot(pos[u]) # Slot(pos[t])
    BY <1>1, <1>2, <2>1 DEF Held, Fills
  <2>3. pc[u] \in Taking => enq' <= pos[u] + cap /\ Slot(pos[u]) # Slot(pos[t])
    BY <1>1, <1>2, <2>1 DEF Held, Takes, Taking
  <2>4. \/ seq'[Slot(pos[u])] = seq[Slot(pos[u])]
        \/ /\ seq[Slot(pos[u])] = pos[u] => enq' > pos[u]
           /\ seq[Slot(pos[u])] = pos[u] + 1 => deq' > pos[u]
    BY <1>1, <1>2, <2>1
  <2>5. QED
    BY <1>1, <2>1, <2>2, <2>3, <2>4, HeldKept DEF Around
<1>4. Held(t)'
  BY <1>1 DEF Held, Fills, Takes, Reads, Filling, Taking
<1>5. Full'
  <2>1. ASSUME NEW q \in Nat, deq' <= q, q < enq', seq'[Slot(q)'] = q + 1
        PROVE  tv'[Slot(q)'] = Msg(q)'
    <3>1. Slot(q)' = Slot(q) /\ Slot(q) \in Slots /\ Msg(q)' = Msg(q)
      BY <1>1, <2>1 DEF Around, Slot
    <3>2. Slot(q) # Slot(pos[t])
      BY <1>2, <2>1, <3>1
    <3>3. QED
      BY <1>1, <2>1, <3>1, <3>2 DEF Around, Full
  <2>2. QED
    BY <2>1 DEF Full
<1>6. Apart'
  BY <1>1 DEF Around, Apart, Alone, Filling, Taking
<1>7. QED
  BY <1>3, <1>4, <1>5, <1>6 DEF Ring

(* Every step keeps the ring.                                              *)
LEMMA NextRing ==
  ASSUME IInv, IInv', cap >= 2, Ring, [Next]_vars
  PROVE  Ring'
<1>a. UNCHANGED shape /\ cap \in Nat
  BY NextShape DEF IInv, Shape
<1>1. CASE Close \/ UNCHANGED vars
  <2>1. UNCHANGED <<cap, enq, deq, seq, tv, pc, pos, seen, val, ledger>>
    BY <1>1 DEF Close, vars, shared, ring, local, shape
  <2>2. QED
    BY <2>1 DEF Ring, Full, Apart, Held, Fills, Takes, Reads, Slot, Msg
<1>2. ASSUME NEW t \in Threads, Step(t) PROVE Ring'
  <2>1. Around(t)
    BY <1>a, <1>2, AroundStep DEF IInv
  <2>2. ~rendezvous
    BY <1>a DEF IInv, Shape
  <2>3. Working(t) \/ Looking(t)
    BY <1>a, <1>2, <2>2, StepLooking DEF IInv, Ring, Contents
  <2>4. QED
    BY <2>1, <2>2, <2>3, RingLooking, RingTicket, RingStore, RingPublish, RingTaken,
       RingClear, RingFreed DEF Working
<1>3. QED
  BY <1>1, <1>2, Stepping

(* With one slot nothing is claimed.                                       *)
RingInv == cap >= 2 => Ring

(* Nobody holds a slot at the start.                                       *)
LEMMA InitRing ==
  ASSUME Init
  PROVE  RingInv
<1>1. enq = 0 /\ deq = 0 /\ \A t \in Threads : pc[t] = "idle"
  BY DEF Init
<1>2. QED
  BY <1>1 DEF RingInv, Ring, Full, Apart, Held, Fills, Takes, Reads, Filling, Taking

(* The sequence numbers guard the slots of every ring of two or more.      *)
THEOREM ChannelRing == Spec => []RingInv
<1>1. IInv /\ IInv' /\ RingInv /\ [Next]_vars => RingInv'
  <2> SUFFICES ASSUME IInv, IInv', RingInv, [Next]_vars PROVE RingInv'
    OBVIOUS
  <2>1. cap' = cap
    BY NextShape DEF IInv, shape
  <2>2. QED
    BY <2>1, NextRing DEF RingInv
<1>2. QED
  BY <1>1, InitRing, ChannelInvariant, PTL DEF Spec

(* On such a ring no two threads work on one slot at a time.               *)
THEOREM ChannelSlotExclusive == Spec => [](cap >= 2 => SlotExclusive)
<1>1. IInv /\ RingInv => (cap >= 2 => SlotExclusive)
  <2> SUFFICES ASSUME IInv, Ring, cap >= 2, NEW t \in Threads, NEW u \in Threads,
                      t # u, pc[t] \in Holding, pc[u] \in Holding,
                      Slot(pos[t]) = Slot(pos[u])
               PROVE  FALSE
    BY DEF RingInv, SlotExclusive
  <2>1. pos[t] \in Nat /\ pos[u] \in Nat /\ ~rendezvous
    BY DEF IInv, Shape
  <2>2. pos[t] # pos[u] + 1 /\ pos[u] # pos[t] + 1
    BY <2>1, SlotApart DEF IInv
  <2>3. pc[t] \in Filling \cup Taking /\ pc[u] \in Filling \cup Taking
    BY <2>1 DEF IInv, Flow, Positioned, Meeting, Holding, Filling, Taking
  <2>4. /\ Fills(t) /\ Fills(u) /\ Takes(t) /\ Takes(u)
        /\ (pc[t] \in Filling /\ pc[u] \in Filling) => pos[t] # pos[u]
        /\ (pc[t] \in Taking /\ pc[u] \in Taking) => pos[t] # pos[u]
    BY DEF Ring, Held, Apart
  <2>5. QED
    BY <2>1, <2>2, <2>3, <2>4 DEF Fills, Takes
<1>2. QED
  BY <1>1, ChannelInvariant, ChannelRing, PTL

(* On such a ring a receiver loads the message of its ticket, and a peek   *)
(* returns the message of its position.                                    *)
THEOREM ChannelToldTrue == Spec => [](cap >= 2 => ToldTrue)
<1>1. IInv /\ RingInv => (cap >= 2 => ToldTrue)
  <2> SUFFICES ASSUME IInv, Ring PROVE ToldTrue
    BY DEF RingInv
  <2>1. TakenAsSent
    BY DEF Ring, Held, Takes, Reads, Taking, Msg, TakenAsSent
  <2>2. QED
    BY <2>1 DEF IInv, Truth, ToldTrue
<1>2. QED
  BY <1>1, ChannelInvariant, ChannelRing, PTL

-----------------------------------------------------------------------------
(* The ring as the queue of ChannelQueue: the open tickets, oldest first,  *)
(* and for each receiver the message of the ticket it holds.               *)
QueueOf == [i \in 1 .. (enq - deq) |-> ledger[deq + i].msg]

(* The message in the slot until it is loaded, then the message loaded.    *)
HandOf ==
  [r \in Receivers |->
    IF pc[r] = "r_load" THEN tv[Slot(pos[r])]
    ELSE IF pc[r] \in {"r_clear", "r_pub"} THEN val[r]
    ELSE Cleared]

(* The queue is a sequence of messages, no longer than the capacity.       *)
QueueRight ==
  /\ QueueOf \in Seq(Messages) /\ Len(QueueOf) = enq - deq
  /\ enq - deq \in Nat /\ enq - deq <= cap
  /\ \A i \in 1 .. (enq - deq) : QueueOf[i] = ledger[deq + i].msg

(* What a receiver is handed is the message of its ticket.                 *)
HandRight ==
  HandOf = [r \in Receivers |-> IF pc[r] \in Taking THEN Msg(pos[r]) ELSE Cleared]

(* The open tickets make such a queue.                                     *)
LEMMA QueueShape == Shape /\ Span => QueueRight
<1> SUFFICES ASSUME Shape, Span PROVE QueueRight
  OBVIOUS
<1> DEFINE n == enq - deq
<1>1. n \in Nat /\ n <= cap
  BY DEF Shape, Span
<1>2. \A i \in 1 .. n : deq + i \in 1 .. Len(ledger)
  BY <1>1 DEF Shape, Span
<1>3. \A i \in 1 .. n : ledger[deq + i] \in Entry
  BY <1>2, ElementOfSeq DEF Shape
<1>4. \A i \in 1 .. n : ledger[deq + i].msg \in Messages
  BY <1>3 DEF Entry
<1>5. /\ QueueOf \in [1 .. n -> Messages]
      /\ \A i \in 1 .. n : QueueOf[i] = ledger[deq + i].msg
  BY <1>4 DEF QueueOf
<1>6. QueueOf \in Seq(Messages)
  BY <1>1, <1>5, SeqDef
<1>7. Len(QueueOf) \in Nat /\ 1 .. Len(QueueOf) = 1 .. n
  BY <1>5, <1>6, LenProperties
<1>8. Len(QueueOf) = n
  BY <1>1, <1>7, SameInterval
<1>9. QED
  BY <1>1, <1>5, <1>6, <1>8 DEF QueueRight

(* The guarded slots make such hands.                                      *)
LEMMA HandShape == Ring => HandRight
<1> SUFFICES ASSUME Ring PROVE HandRight
  OBVIOUS
<1>1. ASSUME NEW r \in Receivers
      PROVE  HandOf[r] = IF pc[r] \in Taking THEN Msg(pos[r]) ELSE Cleared
  BY <1>1 DEF HandOf, Ring, Held, Takes, Taking, Threads
<1>2. QED
  BY <1>1 DEF HandOf, HandRight

(* Both hold after a step as before it.                                    *)
LEMMA ShapesAfter ==
  /\ Shape' /\ Span' => QueueRight'
  /\ Ring' => HandRight'
BY QueueShape, HandShape, PTL

(* A step that leaves the tickets and their holders alone.                 *)
Unmoved ==
  /\ UNCHANGED <<enq, deq>>
  /\ \A q \in Nat : q < enq => Msg(q)' = Msg(q)
  /\ \A r \in Receivers :
       /\ pc'[r] \in Taking <=> pc[r] \in Taking
       /\ pc'[r] \in Taking => pos'[r] = pos[r]

(* Such a step is none of the queue.                                       *)
LEMMA UnmovedStutters ==
  ASSUME Shape, Shape', Span, Span', Flow, Ring, Ring', Unmoved
  PROVE  UNCHANGED <<QueueOf, HandOf>>
<1>a. enq \in Nat /\ deq \in Nat /\ enq' = enq /\ deq' = deq /\ deq <= enq
  BY DEF Shape, Span, Unmoved
<1>1. QueueOf' = QueueOf
  <2>1. ASSUME NEW i \in 1 .. (enq - deq)
        PROVE  ledger'[deq + i].msg = ledger[deq + i].msg
    <3>1. PICK q \in Nat : q < enq /\ q + 1 = deq + i
      <4>1. deq + i - 1 \in Nat /\ deq + i - 1 < enq /\ (deq + i - 1) + 1 = deq + i
        BY <1>a, <2>1
      <4>2. QED
        BY <4>1
    <3>2. Msg(q)' = Msg(q)
      BY <3>1 DEF Unmoved
    <3>3. QED
      BY <3>1, <3>2 DEF Msg
  <2>2. QED
    BY <1>a, <2>1 DEF QueueOf
<1>2. HandOf' = HandOf
  <2>1. ASSUME NEW r \in Receivers
        PROVE  (IF pc'[r] \in Taking THEN Msg(pos[r])' ELSE Cleared)
                 = IF pc[r] \in Taking THEN Msg(pos[r]) ELSE Cleared
    <3>1. CASE pc[r] \in Taking
      <4>1. pos[r] \in Nat /\ pos[r] < enq /\ pos'[r] = pos[r] /\ pc'[r] \in Taking
        BY <1>a, <2>1, <3>1 DEF Shape, Flow, Positioned, Unmoved, Threads
      <4>2. Msg(pos[r])' = Msg(pos[r])
        BY <4>1 DEF Unmoved, Msg
      <4>3. QED
        BY <3>1, <4>1, <4>2
    <3>2. CASE pc[r] \notin Taking
      BY <2>1, <3>2 DEF Unmoved
    <3>3. QED
      BY <3>1, <3>2
  <2>2. HandRight /\ HandRight'
    BY HandShape, ShapesAfter
  <2>3. QED
    BY <2>1, <2>2 DEF HandRight
<1>3. QED
  BY <1>1, <1>2

(* A ticket of a send puts its message in.                                 *)
LEMMA TicketPuts ==
  ASSUME IInv, Ring, Shape', Span', Ring', NEW t \in Threads, TicketWon(t),
         Alone(t), UNCHANGED shape
  PROVE  \E m \in Messages : Queue!Put(m)
<1>1. PICK e \in Entry : ledger' = Append(ledger, e)
  BY TicketEntry DEF IInv
<1>2. /\ enq \in Nat /\ deq \in Nat /\ enq' = enq + 1 /\ deq' = deq
      /\ enq - deq < cap /\ enq = Len(ledger) /\ ledger \in Seq(Entry) /\ deq <= enq
      /\ pc[t] = "s_cas" /\ pc'[t] = "s_store" /\ cap \in Nat
  BY DEF IInv, Shape, Flow, Span, Positioned, TicketWon, SendTicket, At, Goto
<1>3. QueueRight /\ QueueRight'
  BY QueueShape, ShapesAfter DEF IInv, Flow
<1>4. e.msg \in Messages
  BY DEF Entry
<1>5. QueueOf' = Append(QueueOf, e.msg)
  <2>1. /\ Append(QueueOf, e.msg) \in Seq(Messages)
        /\ Len(Append(QueueOf, e.msg)) = Len(QueueOf) + 1
        /\ \A i \in 1 .. Len(QueueOf) : Append(QueueOf, e.msg)[i] = QueueOf[i]
        /\ Append(QueueOf, e.msg)[Len(QueueOf) + 1] = e.msg
    BY <1>3, <1>4, AppendProperties DEF QueueRight
  <2>2. QueueOf' \in Seq(Messages) /\ Len(QueueOf') = Len(QueueOf) + 1
    BY <1>2, <1>3 DEF QueueRight
  <2>3. ASSUME NEW i \in 1 .. Len(QueueOf')
        PROVE  QueueOf'[i] = Append(QueueOf, e.msg)[i]
    <3>1. i \in Nat /\ QueueOf'[i] = ledger'[deq + i].msg /\ Len(QueueOf) = enq - deq
      <4>1. Len(QueueOf) = enq - deq /\ Len(QueueOf') = enq' - deq'
        BY <1>3 DEF QueueRight
      <4>2. i \in 1 .. (enq' - deq') /\ i \in Nat
        BY <1>2, <2>3, <4>1
      <4>3. QueueOf'[i] = ledger'[deq' + i].msg
        BY <1>3, <4>2 DEF QueueRight
      <4>4. QED
        BY <1>2, <4>1, <4>2, <4>3
    <3>2. CASE i = Len(QueueOf) + 1
      <4>1. deq + i = Len(ledger) + 1
        BY <1>2, <3>1, <3>2
      <4>2. ledger'[Len(ledger) + 1] = e
        BY <1>1, <1>2
      <4>3. QED
        BY <2>1, <3>1, <3>2, <4>1, <4>2
    <3>3. CASE i \in 1 .. Len(QueueOf)
      <4>1. deq + i \in 1 .. Len(ledger)
        BY <1>2, <3>1, <3>3
      <4>2. ledger'[deq + i] = ledger[deq + i]
        BY <1>1, <1>2, <4>1
      <4>3. QueueOf[i] = ledger[deq + i].msg
        BY <1>3, <3>1, <3>3 DEF QueueRight
      <4>4. QED
        BY <2>1, <3>1, <3>3, <4>2, <4>3
    <3>4. Len(QueueOf) \in Nat
      BY <1>3 DEF QueueRight
    <3>5. i = Len(QueueOf) + 1 \/ i \in 1 .. Len(QueueOf)
      BY <2>2, <2>3, <3>4
    <3>6. QED
      BY <3>2, <3>3, <3>5
  <2>4. QED
    BY <2>1, <2>2, <2>3, SeqEqual
<1>6. HandOf' = HandOf
  <2>1. ASSUME NEW r \in Receivers
        PROVE  HandOf'[r] = HandOf[r]
    <3>1. r \in Threads /\ UNCHANGED <<cap, tv>>
      BY <2>1 DEF Threads, TicketWon, SendTicket, shape
    <3>2. CASE r = t
      BY <1>2, <2>1, <3>2 DEF HandOf
    <3>3. CASE r # t
      BY <2>1, <3>1, <3>3 DEF HandOf, Alone, Slot
    <3>4. QED
      BY <3>2, <3>3
  <2>2. QED
    BY <2>1 DEF HandOf
<1>7. Len(QueueOf) < cap
  BY <1>2, <1>3 DEF QueueRight
<1>8. Queue!Put(e.msg)
  BY <1>5, <1>6, <1>7 DEF Queue!Put, Queue!kind, QueueOf, HandOf, shape
<1>9. QED
  BY <1>4, <1>8

(* A ticket of a receive takes the oldest message out.                     *)
LEMMA TakenTakes ==
  ASSUME IInv, Ring, Shape', Span', Ring', NEW t \in Threads, Taken(t),
         Alone(t), UNCHANGED shape
  PROVE  t \in Receivers /\ Queue!Take(t)
<1>1. /\ enq \in Nat /\ deq \in Nat /\ deq' = deq + 1
      /\ UNCHANGED <<cap, enq, tv>> /\ pos[t] = deq /\ pos'[t] = pos[t]
      /\ pc[t] = "r_cas" /\ pc'[t] = "r_load" /\ deq < enq
      /\ enq = Len(ledger) /\ ledger \in Seq(Entry)
      /\ pc' \in [Threads -> Labels]
  BY DEF IInv, Shape, Flow, Positioned, Taken, RecvTicket, At, Goto, shape
<1>2. t \in Receivers
  BY <1>1 DEF IInv, Sides, RecvPcs
<1>3. QueueRight /\ QueueRight' /\ HandRight /\ HandRight'
  BY QueueShape, HandShape, ShapesAfter DEF IInv, Flow
<1>4. /\ Len(ledger') = Len(ledger)
      /\ \A i \in 1 .. Len(ledger) : ledger'[i].msg = ledger[i].msg
  <2>1. ledger' = [ledger EXCEPT ![pos[t] + 1].fate = "taken"] /\ pos[t] + 1 \in Nat
    BY <1>1 DEF Taken, RecvTicket
  <2>2. QED
    BY <1>1, <2>1, EntryFate
<1>5. QueueOf # <<>> /\ Head(QueueOf) = Msg(deq)
  <2>1. Len(QueueOf) > 0 /\ 1 \in 1 .. (enq - deq)
    BY <1>1, <1>3 DEF QueueRight
  <2>2. QueueOf[1] = ledger[deq + 1].msg /\ QueueOf # <<>>
    BY <1>3, <2>1, EmptySeq DEF QueueRight
  <2>3. QED
    BY <1>3, <2>2, HeadTailProperties DEF QueueRight, Msg
<1>6. QueueOf' = Tail(QueueOf)
  <2>1. /\ Tail(QueueOf) \in Seq(Messages) /\ Len(Tail(QueueOf)) = Len(QueueOf) - 1
        /\ \A i \in 1 .. Len(Tail(QueueOf)) : Tail(QueueOf)[i] = QueueOf[i + 1]
    BY <1>3, <1>5, HeadTailProperties DEF QueueRight
  <2>2. /\ QueueOf' \in Seq(Messages) /\ Len(QueueOf') = enq - deq'
        /\ Len(QueueOf) = enq - deq /\ enq - deq' = (enq - deq) - 1
    BY <1>1, <1>3 DEF QueueRight
  <2>3. ASSUME NEW i \in 1 .. Len(QueueOf') PROVE QueueOf'[i] = Tail(QueueOf)[i]
    <3>1. i \in 1 .. (enq' - deq') /\ i + 1 \in 1 .. (enq - deq)
      BY <1>1, <2>2, <2>3
    <3>2. QueueOf'[i] = ledger'[deq' + i].msg
      BY <1>3, <3>1 DEF QueueRight
    <3>3. QueueOf[i + 1] = ledger[deq + (i + 1)].msg
      BY <1>3, <3>1 DEF QueueRight
    <3>4. deq' + i = deq + (i + 1) /\ deq + (i + 1) \in 1 .. Len(ledger)
      BY <1>1, <3>1
    <3>5. Tail(QueueOf)[i] = QueueOf[i + 1]
      BY <2>1, <2>2, <2>3
    <3>6. QED
      BY <1>4, <3>2, <3>3, <3>4, <3>5
  <2>4. QED
    BY <2>1, <2>2, <2>3, SeqEqual
<1>7. HandOf[t] = Cleared
  BY <1>1, <1>2 DEF HandOf
<1>8. HandOf' = [HandOf EXCEPT ![t] = Msg(deq)]
  <2>1. HandOf'[t] = Msg(deq)
    <3>1. HandOf'[t] = Msg(pos[t])'
      BY <1>1, <1>2, <1>3 DEF HandRight, Taking
    <3>2. QED
      BY <1>1, <1>4, <3>1 DEF Msg
  <2>2. ASSUME NEW r \in Receivers \ {t} PROVE HandOf'[r] = HandOf[r]
    BY <1>1, <2>2 DEF HandOf, Alone, Slot, Threads
  <2>3. QED
    BY <2>1, <2>2 DEF HandOf
<1>9. QED
  BY <1>2, <1>5, <1>6, <1>7, <1>8 DEF Queue!Take, QueueOf, HandOf

(* The release of a slot ends the receive: the message has been handed     *)
(* over.                                                                   *)
LEMMA FreedHands ==
  ASSUME IInv, Ring, Shape', Span', Ring', NEW t \in Threads, RecvPublish(t),
         Alone(t), UNCHANGED shape
  PROVE  t \in Receivers /\ Queue!Hand(t)
<1>1. /\ UNCHANGED <<enq, deq, tv, cap, ledger>>
      /\ pc[t] = "r_pub" /\ pc'[t] = "idle" /\ pos[t] \in Nat /\ pos[t] < enq
  BY DEF IInv, Shape, Flow, Span, Positioned, Taking, RecvPublish, At, Return, shape
<1>2. t \in Receivers
  BY <1>1 DEF IInv, Sides, RecvPcs
<1>3. QueueOf' = QueueOf
  BY <1>1 DEF QueueOf
<1>4. HandOf[t] # Cleared
  <2>1. HandOf[t] = Msg(pos[t])
    BY <1>1, <1>2, HandShape DEF HandRight, Taking
  <2>2. pos[t] + 1 \in 1 .. Len(ledger) /\ ledger \in Seq(Entry)
    BY <1>1 DEF IInv, Shape
  <2>3. Msg(pos[t]) \in Messages
    <3>1. ledger[pos[t] + 1] \in Entry
      BY <2>2, ElementOfSeq
    <3>2. QED
      BY <3>1 DEF Entry, Msg
  <2>4. ASSUME NEW m \in Messages PROVE m # <<>>
    <3>1. PICK a \in Senders, b \in 1 .. MaxTickets : m = <<a, b>>
      BY DEF Messages
    <3>2. Len(<<a, b>>) = 2 /\ Len(<<>>) = 0
      OBVIOUS
    <3>3. QED
      BY <3>1, <3>2
  <2>5. QED
    BY <2>1, <2>3, <2>4 DEF Cleared
<1>5. HandOf' = [HandOf EXCEPT ![t] = Cleared]
  <2>1. HandOf'[t] = Cleared
    BY <1>1, <1>2 DEF HandOf
  <2>2. ASSUME NEW r \in Receivers \ {t} PROVE HandOf'[r] = HandOf[r]
    BY <1>1, <2>2 DEF HandOf, Alone, Slot, Threads
  <2>3. QED
    BY <2>1, <2>2 DEF HandOf
<1>6. QED
  BY <1>1, <1>2, <1>3, <1>4, <1>5 DEF Queue!Hand, Queue!kind, QueueOf, HandOf, shape

(* Every step is one of the queue, or none.                                *)
LEMMA NextQueue ==
  ASSUME IInv, IInv', Ring, Ring', cap >= 2, [Next]_vars
  PROVE  [Queue!Next]_(Queue!vars)
<1>a. UNCHANGED shape /\ Shape' /\ Span' /\ ~rendezvous
  BY NextShape DEF IInv, Flow, Shape
<1>b. \A q \in Nat : q < enq => Msg(q)' = Msg(q)
  BY MsgKept DEF IInv
<1>1. ASSUME Unmoved PROVE UNCHANGED Queue!vars
  <2>1. UNCHANGED <<QueueOf, HandOf>>
    BY <1>a, <1>1, UnmovedStutters DEF IInv, Flow
  <2>2. QED
    BY <1>a, <2>1 DEF Queue!vars, Queue!kind, QueueOf, HandOf, shape
<1>2. CASE Close \/ UNCHANGED vars
  <2>1. Unmoved
    BY <1>b, <1>2 DEF Close, vars, shared, ring, local, Unmoved
  <2>2. QED
    BY <1>1, <2>1
<1>3. ASSUME NEW t \in Threads, Step(t)
      PROVE  [Queue!Next]_(Queue!vars)
  <2>1. Around(t)
    BY <1>a, <1>3, AroundStep DEF IInv
  <2>2. Alone(t)
    BY <2>1 DEF Around
  <2>3. Working(t) \/ Looking(t)
    BY <1>a, <1>3, StepLooking DEF IInv, Ring, Contents
  <2>4. CASE TicketWon(t)
    <3>1. \E m \in Messages : Queue!Put(m)
      BY <1>a, <1>3, <2>2, <2>4, TicketPuts
    <3>2. QED
      BY <3>1 DEF Queue!Next
  <2>5. CASE Taken(t)
    <3>1. t \in Receivers /\ Queue!Take(t)
      BY <1>a, <1>3, <2>2, <2>5, TakenTakes
    <3>2. QED
      BY <3>1 DEF Queue!Next
  <2>6. CASE RecvPublish(t)
    <3>1. t \in Receivers /\ Queue!Hand(t)
      BY <1>a, <1>3, <2>2, <2>6, FreedHands
    <3>2. QED
      BY <3>1 DEF Queue!Next
  <2>7. CASE SendStore(t) \/ SendPublish(t) \/ RecvClear(t) \/ Looking(t)
    <3>1. /\ UNCHANGED <<enq, deq>>
          /\ pc'[t] \in Taking <=> pc[t] \in Taking
          /\ pc'[t] \in Taking => pos'[t] = pos[t]
      <4>1. CASE SendStore(t)
        BY <2>1, <4>1 DEF SendStore, At, Goto, Taking, Around
      <4>2. CASE SendPublish(t)
        BY <1>a, <2>1, <4>2 DEF SendPublish, At, Return, Taking, Around
      <4>3. CASE RecvClear(t)
        BY <2>1, <4>3 DEF RecvClear, At, Goto, Taking, Around
      <4>4. CASE Looking(t)
        BY <4>4 DEF Looking
      <4>5. QED
        BY <2>7, <4>1, <4>2, <4>3, <4>4
    <3>2. Unmoved
      BY <1>b, <2>2, <3>1 DEF Unmoved, Alone, Threads
    <3>3. QED
      BY <1>1, <3>2
  <2>8. QED
    BY <2>3, <2>4, <2>5, <2>6, <2>7 DEF Working
<1>4. QED
  BY <1>2, <1>3, Stepping

(* The channel starts as an empty queue with empty hands.                  *)
LEMMA InitQueue ==
  ASSUME Init
  PROVE  Queue!Init
<1>1. Shape /\ Span /\ enq = 0 /\ deq = 0
  BY InitIInv DEF IInv, Flow, Init
<1>2. QueueOf = <<>>
  <2>1. QueueOf \in Seq(Messages) /\ Len(QueueOf) = 0
    BY <1>1, QueueShape DEF QueueRight
  <2>2. QED
    BY <2>1, EmptySeq
<1>3. HandOf = [r \in Receivers |-> Cleared]
  BY DEF Init, HandOf, Threads
<1>4. QED
  BY <1>1, <1>2, <1>3 DEF Queue!Init, QueueOf, HandOf, Shape

(* A channel of two slots or more is the bounded first-in first-out queue  *)
(* it promises to be, for any number of threads, messages and slots.       *)
THEOREM ChannelImplementsQueue == Spec /\ cap >= 2 => ImplementsQueue
<1>1. IInv /\ IInv' /\ RingInv /\ RingInv' /\ cap >= 2 /\ [Next]_vars
        => [Queue!Next]_(Queue!vars) /\ (cap >= 2)'
  <2> SUFFICES ASSUME IInv, IInv', RingInv, RingInv', cap >= 2, [Next]_vars
               PROVE  [Queue!Next]_(Queue!vars) /\ (cap >= 2)'
    OBVIOUS
  <2>1. cap' = cap
    BY NextShape DEF IInv, shape
  <2>2. Ring /\ Ring'
    BY <2>1 DEF RingInv
  <2>3. QED
    BY <2>1, <2>2, NextQueue
<1>2. QED
  BY <1>1, InitQueue, ChannelInvariant, ChannelRing, PTL
     DEF Spec, ImplementsQueue, Queue!Spec

=============================================================================
