---------------------------- MODULE ChannelQueue ----------------------------
(***************************************************************************)
(* What a channel promises (plan/09_threading_api.md, section 9.5): a      *)
(* bounded first-in first-out queue.  Each message put in is handed to one *)
(* receiver, whole and once, in the order of the puts; on a rendezvous     *)
(* channel the sender may withdraw a message nobody has taken.             *)
(***************************************************************************)
EXTENDS Naturals, Sequences

CONSTANTS Messages, Receivers, Nothing

VARIABLES
  bound, revocable,   \* chosen when the channel is made
  queue,   \* messages put in and not taken out, oldest first
  hand     \* the message each receiver is being handed, or Nothing

kind == <<bound, revocable>>
vars == <<kind, queue, hand>>

Init ==
  /\ bound \in Nat /\ revocable \in BOOLEAN
  /\ queue = <<>> /\ hand = [r \in Receivers |-> Nothing]

Put(m) ==
  /\ Len(queue) < bound
  /\ queue' = Append(queue, m)
  /\ UNCHANGED <<kind, hand>>

Take(r) ==
  /\ queue # <<>> /\ hand[r] = Nothing
  /\ hand' = [hand EXCEPT ![r] = Head(queue)]
  /\ queue' = Tail(queue)

Hand(r) ==
  /\ hand[r] # Nothing
  /\ hand' = [hand EXCEPT ![r] = Nothing]
  /\ UNCHANGED <<kind, queue>>

Withdraw ==
  /\ revocable /\ queue # <<>>
  /\ queue' = Tail(queue)
  /\ UNCHANGED <<kind, hand>>

Next ==
  \/ \E m \in Messages : Put(m)
  \/ \E r \in Receivers : Take(r) \/ Hand(r)
  \/ Withdraw

Spec == Init /\ [][Next]_vars
=============================================================================
