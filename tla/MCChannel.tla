----------------------------- MODULE MCChannel -----------------------------
(***************************************************************************)
(* Instances of Channel.  Threads of one side run the same code and are    *)
(* interchangeable; only the runs without liveness use the symmetry.       *)
(***************************************************************************)
EXTENDS Channel, TLC

ThreadSymmetry == Permutations(Senders) \cup Permutations(Receivers)

ThreeEach == [r \in BOOLEAN |-> 3]
TwoEach == [r \in BOOLEAN |-> 2]
\* A rendezvous with a second message meets the reuse of its only slot, which
\* the run with one slot is about.
OneMeeting == [r \in BOOLEAN |-> IF r THEN 1 ELSE 4]
=============================================================================
