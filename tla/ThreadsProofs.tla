--------------------------- MODULE ThreadsProofs ---------------------------
(***************************************************************************)
(* Proofs about Threads, second half: how lua_close empties the world, what  *)
(* the gates keep out, who joins whom; the inductive invariant and the       *)
(* theorems.                                                                 *)
(***************************************************************************)
EXTENDS ThreadsCountProofs

(* The thread t is linked: its TG must be on the registry's list. *)
Linked(t) ==
  \/ InLua(t)
  \/ /\ t \in Workers
     /\ pc[t] \in {"wclaim", "wready", "wwait", "wshut", "wcleanup"}
  \/ /\ t \in Foreign
     /\ \/ pc[t] \in {"claim", "rooted", "excl", "live", "recheck", "shut",
                      "final"}
        \/ pc[t] \in {"leave", "touch"} /\ ret[t] = "excl"

(* t has left, has not come, or is about to be refused at the gate. *)
Calm(t) ==
  /\ arg[t] = None
  /\ \/ pc[t] \in {"out", "none", "gate", "wdone", "wexit", "gone"}
     \/ pc[t] = "touch" /\ ret[t] \in {"out", "wdone"}

(* t has no place in live, or must look at the gates again before it works. *)
Outside(t) ==
  /\ arg[t] = None
  /\ \/ pc[t] \in {"out", "none", "gate", "excl", "live", "recheck", "attach",
                   "claim", "rooted", "undo", "unenter", "wdone", "wexit",
                   "gone"}
     \/ /\ pc[t] \in {"leave", "touch"}
        /\ ret[t] \in {"excl", "undo", "out", "wdone"}

(* lua_close walks the list of nodes. *)
Walking == {"nodes", "closewait", "closeremove"}

(* What t does once lua_close has come so far. *)
Closes(t) ==
  /\ Linked(t) => t \in attached
  /\ t \in Others =>
       /\ pc[Main] \in Walking \cup {"tell", "drain"} =>
            (HoldsEntering(t) => pc[t] = "gate")
       /\ pc[Main] \in Walking \cup {"drain"} => (InLua(t) => Stopped(t))
       /\ pc[Main] \in Walking => Calm(t)

(* The world is shut exactly while lua_close is at work. *)
Closing ==
  /\ shutdown <=> pc[Main] \in ClosePCs
  /\ Main \in attached
  /\ \A t \in Threads : Closes(t)

(* The gate is the one that Main holds, and behind it all are outside. *)
Gated ==
  /\ gate = IF pc[Main] \in {"post", "postlive", "postenter", "held"}
            THEN arg[Main] ELSE "none"
  /\ pc[Main] \in {"postenter", "held"} /\ gate \in {"gc", "str"} =>
       \A t \in Others : Outside(t)

(* t has claimed the right to pass w to pthread_join, and has not yet. *)
Claims(t, w) == arg[t] = w /\ pc[t] \in {"abortwait", "joinos", "closewait"}

(* What a spawner, joiner or closer knows of the worker in arg. *)
Awaits(t) ==
  /\ InSpawn(t) /\ pc[t] \notin {"waitrun", "abortwait", "abortremove"}
       => arg[t] \notin joined
  /\ pc[t] \in {"abortremove", "joinres"} => joins[arg[t]] = 1
  /\ pc[t] = "closeremove" => pc[arg[t]] = "none" \/ joins[arg[t]] = 1

(* A claim on w is the only one, and comes before the join. *)
ClaimsAlone(w) ==
  \A t \in Threads : Claims(t, w) =>
    /\ w \in joined /\ joins[w] = 0
    /\ \A u \in Threads : Claims(u, w) => t = u

(* How joined, joins and the list of nodes tell what became of w. *)
JoinsOf(w) ==
  /\ w \notin joined => joins[w] = 0
  /\ joins[w] \in {0, 1}
  /\ joins[w] = 1 => pc[w] = "gone"
  /\ w \in joined => \/ pc[w] = "none" \/ joins[w] = 1
                     \/ \E t \in Threads : Claims(t, w)
  /\ w \notin nodes /\ pc[w] # "none" => joins[w] = 1

(* Once lua_close has found no node, no OS thread is left without a join. *)
Emptied ==
  /\ freed => pc[Main] = "closed"
  /\ pc[Main] \in {"earlylive", "earlyenter", "closed"} =>
       /\ \A w \in nodes : pc[w] = "none"
       /\ \A t \in Threads : pc[t] # "create"

Joining ==
  /\ \A t \in Threads : Awaits(t)
  /\ \A w \in Workers : ClaimsAlone(w) /\ JoinsOf(w)
  /\ Emptied

-----------------------------------------------------------------------------
(* A counter at zero: nobody is where it counts.                            *)
LEMMA Nobody ==
  ASSUME CountsExact
  PROVE  /\ entering = 0 => \A t \in Threads : ~HoldsEntering(t)
         /\ live = 0 => /\ \A t \in Others : ~HoldsLive(t)
                        /\ \A t \in Threads : ~HoldsForWorker(t)
<1>1. ASSUME entering = 0 PROVE \A t \in Threads : ~HoldsEntering(t)
  <2>1. Cardinality(Entering) = 0
    BY <1>1 DEF CountsExact, Entering
  <2>2. Entering = {}
    BY <2>1, FiniteThreads, FS_EmptySet
  <2> QED BY <2>2 DEF Entering
<1>2. ASSUME live = 0
      PROVE  /\ \A t \in Others : ~HoldsLive(t)
             /\ \A t \in Threads : ~HoldsForWorker(t)
  <2>1. Cardinality(Living) \in Nat /\ Cardinality(Pending) \in Nat
    BY FiniteThreads, FS_CardinalityType
  <2>2. 0 = Cardinality(Living) + Cardinality(Pending)
    BY <1>2 DEF CountsExact, Living, Pending
  <2>3. Cardinality(Living) = 0 /\ Cardinality(Pending) = 0
    BY <2>1, <2>2
  <2>4. Living = {} /\ Pending = {}
    BY <2>3, FiniteThreads, FS_EmptySet
  <2> QED BY <2>4 DEF Living, Pending
<1> QED BY <1>1, <1>2

(* With no place in live taken and no entrant but at the gate, all is calm. *)
LEMMA AllCalm ==
  ASSUME Shapes, NEW t \in Others, ~HoldsLive(t),
         HoldsEntering(t) => pc[t] = "gate"
  PROVE  Calm(t)
<1>1. Shape(t) /\ Types /\ t \in Threads
  BY DEF Shapes, Others, Threads
<1>2. None \notin Workers /\ Main \notin Others /\ Workers \cap Foreign = {}
  BY ThreadsAssumption DEF Others
<1>3. arg[t] = None /\ pc[t] \notin {"run", "leave"}
  BY DEF HoldsLive, Spawning
<1>4. CASE pc[t] = "touch"
  BY <1>1, <1>2, <1>3, <1>4
     DEF Types, Shape, Entrant, HoldsLive, HoldsEntering, Spawning, Calm
<1>5. CASE pc[t] # "touch" /\ t \in Workers
  BY <1>1, <1>2, <1>3, <1>5
     DEF Types, Shape, Entrant, HoldsLive, HoldsEntering, Spawning, Calm,
         Others, AdmitPCs, SpawnPCs, JoinPCs, ForeignPCs, WorkerPCs, GatePCs,
         ClosePCs, ArgPCs, EntryPCs
<1>6. CASE pc[t] # "touch" /\ t \in Foreign
  BY <1>1, <1>2, <1>3, <1>6
     DEF Types, Shape, Entrant, HoldsLive, HoldsEntering, Spawning, Calm,
         Others, AdmitPCs, SpawnPCs, JoinPCs, ForeignPCs, WorkerPCs, GatePCs,
         ClosePCs, ArgPCs, EntryPCs
<1> QED BY <1>4, <1>5, <1>6 DEF Others

Settled == (shutdown <=> pc[Main] \in ClosePCs) /\ Main \in attached

(* mt_shutdown is set as long as lua_close runs, and Main's TG stays linked. *)
LEMMA SettledStep ==
  Shapes /\ Lifecycle /\ Settled /\ [Next]_vars => Settled'
<1> SUFFICES ASSUME Shapes, Lifecycle, Settled, [Next]_vars PROVE Settled'
  OBVIOUS
<1> USE DEF Shapes, Types, Shape, Entrant, Step, At, Goto, Drop, CallLeave,
   countVars, worldVars, threadVars, localVars, Threads, Gates, AdmitPCs,
   SpawnPCs, JoinPCs, ForeignPCs, WorkerPCs, GatePCs, ClosePCs, ArgPCs,
   EntryPCs, FreePCs
<1>0. /\ Main \notin Workers \cup Foreign /\ Workers \cap Foreign = {}
      /\ None \notin {Main} \cup Workers \cup Foreign
  BY ThreadsAssumption
<1>iv. \A p \in Threads : pc[p] = "create" => pc[arg[p]] = "none"
  BY DEF Lifecycle, Spawns, InSpawn, Created
<1> USE DEF Settled, Spawning
<1>1. ASSUME NEW t \in Threads, Admission(t)
      PROVE  Settled'
  <2>1. CASE Publish(t)
    BY <2>1, <1>0, <1>iv DEF Publish
  <2>2. CASE Enter(t)
    BY <2>2, <1>0, <1>iv DEF Enter
  <2>3. CASE EnterGate(t)
    BY <2>3, <1>0, <1>iv DEF EnterGate, Refuse, Spawning
  <2>4. CASE Excl(t)
    BY <2>4, <1>0, <1>iv DEF Excl, Refuse, Spawning
  <2>5. CASE CountLive(t)
    BY <2>5, <1>0, <1>iv DEF CountLive
  <2>6. CASE Recheck(t)
    BY <2>6, <1>0, <1>iv DEF Recheck, Spawning
  <2>7. CASE Shut(t)
    BY <2>7, <1>0, <1>iv DEF Shut, Spawning
  <2>8. CASE Leave(t)
    BY <2>8, <1>0, <1>iv DEF Leave, Spawning
  <2>9. CASE Touch(t)
    BY <2>9, <1>0, <1>iv DEF Touch
  <2> HIDE DEF Types, Shapes, Shape, Step, At, Goto, Drop, CallLeave,
     countVars, worldVars, threadVars, localVars, Threads, Settled
  <2> QED BY <1>1, <2>1, <2>2, <2>3, <2>4, <2>5, <2>6, <2>7, <2>8, <2>9
     DEF Admission
<1>2. ASSUME NEW t \in Threads, Spawner(t)
      PROVE  Settled'
  <2>1. CASE Refused(t)
    BY <2>1, <1>0, <1>iv DEF Refused, Unstarted
  <2>2. CASE Create(t)
    BY <2>2, <1>0, <1>iv DEF Create, Unstarted, Created
  <2>3. CASE WaitReady(t)
    BY <2>3, <1>0, <1>iv DEF WaitReady
  <2>4. CASE Release(t)
    BY <2>4, <1>0, <1>iv DEF Release
  <2>5. CASE WaitRun(t)
    BY <2>5, <1>0, <1>iv DEF WaitRun
  <2>6. CASE Abort(t)
    BY <2>6, <1>0, <1>iv DEF Abort
  <2>7. CASE AbortJoin(t)
    BY <2>7, <1>0, <1>iv DEF AbortJoin
  <2>8. CASE AbortWait(t)
    BY <2>8, <1>0, <1>iv DEF AbortWait
  <2>9. CASE AbortRemove(t)
    BY <2>9, <1>0, <1>iv DEF AbortRemove
  <2> HIDE DEF Types, Shapes, Shape, Step, At, Goto, Drop, CallLeave,
     countVars, worldVars, threadVars, localVars, Threads, Settled
  <2> QED BY <1>2, <2>1, <2>2, <2>3, <2>4, <2>5, <2>6, <2>7, <2>8, <2>9
     DEF Spawner
<1>3. ASSUME NEW t \in Threads, Joiner(t)
      PROVE  Settled'
  <2>1. CASE JoinWait(t)
    BY <2>1, <1>0, <1>iv DEF JoinWait
  <2>2. CASE JoinCas(t)
    BY <2>2, <1>0, <1>iv DEF JoinCas
  <2>3. CASE JoinOs(t)
    BY <2>3, <1>0, <1>iv DEF JoinOs
  <2>4. CASE JoinResults(t)
    BY <2>4, <1>0, <1>iv DEF JoinResults
  <2> HIDE DEF Types, Shapes, Shape, Step, At, Goto, Drop, CallLeave,
     countVars, worldVars, threadVars, localVars, Threads, Settled
  <2> QED BY <1>3, <2>1, <2>2, <2>3, <2>4 DEF Joiner
<1>4. ASSUME NEW t \in Foreign, Attacher(t) \/ Attach(t) \/ Detach(t)
      PROVE  Settled'
  <2>1. CASE Link(t)
    BY <2>1, <1>0, <1>iv DEF Link
  <2>2. CASE ClaimState(t)
    BY <2>2, <1>0, <1>iv DEF ClaimState
  <2>3. CASE Rooted(t)
    BY <2>3, <1>0, <1>iv DEF Rooted
  <2>4. CASE Final(t)
    BY <2>4, <1>0, <1>iv DEF Final
  <2>5. CASE Undo(t)
    BY <2>5, <1>0, <1>iv DEF Undo
  <2>6. CASE Unenter(t)
    BY <2>6, <1>0, <1>iv DEF Unenter
  <2>7. CASE Attach(t)
    BY <2>7, <1>0, <1>iv DEF Attach
  <2>8. CASE Detach(t)
    BY <2>8, <1>0, <1>iv DEF Detach
  <2> HIDE DEF Types, Shapes, Shape, Step, At, Goto, Drop, CallLeave,
     countVars, worldVars, threadVars, localVars, Threads, Settled
  <2> QED BY <1>4, <2>1, <2>2, <2>3, <2>4, <2>5, <2>6, <2>7, <2>8 DEF Attacher
<1>5. ASSUME NEW t \in Workers, Worker(t) \/ Finish(t)
      PROVE  Settled'
  <2>1. CASE Boot(t)
    BY <2>1, <1>0, <1>iv DEF Boot
  <2>2. CASE Prepare(t)
    BY <2>2, <1>0, <1>iv DEF Prepare, Cancelled
  <2>3. CASE Ready(t)
    BY <2>3, <1>0, <1>iv DEF Ready
  <2>4. CASE WaitStart(t)
    BY <2>4, <1>0, <1>iv DEF WaitStart
  <2>5. CASE Run(t)
    BY <2>5, <1>0, <1>iv DEF Run
  <2>6. CASE Cleanup(t)
    BY <2>6, <1>0, <1>iv DEF Cleanup
  <2>7. CASE Done(t)
    BY <2>7, <1>0, <1>iv DEF Done
  <2>8. CASE Exit(t)
    BY <2>8, <1>0, <1>iv DEF Exit
  <2>9. CASE Finish(t)
    BY <2>9, <1>0, <1>iv DEF Finish
  <2> HIDE DEF Types, Shapes, Shape, Step, At, Goto, Drop, CallLeave,
     countVars, worldVars, threadVars, localVars, Threads, Settled
  <2> QED BY <1>5, <2>1, <2>2, <2>3, <2>4, <2>5, <2>6, <2>7, <2>8, <2>9
     DEF Worker
<1>6. ASSUME NEW k \in Gates, Gate \/ GateBegin(k)
      PROVE  Settled'
  <2>1. CASE GateBegin(k)
    BY <2>1, <1>0, <1>iv DEF GateBegin
  <2>2. CASE GateRead
    BY <2>2, <1>0, <1>iv, GateGoes DEF GateRead
  <2>3. CASE GateSet
    BY <2>3, <1>0, <1>iv DEF GateSet
  <2>4. CASE GateLeave
    BY <2>4, <1>0, <1>iv DEF GateLeave
  <2> HIDE DEF Types, Shapes, Shape, Step, At, Goto, Drop, CallLeave,
     countVars, worldVars, threadVars, localVars, Threads, Settled
  <2> QED BY <1>6, <2>1, <2>2, <2>3, <2>4 DEF Gate
<1>7. ASSUME Closer \/ Close PROVE Settled'
  <2>1. CASE Close
    BY <2>1, <1>0, <1>iv DEF Close
  <2>2. CASE Early
    BY <2>2, <1>0, <1>iv DEF Early
  <2>3. CASE WaitEntering
    BY <2>3, <1>0, <1>iv DEF WaitEntering
  <2>4. CASE Tell
    BY <2>4, <1>0, <1>iv DEF Tell
  <2>5. CASE Drain
    BY <2>5, <1>0, <1>iv DEF Drain
  <2>6. CASE CloseWait
    BY <2>6, <1>0, <1>iv DEF CloseWait
  <2>7. CASE CloseRemove
    BY <2>7, <1>0, <1>iv DEF CloseRemove
  <2>8. CASE NodesDone
    BY <2>8, <1>0, <1>iv DEF NodesDone
  <2>9. CASE Free
    BY <2>9, <1>0, <1>iv DEF Free
  <2>10. ASSUME NEW w \in Workers, TakeNode(w) PROVE Settled'
    BY <2>10, <1>0, <1>iv DEF TakeNode
  <2> HIDE DEF Types, Shapes, Shape, Step, At, Goto, Drop, CallLeave,
     countVars, worldVars, threadVars, localVars, Threads, Settled
  <2> QED BY <1>7, <2>1, <2>2, <2>3, <2>4, <2>5, <2>6, <2>7, <2>8, <2>9,
     <2>10 DEF Closer
<1>8. ASSUME NEW t \in Threads, NEW w \in Workers, Spawn(t, w) \/ Join(t, w)
      PROVE  Settled'
  <2>1. CASE Spawn(t, w)
    BY <2>1, <1>0, <1>iv DEF Spawn
  <2>2. CASE Join(t, w)
    BY <2>2, <1>0, <1>iv DEF Join
  <2> HIDE DEF Types, Shapes, Shape, Step, At, Goto, Drop, CallLeave,
     countVars, worldVars, threadVars, localVars, Threads, Settled
  <2> QED BY <1>8, <2>1, <2>2
<1>9. CASE UNCHANGED vars
  BY <1>9, <1>0, <1>iv DEF vars
<1> HIDE DEF Types, Shapes, Shape, Step, At, Goto, Drop, CallLeave,
   countVars, worldVars, threadVars, localVars, Threads, Settled
<1> QED
  BY <1>1, <1>2, <1>3, <1>4, <1>5, <1>6, <1>7, <1>8, <1>9
     DEF Next, Internal, Return, Request


(* Whoever is at work is linked, and lua_close leaves fewer and fewer behind. *)
LEMMA ClosesStep ==
  Shapes /\ Lifecycle /\ CountsExact /\ Closing /\ [Next]_vars
    => \A v \in Threads : Closes(v)'
<1> SUFFICES ASSUME Shapes, Lifecycle, CountsExact, Closing, [Next]_vars,
                    NEW v \in Threads
             PROVE  Closes(v)'
  OBVIOUS
<1> USE DEF Shapes, Types, Shape, Entrant, Step, At, Goto, Drop, CallLeave,
   countVars, worldVars, threadVars, localVars, Threads, Gates, AdmitPCs,
   SpawnPCs, JoinPCs, ForeignPCs, WorkerPCs, GatePCs, ClosePCs, ArgPCs,
   EntryPCs, FreePCs
<1>0. /\ Main \notin Workers \cup Foreign /\ Workers \cap Foreign = {}
      /\ None \notin {Main} \cup Workers \cup Foreign
  BY ThreadsAssumption
<1>iv. /\ \A p \in Threads : pc[p] = "create" => pc[arg[p]] = "none"
       /\ shutdown <=> pc[Main] \in ClosePCs
       /\ Main \in attached
       /\ \A t \in Threads : Closes(t)
  BY DEF Lifecycle, Spawns, InSpawn, Created, Closing
<1>n. /\ entering = 0 => ~HoldsEntering(v)
      /\ live = 0 /\ v \in Others => ~HoldsLive(v)
      /\ v \in Others /\ ~HoldsLive(v) /\ (HoldsEntering(v) => pc[v] = "gate")
           => Calm(v)
  BY Nobody, AllCalm
<1> USE DEF Closes, Linked, InLua, InSpawn, HoldsEntering, Calm, Walking,
   Others, Spawning, Stopped
<1>1. ASSUME NEW t \in Threads, Admission(t)
      PROVE  Closes(v)'
  <2>1. CASE Publish(t)
    BY <2>1, <1>0, <1>iv DEF Publish
  <2>2. CASE Enter(t)
    BY <2>2, <1>0, <1>iv DEF Enter
  <2>3. CASE EnterGate(t)
    BY <2>3, <1>0, <1>iv DEF EnterGate, Refuse, Spawning
  <2>4. CASE Excl(t)
    BY <2>4, <1>0, <1>iv DEF Excl, Refuse, Spawning
  <2>5. CASE CountLive(t)
    BY <2>5, <1>0, <1>iv DEF CountLive
  <2>6. CASE Recheck(t)
    BY <2>6, <1>0, <1>iv DEF Recheck, Spawning
  <2>7. CASE Shut(t)
    BY <2>7, <1>0, <1>iv DEF Shut, Spawning
  <2>8. CASE Leave(t)
    BY <2>8, <1>0, <1>iv DEF Leave, Spawning
  <2>9. CASE Touch(t)
    BY <2>9, <1>0, <1>iv DEF Touch
  <2> HIDE DEF Types, Shapes, Shape, Step, At, Goto, Drop, CallLeave,
     countVars, worldVars, threadVars, localVars, Threads, Closes, Linked,
     InLua, InSpawn, HoldsEntering, Calm
  <2> QED BY <1>1, <2>1, <2>2, <2>3, <2>4, <2>5, <2>6, <2>7, <2>8, <2>9
     DEF Admission
<1>2. ASSUME NEW t \in Threads, Spawner(t)
      PROVE  Closes(v)'
  <2>1. CASE Refused(t)
    BY <2>1, <1>0, <1>iv DEF Refused, Unstarted
  <2>2. CASE Create(t)
    BY <2>2, <1>0, <1>iv DEF Create, Unstarted, Created
  <2>3. CASE WaitReady(t)
    BY <2>3, <1>0, <1>iv DEF WaitReady
  <2>4. CASE Release(t)
    BY <2>4, <1>0, <1>iv DEF Release
  <2>5. CASE WaitRun(t)
    BY <2>5, <1>0, <1>iv DEF WaitRun
  <2>6. CASE Abort(t)
    BY <2>6, <1>0, <1>iv DEF Abort
  <2>7. CASE AbortJoin(t)
    BY <2>7, <1>0, <1>iv DEF AbortJoin
  <2>8. CASE AbortWait(t)
    BY <2>8, <1>0, <1>iv DEF AbortWait
  <2>9. CASE AbortRemove(t)
    BY <2>9, <1>0, <1>iv DEF AbortRemove
  <2> HIDE DEF Types, Shapes, Shape, Step, At, Goto, Drop, CallLeave,
     countVars, worldVars, threadVars, localVars, Threads, Closes, Linked,
     InLua, InSpawn, HoldsEntering, Calm
  <2> QED BY <1>2, <2>1, <2>2, <2>3, <2>4, <2>5, <2>6, <2>7, <2>8, <2>9
     DEF Spawner
<1>3. ASSUME NEW t \in Threads, Joiner(t)
      PROVE  Closes(v)'
  <2>1. CASE JoinWait(t)
    BY <2>1, <1>0, <1>iv DEF JoinWait
  <2>2. CASE JoinCas(t)
    BY <2>2, <1>0, <1>iv DEF JoinCas
  <2>3. CASE JoinOs(t)
    BY <2>3, <1>0, <1>iv DEF JoinOs
  <2>4. CASE JoinResults(t)
    BY <2>4, <1>0, <1>iv DEF JoinResults
  <2> HIDE DEF Types, Shapes, Shape, Step, At, Goto, Drop, CallLeave,
     countVars, worldVars, threadVars, localVars, Threads, Closes, Linked,
     InLua, InSpawn, HoldsEntering, Calm
  <2> QED BY <1>3, <2>1, <2>2, <2>3, <2>4 DEF Joiner
<1>4. ASSUME NEW t \in Foreign, Attacher(t) \/ Attach(t) \/ Detach(t)
      PROVE  Closes(v)'
  <2>1. CASE Link(t)
    BY <2>1, <1>0, <1>iv DEF Link
  <2>2. CASE ClaimState(t)
    BY <2>2, <1>0, <1>iv DEF ClaimState
  <2>3. CASE Rooted(t)
    BY <2>3, <1>0, <1>iv DEF Rooted
  <2>4. CASE Final(t)
    BY <2>4, <1>0, <1>iv DEF Final
  <2>5. CASE Undo(t)
    BY <2>5, <1>0, <1>iv DEF Undo
  <2>6. CASE Unenter(t)
    BY <2>6, <1>0, <1>iv DEF Unenter
  <2>7. CASE Attach(t)
    BY <2>7, <1>0, <1>iv DEF Attach
  <2>8. CASE Detach(t)
    BY <2>8, <1>0, <1>iv DEF Detach
  <2> HIDE DEF Types, Shapes, Shape, Step, At, Goto, Drop, CallLeave,
     countVars, worldVars, threadVars, localVars, Threads, Closes, Linked,
     InLua, InSpawn, HoldsEntering, Calm
  <2> QED BY <1>4, <2>1, <2>2, <2>3, <2>4, <2>5, <2>6, <2>7, <2>8 DEF Attacher
<1>5. ASSUME NEW t \in Workers, Worker(t) \/ Finish(t)
      PROVE  Closes(v)'
  <2>1. CASE Boot(t)
    BY <2>1, <1>0, <1>iv DEF Boot
  <2>2. CASE Prepare(t)
    BY <2>2, <1>0, <1>iv DEF Prepare, Cancelled
  <2>3. CASE Ready(t)
    BY <2>3, <1>0, <1>iv DEF Ready
  <2>4. CASE WaitStart(t)
    BY <2>4, <1>0, <1>iv DEF WaitStart
  <2>5. CASE Run(t)
    BY <2>5, <1>0, <1>iv DEF Run
  <2>6. CASE Cleanup(t)
    BY <2>6, <1>0, <1>iv DEF Cleanup
  <2>7. CASE Done(t)
    BY <2>7, <1>0, <1>iv DEF Done
  <2>8. CASE Exit(t)
    BY <2>8, <1>0, <1>iv DEF Exit
  <2>9. CASE Finish(t)
    BY <2>9, <1>0, <1>iv DEF Finish
  <2> HIDE DEF Types, Shapes, Shape, Step, At, Goto, Drop, CallLeave,
     countVars, worldVars, threadVars, localVars, Threads, Closes, Linked,
     InLua, InSpawn, HoldsEntering, Calm
  <2> QED BY <1>5, <2>1, <2>2, <2>3, <2>4, <2>5, <2>6, <2>7, <2>8, <2>9
     DEF Worker
<1>6. ASSUME NEW k \in Gates, Gate \/ GateBegin(k)
      PROVE  Closes(v)'
  <2>1. CASE GateBegin(k)
    BY <2>1, <1>0, <1>iv DEF GateBegin
  <2>2. CASE GateRead
    BY <2>2, <1>0, <1>iv, GateGoes DEF GateRead
  <2>3. CASE GateSet
    BY <2>3, <1>0, <1>iv DEF GateSet
  <2>4. CASE GateLeave
    BY <2>4, <1>0, <1>iv DEF GateLeave
  <2> HIDE DEF Types, Shapes, Shape, Step, At, Goto, Drop, CallLeave,
     countVars, worldVars, threadVars, localVars, Threads, Closes, Linked,
     InLua, InSpawn, HoldsEntering, Calm
  <2> QED BY <1>6, <2>1, <2>2, <2>3, <2>4 DEF Gate
<1>7. ASSUME Closer \/ Close PROVE Closes(v)'
  <2>1. CASE Close
    BY <2>1, <1>0, <1>iv DEF Close
  <2>2. CASE Early
    BY <2>2, <1>0, <1>iv DEF Early
  <2>3. CASE WaitEntering
    BY <2>3, <1>0, <1>iv, <1>n DEF WaitEntering
  <2>4. CASE Tell
    BY <2>4, <1>0, <1>iv, <1>n DEF Tell
  <2>5. CASE Drain
    BY <2>5, <1>0, <1>iv, <1>n DEF Drain
  <2>6. CASE CloseWait
    BY <2>6, <1>0, <1>iv DEF CloseWait
  <2>7. CASE CloseRemove
    BY <2>7, <1>0, <1>iv DEF CloseRemove
  <2>8. CASE NodesDone
    BY <2>8, <1>0, <1>iv DEF NodesDone
  <2>9. CASE Free
    BY <2>9, <1>0, <1>iv DEF Free
  <2>10. ASSUME NEW w \in Workers, TakeNode(w) PROVE Closes(v)'
    BY <2>10, <1>0, <1>iv DEF TakeNode
  <2> HIDE DEF Types, Shapes, Shape, Step, At, Goto, Drop, CallLeave,
     countVars, worldVars, threadVars, localVars, Threads, Closes, Linked,
     InLua, InSpawn, HoldsEntering, Calm
  <2> QED BY <1>7, <2>1, <2>2, <2>3, <2>4, <2>5, <2>6, <2>7, <2>8, <2>9,
     <2>10 DEF Closer
<1>8. ASSUME NEW t \in Threads, NEW w \in Workers, Spawn(t, w) \/ Join(t, w)
      PROVE  Closes(v)'
  <2>1. CASE Spawn(t, w)
    BY <2>1, <1>0, <1>iv DEF Spawn
  <2>2. CASE Join(t, w)
    BY <2>2, <1>0, <1>iv DEF Join
  <2> HIDE DEF Types, Shapes, Shape, Step, At, Goto, Drop, CallLeave,
     countVars, worldVars, threadVars, localVars, Threads, Closes, Linked,
     InLua, InSpawn, HoldsEntering, Calm
  <2> QED BY <1>8, <2>1, <2>2
<1>9. CASE UNCHANGED vars
  BY <1>9, <1>0, <1>iv DEF vars
<1> HIDE DEF Types, Shapes, Shape, Step, At, Goto, Drop, CallLeave,
   countVars, worldVars, threadVars, localVars, Threads, Closes, Linked, InLua,
   InSpawn, HoldsEntering, Calm
<1> QED
  BY <1>1, <1>2, <1>3, <1>4, <1>5, <1>6, <1>7, <1>8, <1>9
     DEF Next, Internal, Return, Request


-----------------------------------------------------------------------------
(* With no place in live taken, everyone is outside, or only on the way in.  *)
LEMMA AllOutside ==
  ASSUME Shapes, NEW t \in Others, ~HoldsLive(t)
  PROVE  Outside(t)
<1>1. Shape(t) /\ Types /\ t \in Threads
  BY DEF Shapes, Others, Threads
<1>2. None \notin Workers /\ Main \notin Others /\ Workers \cap Foreign = {}
  BY ThreadsAssumption DEF Others
<1>3. arg[t] = None /\ pc[t] \notin {"run", "leave"}
  BY DEF HoldsLive, Spawning
<1>4. CASE pc[t] = "touch"
  BY <1>1, <1>2, <1>3, <1>4 DEF Types, Shape, Entrant, HoldsLive, Outside
<1>5. CASE pc[t] # "touch" /\ t \in Workers
  BY <1>1, <1>2, <1>3, <1>5
     DEF Types, Shape, Entrant, HoldsLive, Outside, Others,
         AdmitPCs, SpawnPCs, JoinPCs, ForeignPCs, WorkerPCs, GatePCs, ClosePCs,
         ArgPCs, EntryPCs
<1>6. CASE pc[t] # "touch" /\ t \in Foreign
  BY <1>1, <1>2, <1>3, <1>6
     DEF Types, Shape, Entrant, HoldsLive, Outside, Others,
         AdmitPCs, SpawnPCs, JoinPCs, ForeignPCs, WorkerPCs, GatePCs, ClosePCs,
         ArgPCs, EntryPCs
<1> QED BY <1>4, <1>5, <1>6 DEF Others

GateWord ==
  gate = IF pc[Main] \in {"post", "postlive", "postenter", "held"}
         THEN arg[Main] ELSE "none"

(* The gate is the one that Main has set and not yet left.                  *)
LEMMA GateWordStep ==
  Shapes /\ Lifecycle /\ GateWord /\ [Next]_vars => GateWord'
<1> SUFFICES ASSUME Shapes, Lifecycle, GateWord, [Next]_vars PROVE GateWord'
  OBVIOUS
<1> USE DEF Shapes, Types, Shape, Entrant, Step, At, Goto, Drop, CallLeave,
   countVars, worldVars, threadVars, localVars, Threads, Gates, AdmitPCs,
   SpawnPCs, JoinPCs, ForeignPCs, WorkerPCs, GatePCs, ClosePCs, ArgPCs,
   EntryPCs, FreePCs
<1>0. /\ Main \notin Workers \cup Foreign /\ Workers \cap Foreign = {}
      /\ None \notin {Main} \cup Workers \cup Foreign
  BY ThreadsAssumption
<1>iv. \A p \in Threads : pc[p] = "create" => pc[arg[p]] = "none"
  BY DEF Lifecycle, Spawns, InSpawn, Created
<1> USE DEF GateWord, Spawning
<1>1. ASSUME NEW t \in Threads, Admission(t)
      PROVE  GateWord'
  <2>1. CASE Publish(t)
    BY <2>1, <1>0, <1>iv DEF Publish
  <2>2. CASE Enter(t)
    BY <2>2, <1>0, <1>iv DEF Enter
  <2>3. CASE EnterGate(t)
    BY <2>3, <1>0, <1>iv DEF EnterGate, Refuse, Spawning
  <2>4. CASE Excl(t)
    BY <2>4, <1>0, <1>iv DEF Excl, Refuse, Spawning
  <2>5. CASE CountLive(t)
    BY <2>5, <1>0, <1>iv DEF CountLive
  <2>6. CASE Recheck(t)
    BY <2>6, <1>0, <1>iv DEF Recheck, Spawning
  <2>7. CASE Shut(t)
    BY <2>7, <1>0, <1>iv DEF Shut, Spawning
  <2>8. CASE Leave(t)
    BY <2>8, <1>0, <1>iv DEF Leave, Spawning
  <2>9. CASE Touch(t)
    BY <2>9, <1>0, <1>iv DEF Touch
  <2> HIDE DEF Types, Shapes, Shape, Step, At, Goto, Drop, CallLeave,
     countVars, worldVars, threadVars, localVars, Threads, GateWord
  <2> QED BY <1>1, <2>1, <2>2, <2>3, <2>4, <2>5, <2>6, <2>7, <2>8, <2>9
     DEF Admission
<1>2. ASSUME NEW t \in Threads, Spawner(t)
      PROVE  GateWord'
  <2>1. CASE Refused(t)
    BY <2>1, <1>0, <1>iv DEF Refused, Unstarted
  <2>2. CASE Create(t)
    BY <2>2, <1>0, <1>iv DEF Create, Unstarted, Created
  <2>3. CASE WaitReady(t)
    BY <2>3, <1>0, <1>iv DEF WaitReady
  <2>4. CASE Release(t)
    BY <2>4, <1>0, <1>iv DEF Release
  <2>5. CASE WaitRun(t)
    BY <2>5, <1>0, <1>iv DEF WaitRun
  <2>6. CASE Abort(t)
    BY <2>6, <1>0, <1>iv DEF Abort
  <2>7. CASE AbortJoin(t)
    BY <2>7, <1>0, <1>iv DEF AbortJoin
  <2>8. CASE AbortWait(t)
    BY <2>8, <1>0, <1>iv DEF AbortWait
  <2>9. CASE AbortRemove(t)
    BY <2>9, <1>0, <1>iv DEF AbortRemove
  <2> HIDE DEF Types, Shapes, Shape, Step, At, Goto, Drop, CallLeave,
     countVars, worldVars, threadVars, localVars, Threads, GateWord
  <2> QED BY <1>2, <2>1, <2>2, <2>3, <2>4, <2>5, <2>6, <2>7, <2>8, <2>9
     DEF Spawner
<1>3. ASSUME NEW t \in Threads, Joiner(t)
      PROVE  GateWord'
  <2>1. CASE JoinWait(t)
    BY <2>1, <1>0, <1>iv DEF JoinWait
  <2>2. CASE JoinCas(t)
    BY <2>2, <1>0, <1>iv DEF JoinCas
  <2>3. CASE JoinOs(t)
    BY <2>3, <1>0, <1>iv DEF JoinOs
  <2>4. CASE JoinResults(t)
    BY <2>4, <1>0, <1>iv DEF JoinResults
  <2> HIDE DEF Types, Shapes, Shape, Step, At, Goto, Drop, CallLeave,
     countVars, worldVars, threadVars, localVars, Threads, GateWord
  <2> QED BY <1>3, <2>1, <2>2, <2>3, <2>4 DEF Joiner
<1>4. ASSUME NEW t \in Foreign, Attacher(t) \/ Attach(t) \/ Detach(t)
      PROVE  GateWord'
  <2>1. CASE Link(t)
    BY <2>1, <1>0, <1>iv DEF Link
  <2>2. CASE ClaimState(t)
    BY <2>2, <1>0, <1>iv DEF ClaimState
  <2>3. CASE Rooted(t)
    BY <2>3, <1>0, <1>iv DEF Rooted
  <2>4. CASE Final(t)
    BY <2>4, <1>0, <1>iv DEF Final
  <2>5. CASE Undo(t)
    BY <2>5, <1>0, <1>iv DEF Undo
  <2>6. CASE Unenter(t)
    BY <2>6, <1>0, <1>iv DEF Unenter
  <2>7. CASE Attach(t)
    BY <2>7, <1>0, <1>iv DEF Attach
  <2>8. CASE Detach(t)
    BY <2>8, <1>0, <1>iv DEF Detach
  <2> HIDE DEF Types, Shapes, Shape, Step, At, Goto, Drop, CallLeave,
     countVars, worldVars, threadVars, localVars, Threads, GateWord
  <2> QED BY <1>4, <2>1, <2>2, <2>3, <2>4, <2>5, <2>6, <2>7, <2>8 DEF Attacher
<1>5. ASSUME NEW t \in Workers, Worker(t) \/ Finish(t)
      PROVE  GateWord'
  <2>1. CASE Boot(t)
    BY <2>1, <1>0, <1>iv DEF Boot
  <2>2. CASE Prepare(t)
    BY <2>2, <1>0, <1>iv DEF Prepare, Cancelled
  <2>3. CASE Ready(t)
    BY <2>3, <1>0, <1>iv DEF Ready
  <2>4. CASE WaitStart(t)
    BY <2>4, <1>0, <1>iv DEF WaitStart
  <2>5. CASE Run(t)
    BY <2>5, <1>0, <1>iv DEF Run
  <2>6. CASE Cleanup(t)
    BY <2>6, <1>0, <1>iv DEF Cleanup
  <2>7. CASE Done(t)
    BY <2>7, <1>0, <1>iv DEF Done
  <2>8. CASE Exit(t)
    BY <2>8, <1>0, <1>iv DEF Exit
  <2>9. CASE Finish(t)
    BY <2>9, <1>0, <1>iv DEF Finish
  <2> HIDE DEF Types, Shapes, Shape, Step, At, Goto, Drop, CallLeave,
     countVars, worldVars, threadVars, localVars, Threads, GateWord
  <2> QED BY <1>5, <2>1, <2>2, <2>3, <2>4, <2>5, <2>6, <2>7, <2>8, <2>9
     DEF Worker
<1>6. ASSUME NEW k \in Gates, Gate \/ GateBegin(k)
      PROVE  GateWord'
  <2>1. CASE GateBegin(k)
    BY <2>1, <1>0, <1>iv DEF GateBegin
  <2>2. CASE GateRead
    BY <2>2, <1>0, <1>iv, GateGoes DEF GateRead
  <2>3. CASE GateSet
    BY <2>3, <1>0, <1>iv DEF GateSet
  <2>4. CASE GateLeave
    BY <2>4, <1>0, <1>iv DEF GateLeave
  <2> HIDE DEF Types, Shapes, Shape, Step, At, Goto, Drop, CallLeave,
     countVars, worldVars, threadVars, localVars, Threads, GateWord
  <2> QED BY <1>6, <2>1, <2>2, <2>3, <2>4 DEF Gate
<1>7. ASSUME Closer \/ Close PROVE GateWord'
  <2>1. CASE Close
    BY <2>1, <1>0, <1>iv DEF Close
  <2>2. CASE Early
    BY <2>2, <1>0, <1>iv DEF Early
  <2>3. CASE WaitEntering
    BY <2>3, <1>0, <1>iv DEF WaitEntering
  <2>4. CASE Tell
    BY <2>4, <1>0, <1>iv DEF Tell
  <2>5. CASE Drain
    BY <2>5, <1>0, <1>iv DEF Drain
  <2>6. CASE CloseWait
    BY <2>6, <1>0, <1>iv DEF CloseWait
  <2>7. CASE CloseRemove
    BY <2>7, <1>0, <1>iv DEF CloseRemove
  <2>8. CASE NodesDone
    BY <2>8, <1>0, <1>iv DEF NodesDone
  <2>9. CASE Free
    BY <2>9, <1>0, <1>iv DEF Free
  <2>10. ASSUME NEW w \in Workers, TakeNode(w) PROVE GateWord'
    BY <2>10, <1>0, <1>iv DEF TakeNode
  <2> HIDE DEF Types, Shapes, Shape, Step, At, Goto, Drop, CallLeave,
     countVars, worldVars, threadVars, localVars, Threads, GateWord
  <2> QED BY <1>7, <2>1, <2>2, <2>3, <2>4, <2>5, <2>6, <2>7, <2>8, <2>9,
     <2>10 DEF Closer
<1>8. ASSUME NEW t \in Threads, NEW w \in Workers, Spawn(t, w) \/ Join(t, w)
      PROVE  GateWord'
  <2>1. CASE Spawn(t, w)
    BY <2>1, <1>0, <1>iv DEF Spawn
  <2>2. CASE Join(t, w)
    BY <2>2, <1>0, <1>iv DEF Join
  <2> HIDE DEF Types, Shapes, Shape, Step, At, Goto, Drop, CallLeave,
     countVars, worldVars, threadVars, localVars, Threads, GateWord
  <2> QED BY <1>8, <2>1, <2>2
<1>9. CASE UNCHANGED vars
  BY <1>9, <1>0, <1>iv DEF vars
<1> HIDE DEF Types, Shapes, Shape, Step, At, Goto, Drop, CallLeave,
   countVars, worldVars, threadVars, localVars, Threads, GateWord
<1> QED
  BY <1>1, <1>2, <1>3, <1>4, <1>5, <1>6, <1>7, <1>8, <1>9
     DEF Next, Internal, Return, Request


(* The newcomers stay outside while the gate of a sweep or of the string     *)
(* reclaimer is set and live has been read as zero behind it.                *)
LEMMA GatedStep ==
  Shapes /\ Lifecycle /\ CountsExact /\ Gated /\ [Next]_vars => Gated'
<1> SUFFICES ASSUME Shapes, Lifecycle, CountsExact, Gated, [Next]_vars
             PROVE  Gated'
  OBVIOUS
<1>a. GateWord /\ GateWord'
  BY GateWordStep DEF Gated, GateWord
<1> DEFINE Behind(v) ==
      pc[Main] \in {"postenter", "held"} /\ gate \in {"gc", "str"} => Outside(v)
<1> SUFFICES ASSUME NEW v \in Others PROVE Behind(v)'
  BY <1>a DEF Gated, GateWord
<1> USE DEF Shapes, Types, Shape, Entrant, Step, At, Goto, Drop, CallLeave,
   countVars, worldVars, threadVars, localVars, Threads, Gates, AdmitPCs,
   SpawnPCs, JoinPCs, ForeignPCs, WorkerPCs, GatePCs, ClosePCs, ArgPCs,
   EntryPCs, FreePCs
<1>0. /\ Main \notin Workers \cup Foreign /\ Workers \cap Foreign = {}
      /\ None \notin {Main} \cup Workers \cup Foreign
  BY ThreadsAssumption
<1>iv. /\ \A p \in Threads : pc[p] = "create" => pc[arg[p]] = "none"
       /\ \A t \in Others : Behind(t)
  BY DEF Lifecycle, Spawns, InSpawn, Created, Gated
<1>b. ~HoldsLive(v) => Outside(v)
  BY AllOutside
<1>c. live = 0 => ~HoldsLive(v)
  BY Nobody
<1> USE DEF Outside, Others, Spawning
<1>1. ASSUME NEW t \in Threads, Admission(t)
      PROVE  Behind(v)'
  <2>1. CASE Publish(t)
    BY <2>1, <1>0, <1>iv, <1>a DEF Publish
  <2>2. CASE Enter(t)
    BY <2>2, <1>0, <1>iv, <1>a DEF Enter
  <2>3. CASE EnterGate(t)
    BY <2>3, <1>0, <1>iv, <1>a DEF EnterGate, Refuse, Spawning
  <2>4. CASE Excl(t)
    BY <2>4, <1>0, <1>iv, <1>a DEF Excl, GateWord, Refuse, Spawning
  <2>5. CASE CountLive(t)
    BY <2>5, <1>0, <1>iv, <1>a DEF CountLive
  <2>6. CASE Recheck(t)
    BY <2>6, <1>0, <1>iv, <1>a DEF Recheck, Spawning
  <2>7. CASE Shut(t)
    BY <2>7, <1>0, <1>iv, <1>a DEF Shut, Spawning
  <2>8. CASE Leave(t)
    BY <2>8, <1>0, <1>iv, <1>a DEF Leave, Spawning
  <2>9. CASE Touch(t)
    BY <2>9, <1>0, <1>iv, <1>a DEF Touch
  <2> HIDE DEF Types, Shapes, Shape, Step, At, Goto, Drop, CallLeave,
     countVars, worldVars, threadVars, localVars, Threads, Behind, Outside
  <2> QED BY <1>1, <2>1, <2>2, <2>3, <2>4, <2>5, <2>6, <2>7, <2>8, <2>9
     DEF Admission
<1>2. ASSUME NEW t \in Threads, Spawner(t)
      PROVE  Behind(v)'
  <2>1. CASE Refused(t)
    BY <2>1, <1>0, <1>iv, <1>a DEF Refused, Unstarted
  <2>2. CASE Create(t)
    BY <2>2, <1>0, <1>iv, <1>a DEF Create, Unstarted, Created
  <2>3. CASE WaitReady(t)
    BY <2>3, <1>0, <1>iv, <1>a DEF WaitReady
  <2>4. CASE Release(t)
    BY <2>4, <1>0, <1>iv, <1>a DEF Release
  <2>5. CASE WaitRun(t)
    BY <2>5, <1>0, <1>iv, <1>a DEF WaitRun
  <2>6. CASE Abort(t)
    BY <2>6, <1>0, <1>iv, <1>a DEF Abort
  <2>7. CASE AbortJoin(t)
    BY <2>7, <1>0, <1>iv, <1>a DEF AbortJoin
  <2>8. CASE AbortWait(t)
    BY <2>8, <1>0, <1>iv, <1>a DEF AbortWait
  <2>9. CASE AbortRemove(t)
    BY <2>9, <1>0, <1>iv, <1>a DEF AbortRemove
  <2> HIDE DEF Types, Shapes, Shape, Step, At, Goto, Drop, CallLeave,
     countVars, worldVars, threadVars, localVars, Threads, Behind, Outside
  <2> QED BY <1>2, <2>1, <2>2, <2>3, <2>4, <2>5, <2>6, <2>7, <2>8, <2>9
     DEF Spawner
<1>3. ASSUME NEW t \in Threads, Joiner(t)
      PROVE  Behind(v)'
  <2>1. CASE JoinWait(t)
    BY <2>1, <1>0, <1>iv, <1>a DEF JoinWait
  <2>2. CASE JoinCas(t)
    BY <2>2, <1>0, <1>iv, <1>a DEF JoinCas
  <2>3. CASE JoinOs(t)
    BY <2>3, <1>0, <1>iv, <1>a DEF JoinOs
  <2>4. CASE JoinResults(t)
    BY <2>4, <1>0, <1>iv, <1>a DEF JoinResults
  <2> HIDE DEF Types, Shapes, Shape, Step, At, Goto, Drop, CallLeave,
     countVars, worldVars, threadVars, localVars, Threads, Behind, Outside
  <2> QED BY <1>3, <2>1, <2>2, <2>3, <2>4 DEF Joiner
<1>4. ASSUME NEW t \in Foreign, Attacher(t) \/ Attach(t) \/ Detach(t)
      PROVE  Behind(v)'
  <2>1. CASE Link(t)
    BY <2>1, <1>0, <1>iv, <1>a DEF Link
  <2>2. CASE ClaimState(t)
    BY <2>2, <1>0, <1>iv, <1>a DEF ClaimState
  <2>3. CASE Rooted(t)
    BY <2>3, <1>0, <1>iv, <1>a DEF Rooted
  <2>4. CASE Final(t)
    BY <2>4, <1>0, <1>iv, <1>a DEF Final
  <2>5. CASE Undo(t)
    BY <2>5, <1>0, <1>iv, <1>a DEF Undo
  <2>6. CASE Unenter(t)
    BY <2>6, <1>0, <1>iv, <1>a DEF Unenter
  <2>7. CASE Attach(t)
    BY <2>7, <1>0, <1>iv, <1>a DEF Attach
  <2>8. CASE Detach(t)
    BY <2>8, <1>0, <1>iv, <1>a DEF Detach
  <2> HIDE DEF Types, Shapes, Shape, Step, At, Goto, Drop, CallLeave,
     countVars, worldVars, threadVars, localVars, Threads, Behind, Outside
  <2> QED BY <1>4, <2>1, <2>2, <2>3, <2>4, <2>5, <2>6, <2>7, <2>8 DEF Attacher
<1>5. ASSUME NEW t \in Workers, Worker(t) \/ Finish(t)
      PROVE  Behind(v)'
  <2>1. CASE Boot(t)
    BY <2>1, <1>0, <1>iv, <1>a DEF Boot
  <2>2. CASE Prepare(t)
    BY <2>2, <1>0, <1>iv, <1>a DEF Prepare, Cancelled
  <2>3. CASE Ready(t)
    BY <2>3, <1>0, <1>iv, <1>a DEF Ready
  <2>4. CASE WaitStart(t)
    BY <2>4, <1>0, <1>iv, <1>a DEF WaitStart
  <2>5. CASE Run(t)
    BY <2>5, <1>0, <1>iv, <1>a DEF Run
  <2>6. CASE Cleanup(t)
    BY <2>6, <1>0, <1>iv, <1>a DEF Cleanup
  <2>7. CASE Done(t)
    BY <2>7, <1>0, <1>iv, <1>a DEF Done
  <2>8. CASE Exit(t)
    BY <2>8, <1>0, <1>iv, <1>a DEF Exit
  <2>9. CASE Finish(t)
    BY <2>9, <1>0, <1>iv, <1>a DEF Finish
  <2> HIDE DEF Types, Shapes, Shape, Step, At, Goto, Drop, CallLeave,
     countVars, worldVars, threadVars, localVars, Threads, Behind, Outside
  <2> QED BY <1>5, <2>1, <2>2, <2>3, <2>4, <2>5, <2>6, <2>7, <2>8, <2>9
     DEF Worker
<1>6. ASSUME NEW k \in Gates, Gate \/ GateBegin(k)
      PROVE  Behind(v)'
  <2>1. CASE GateBegin(k)
    BY <2>1, <1>0, <1>iv, <1>a DEF GateBegin
  <2>2. CASE GateRead
    BY <2>2, <1>0, <1>iv, <1>a, GateGoes, <1>b, <1>c DEF GateRead, Quiet,
       GateWord
  <2>3. CASE GateSet
    BY <2>3, <1>0, <1>iv, <1>a DEF GateSet, GateWord
  <2>4. CASE GateLeave
    BY <2>4, <1>0, <1>iv, <1>a DEF GateLeave
  <2> HIDE DEF Types, Shapes, Shape, Step, At, Goto, Drop, CallLeave,
     countVars, worldVars, threadVars, localVars, Threads, Behind, Outside
  <2> QED BY <1>6, <2>1, <2>2, <2>3, <2>4 DEF Gate
<1>7. ASSUME Closer \/ Close PROVE Behind(v)'
  <2>1. CASE Close
    BY <2>1, <1>0, <1>iv, <1>a DEF Close
  <2>2. CASE Early
    BY <2>2, <1>0, <1>iv, <1>a DEF Early
  <2>3. CASE WaitEntering
    BY <2>3, <1>0, <1>iv, <1>a DEF WaitEntering
  <2>4. CASE Tell
    BY <2>4, <1>0, <1>iv, <1>a DEF Tell
  <2>5. CASE Drain
    BY <2>5, <1>0, <1>iv, <1>a DEF Drain
  <2>6. CASE CloseWait
    BY <2>6, <1>0, <1>iv, <1>a DEF CloseWait
  <2>7. CASE CloseRemove
    BY <2>7, <1>0, <1>iv, <1>a DEF CloseRemove
  <2>8. CASE NodesDone
    BY <2>8, <1>0, <1>iv, <1>a DEF NodesDone
  <2>9. CASE Free
    BY <2>9, <1>0, <1>iv, <1>a DEF Free
  <2>10. ASSUME NEW w \in Workers, TakeNode(w) PROVE Behind(v)'
    BY <2>10, <1>0, <1>iv, <1>a DEF TakeNode
  <2> HIDE DEF Types, Shapes, Shape, Step, At, Goto, Drop, CallLeave,
     countVars, worldVars, threadVars, localVars, Threads, Behind, Outside
  <2> QED BY <1>7, <2>1, <2>2, <2>3, <2>4, <2>5, <2>6, <2>7, <2>8, <2>9,
     <2>10 DEF Closer
<1>8. ASSUME NEW t \in Threads, NEW w \in Workers, Spawn(t, w) \/ Join(t, w)
      PROVE  Behind(v)'
  <2>1. CASE Spawn(t, w)
    BY <2>1, <1>0, <1>iv, <1>a DEF Spawn
  <2>2. CASE Join(t, w)
    BY <2>2, <1>0, <1>iv, <1>a DEF Join
  <2> HIDE DEF Types, Shapes, Shape, Step, At, Goto, Drop, CallLeave,
     countVars, worldVars, threadVars, localVars, Threads, Behind, Outside
  <2> QED BY <1>8, <2>1, <2>2
<1>9. CASE UNCHANGED vars
  BY <1>9, <1>0, <1>iv, <1>a DEF vars
<1> HIDE DEF Types, Shapes, Shape, Step, At, Goto, Drop, CallLeave,
   countVars, worldVars, threadVars, localVars, Threads, Behind, Outside
<1> QED
  BY <1>1, <1>2, <1>3, <1>4, <1>5, <1>6, <1>7, <1>8, <1>9
     DEF Next, Internal, Return, Request


(* What whoever waits for a worker knows of it stays true.                  *)
LEMMA AwaitsStep ==
  Shapes /\ Lifecycle /\ Closing /\ Joining /\ [Next]_vars
    => \A v \in Threads : Awaits(v)'
<1> SUFFICES ASSUME Shapes, Lifecycle, Closing, Joining, [Next]_vars,
                    NEW v \in Threads
             PROVE  Awaits(v)'
  OBVIOUS
<1> USE DEF Shapes, Types, Shape, Entrant, Step, At, Goto, Drop, CallLeave,
   countVars, worldVars, threadVars, localVars, Threads, Gates, AdmitPCs,
   SpawnPCs, JoinPCs, ForeignPCs, WorkerPCs, GatePCs, ClosePCs, ArgPCs,
   EntryPCs, FreePCs
<1>0. /\ Main \notin Workers \cup Foreign /\ Workers \cap Foreign = {}
      /\ None \notin {Main} \cup Workers \cup Foreign
  BY ThreadsAssumption
<1>iv. /\ \A p \in Threads : Spawns(p) /\ JoinsKnown(p)
       /\ \A w \in Workers : Starts(w)
       /\ \A t \in Threads : Awaits(t)
       /\ \A w \in Workers : ClaimsAlone(w) /\ JoinsOf(w)
       /\ Emptied
  BY DEF Lifecycle, Joining
<1>a. pc[Main] \in {"nodes", "closewait", "closeremove"} =>
        \A t \in Others : arg[t] = None
  BY DEF Closing, Closes, Calm, Walking, Others, Threads
<1> USE DEF Awaits, InSpawn, Spawning, Others
<1>1. ASSUME NEW t \in Threads, Admission(t)
      PROVE  Awaits(v)'
  <2>1. CASE Publish(t)
    BY <2>1, <1>0, <1>iv, <1>a DEF Publish, Spawns, Starts, JoinsKnown,
       Created, ClaimsAlone, Claims, JoinsOf
  <2>2. CASE Enter(t)
    BY <2>2, <1>0, <1>iv, <1>a DEF Enter
  <2>3. CASE EnterGate(t)
    BY <2>3, <1>0, <1>iv, <1>a DEF EnterGate, Refuse, Spawning
  <2>4. CASE Excl(t)
    BY <2>4, <1>0, <1>iv, <1>a DEF Excl, Refuse, Spawning
  <2>5. CASE CountLive(t)
    BY <2>5, <1>0, <1>iv, <1>a DEF CountLive
  <2>6. CASE Recheck(t)
    BY <2>6, <1>0, <1>iv, <1>a DEF Recheck, Spawning
  <2>7. CASE Shut(t)
    BY <2>7, <1>0, <1>iv, <1>a DEF Shut, Spawning
  <2>8. CASE Leave(t)
    BY <2>8, <1>0, <1>iv, <1>a DEF Leave, Spawning
  <2>9. CASE Touch(t)
    BY <2>9, <1>0, <1>iv, <1>a DEF Touch
  <2> HIDE DEF Types, Shapes, Shape, Step, At, Goto, Drop, CallLeave,
     countVars, worldVars, threadVars, localVars, Threads, Awaits, InSpawn
  <2> QED BY <1>1, <2>1, <2>2, <2>3, <2>4, <2>5, <2>6, <2>7, <2>8, <2>9
     DEF Admission
<1>2. ASSUME NEW t \in Threads, Spawner(t)
      PROVE  Awaits(v)'
  <2>1. CASE Refused(t)
    BY <2>1, <1>0, <1>iv, <1>a DEF Refused, Unstarted, Spawns, Starts,
       JoinsKnown, Created, ClaimsAlone, Claims, JoinsOf
  <2>2. CASE Create(t)
    BY <2>2, <1>0, <1>iv, <1>a DEF Create, Unstarted, Created, Spawns,
       Starts, JoinsKnown, Created, ClaimsAlone, Claims, JoinsOf
  <2>3. CASE WaitReady(t)
    BY <2>3, <1>0, <1>iv, <1>a DEF WaitReady, Spawns, Starts, JoinsKnown,
       Created, ClaimsAlone, Claims, JoinsOf
  <2>4. CASE Release(t)
    BY <2>4, <1>0, <1>iv, <1>a DEF Release, Spawns, Starts, JoinsKnown,
       Created, ClaimsAlone, Claims, JoinsOf
  <2>5. CASE WaitRun(t)
    BY <2>5, <1>0, <1>iv, <1>a DEF WaitRun, Spawns, Starts, JoinsKnown,
       Created, ClaimsAlone, Claims, JoinsOf
  <2>6. CASE Abort(t)
    BY <2>6, <1>0, <1>iv, <1>a DEF Abort, Spawns, Starts, JoinsKnown,
       Created, ClaimsAlone, Claims, JoinsOf
  <2>7. CASE AbortJoin(t)
    BY <2>7, <1>0, <1>iv, <1>a DEF AbortJoin, Spawns, Starts, JoinsKnown,
       Created, ClaimsAlone, Claims, JoinsOf
  <2>8. CASE AbortWait(t)
    BY <2>8, <1>0, <1>iv, <1>a DEF AbortWait, Spawns, Starts, JoinsKnown,
       Created, ClaimsAlone, Claims, JoinsOf
  <2>9. CASE AbortRemove(t)
    BY <2>9, <1>0, <1>iv, <1>a DEF AbortRemove, Spawns, Starts, JoinsKnown,
       Created, ClaimsAlone, Claims, JoinsOf
  <2> HIDE DEF Types, Shapes, Shape, Step, At, Goto, Drop, CallLeave,
     countVars, worldVars, threadVars, localVars, Threads, Awaits, InSpawn
  <2> QED BY <1>2, <2>1, <2>2, <2>3, <2>4, <2>5, <2>6, <2>7, <2>8, <2>9
     DEF Spawner
<1>3. ASSUME NEW t \in Threads, Joiner(t)
      PROVE  Awaits(v)'
  <2>1. CASE JoinWait(t)
    BY <2>1, <1>0, <1>iv, <1>a DEF JoinWait
  <2>2. CASE JoinCas(t)
    BY <2>2, <1>0, <1>iv, <1>a DEF JoinCas, Spawns, Starts, JoinsKnown,
       Created, ClaimsAlone, Claims, JoinsOf
  <2>3. CASE JoinOs(t)
    BY <2>3, <1>0, <1>iv, <1>a DEF JoinOs, Spawns, Starts, JoinsKnown,
       Created, ClaimsAlone, Claims, JoinsOf
  <2>4. CASE JoinResults(t)
    BY <2>4, <1>0, <1>iv, <1>a DEF JoinResults, Spawns, Starts, JoinsKnown,
       Created, ClaimsAlone, Claims, JoinsOf
  <2> HIDE DEF Types, Shapes, Shape, Step, At, Goto, Drop, CallLeave,
     countVars, worldVars, threadVars, localVars, Threads, Awaits, InSpawn
  <2> QED BY <1>3, <2>1, <2>2, <2>3, <2>4 DEF Joiner
<1>4. ASSUME NEW t \in Foreign, Attacher(t) \/ Attach(t) \/ Detach(t)
      PROVE  Awaits(v)'
  <2>1. CASE Link(t)
    BY <2>1, <1>0, <1>iv, <1>a DEF Link
  <2>2. CASE ClaimState(t)
    BY <2>2, <1>0, <1>iv, <1>a DEF ClaimState
  <2>3. CASE Rooted(t)
    BY <2>3, <1>0, <1>iv, <1>a DEF Rooted
  <2>4. CASE Final(t)
    BY <2>4, <1>0, <1>iv, <1>a DEF Final
  <2>5. CASE Undo(t)
    BY <2>5, <1>0, <1>iv, <1>a DEF Undo
  <2>6. CASE Unenter(t)
    BY <2>6, <1>0, <1>iv, <1>a DEF Unenter
  <2>7. CASE Attach(t)
    BY <2>7, <1>0, <1>iv, <1>a DEF Attach
  <2>8. CASE Detach(t)
    BY <2>8, <1>0, <1>iv, <1>a DEF Detach
  <2> HIDE DEF Types, Shapes, Shape, Step, At, Goto, Drop, CallLeave,
     countVars, worldVars, threadVars, localVars, Threads, Awaits, InSpawn
  <2> QED BY <1>4, <2>1, <2>2, <2>3, <2>4, <2>5, <2>6, <2>7, <2>8 DEF Attacher
<1>5. ASSUME NEW t \in Workers, Worker(t) \/ Finish(t)
      PROVE  Awaits(v)'
  <2>1. CASE Boot(t)
    BY <2>1, <1>0, <1>iv, <1>a DEF Boot
  <2>2. CASE Prepare(t)
    BY <2>2, <1>0, <1>iv, <1>a DEF Prepare, Cancelled
  <2>3. CASE Ready(t)
    BY <2>3, <1>0, <1>iv, <1>a DEF Ready
  <2>4. CASE WaitStart(t)
    BY <2>4, <1>0, <1>iv, <1>a DEF WaitStart
  <2>5. CASE Run(t)
    BY <2>5, <1>0, <1>iv, <1>a DEF Run
  <2>6. CASE Cleanup(t)
    BY <2>6, <1>0, <1>iv, <1>a DEF Cleanup
  <2>7. CASE Done(t)
    BY <2>7, <1>0, <1>iv, <1>a DEF Done
  <2>8. CASE Exit(t)
    BY <2>8, <1>0, <1>iv, <1>a DEF Exit
  <2>9. CASE Finish(t)
    BY <2>9, <1>0, <1>iv, <1>a DEF Finish
  <2> HIDE DEF Types, Shapes, Shape, Step, At, Goto, Drop, CallLeave,
     countVars, worldVars, threadVars, localVars, Threads, Awaits, InSpawn
  <2> QED BY <1>5, <2>1, <2>2, <2>3, <2>4, <2>5, <2>6, <2>7, <2>8, <2>9
     DEF Worker
<1>6. ASSUME NEW k \in Gates, Gate \/ GateBegin(k)
      PROVE  Awaits(v)'
  <2>1. CASE GateBegin(k)
    BY <2>1, <1>0, <1>iv, <1>a DEF GateBegin
  <2>2. CASE GateRead
    BY <2>2, <1>0, <1>iv, <1>a, GateGoes DEF GateRead
  <2>3. CASE GateSet
    BY <2>3, <1>0, <1>iv, <1>a DEF GateSet
  <2>4. CASE GateLeave
    BY <2>4, <1>0, <1>iv, <1>a DEF GateLeave
  <2> HIDE DEF Types, Shapes, Shape, Step, At, Goto, Drop, CallLeave,
     countVars, worldVars, threadVars, localVars, Threads, Awaits, InSpawn
  <2> QED BY <1>6, <2>1, <2>2, <2>3, <2>4 DEF Gate
<1>7. ASSUME Closer \/ Close PROVE Awaits(v)'
  <2>1. CASE Close
    BY <2>1, <1>0, <1>iv, <1>a DEF Close
  <2>2. CASE Early
    BY <2>2, <1>0, <1>iv, <1>a DEF Early
  <2>3. CASE WaitEntering
    BY <2>3, <1>0, <1>iv, <1>a DEF WaitEntering
  <2>4. CASE Tell
    BY <2>4, <1>0, <1>iv, <1>a DEF Tell
  <2>5. CASE Drain
    BY <2>5, <1>0, <1>iv, <1>a DEF Drain
  <2>6. CASE CloseWait
    BY <2>6, <1>0, <1>iv, <1>a DEF CloseWait, Spawns, Starts, JoinsKnown,
       Created, ClaimsAlone, Claims, JoinsOf
  <2>7. CASE CloseRemove
    BY <2>7, <1>0, <1>iv, <1>a DEF CloseRemove
  <2>8. CASE NodesDone
    BY <2>8, <1>0, <1>iv, <1>a DEF NodesDone
  <2>9. CASE Free
    BY <2>9, <1>0, <1>iv, <1>a DEF Free
  <2>10. ASSUME NEW w \in Workers, TakeNode(w) PROVE Awaits(v)'
    BY <2>10, <1>0, <1>iv, <1>a DEF TakeNode, Spawns, Starts, JoinsKnown,
       Created, ClaimsAlone, Claims, JoinsOf
  <2> HIDE DEF Types, Shapes, Shape, Step, At, Goto, Drop, CallLeave,
     countVars, worldVars, threadVars, localVars, Threads, Awaits, InSpawn
  <2> QED BY <1>7, <2>1, <2>2, <2>3, <2>4, <2>5, <2>6, <2>7, <2>8, <2>9,
     <2>10 DEF Closer
<1>8. ASSUME NEW t \in Threads, NEW w \in Workers, Spawn(t, w) \/ Join(t, w)
      PROVE  Awaits(v)'
  <2>1. CASE Spawn(t, w)
    BY <2>1, <1>0, <1>iv, <1>a DEF Spawn, Spawns, Starts, JoinsKnown,
       Created, ClaimsAlone, Claims, JoinsOf
  <2>2. CASE Join(t, w)
    BY <2>2, <1>0, <1>iv, <1>a DEF Join
  <2> HIDE DEF Types, Shapes, Shape, Step, At, Goto, Drop, CallLeave,
     countVars, worldVars, threadVars, localVars, Threads, Awaits, InSpawn
  <2> QED BY <1>8, <2>1, <2>2
<1>9. CASE UNCHANGED vars
  BY <1>9, <1>0, <1>iv, <1>a DEF vars
<1> HIDE DEF Types, Shapes, Shape, Step, At, Goto, Drop, CallLeave,
   countVars, worldVars, threadVars, localVars, Threads, Awaits, InSpawn
<1> QED
  BY <1>1, <1>2, <1>3, <1>4, <1>5, <1>6, <1>7, <1>8, <1>9
     DEF Next, Internal, Return, Request


(* Two threads never hold a claim on the same worker.                       *)
LEMMA ClaimsAloneStep ==
  Shapes /\ Lifecycle /\ Closing /\ Joining /\ [Next]_vars
    => \A v \in Workers : ClaimsAlone(v)'
<1> SUFFICES ASSUME Shapes, Lifecycle, Closing, Joining, [Next]_vars,
                    NEW v \in Workers
             PROVE  ClaimsAlone(v)'
  OBVIOUS
<1> USE DEF Shapes, Types, Shape, Entrant, Step, At, Goto, Drop, CallLeave,
   countVars, worldVars, threadVars, localVars, Threads, Gates, AdmitPCs,
   SpawnPCs, JoinPCs, ForeignPCs, WorkerPCs, GatePCs, ClosePCs, ArgPCs,
   EntryPCs, FreePCs
<1>0. /\ Main \notin Workers \cup Foreign /\ Workers \cap Foreign = {}
      /\ None \notin {Main} \cup Workers \cup Foreign
  BY ThreadsAssumption
<1>iv. /\ \A p \in Threads : Spawns(p) /\ JoinsKnown(p)
       /\ \A w \in Workers : Starts(w)
       /\ \A t \in Threads : Awaits(t)
       /\ \A w \in Workers : ClaimsAlone(w) /\ JoinsOf(w)
       /\ Emptied
  BY DEF Lifecycle, Joining
<1>a. pc[Main] \in {"nodes", "closewait", "closeremove"} =>
        \A t \in Others : arg[t] = None
  BY DEF Closing, Closes, Calm, Walking, Others, Threads
<1> USE DEF ClaimsAlone, Claims, Spawning, Others
<1>1. ASSUME NEW t \in Threads, Admission(t)
      PROVE  ClaimsAlone(v)'
  <2>1. CASE Publish(t)
    BY <2>1, <1>0, <1>iv, <1>a DEF Publish, Spawns, JoinsKnown, Awaits,
       InSpawn, Created, JoinsOf
  <2>2. CASE Enter(t)
    BY <2>2, <1>0, <1>iv, <1>a DEF Enter
  <2>3. CASE EnterGate(t)
    BY <2>3, <1>0, <1>iv, <1>a DEF EnterGate, Refuse, Spawning
  <2>4. CASE Excl(t)
    BY <2>4, <1>0, <1>iv, <1>a DEF Excl, Refuse, Spawning
  <2>5. CASE CountLive(t)
    BY <2>5, <1>0, <1>iv, <1>a DEF CountLive
  <2>6. CASE Recheck(t)
    BY <2>6, <1>0, <1>iv, <1>a DEF Recheck, Spawning
  <2>7. CASE Shut(t)
    BY <2>7, <1>0, <1>iv, <1>a DEF Shut, Spawning
  <2>8. CASE Leave(t)
    BY <2>8, <1>0, <1>iv, <1>a DEF Leave, Spawning
  <2>9. CASE Touch(t)
    BY <2>9, <1>0, <1>iv, <1>a DEF Touch
  <2> HIDE DEF Types, Shapes, Shape, Step, At, Goto, Drop, CallLeave,
     countVars, worldVars, threadVars, localVars, Threads, ClaimsAlone, Claims
  <2> QED BY <1>1, <2>1, <2>2, <2>3, <2>4, <2>5, <2>6, <2>7, <2>8, <2>9
     DEF Admission
<1>2. ASSUME NEW t \in Threads, Spawner(t)
      PROVE  ClaimsAlone(v)'
  <2>1. CASE Refused(t)
    BY <2>1, <1>0, <1>iv, <1>a DEF Refused, Unstarted, Spawns, JoinsKnown,
       Awaits, InSpawn, Created, JoinsOf
  <2>2. CASE Create(t)
    BY <2>2, <1>0, <1>iv, <1>a DEF Create, Unstarted, Created, Spawns,
       JoinsKnown, Awaits, InSpawn, Created, JoinsOf
  <2>3. CASE WaitReady(t)
    BY <2>3, <1>0, <1>iv, <1>a DEF WaitReady, Spawns, JoinsKnown, Awaits,
       InSpawn, Created, JoinsOf
  <2>4. CASE Release(t)
    BY <2>4, <1>0, <1>iv, <1>a DEF Release, Spawns, JoinsKnown, Awaits,
       InSpawn, Created, JoinsOf
  <2>5. CASE WaitRun(t)
    BY <2>5, <1>0, <1>iv, <1>a DEF WaitRun, Spawns, JoinsKnown, Awaits,
       InSpawn, Created, JoinsOf
  <2>6. CASE Abort(t)
    BY <2>6, <1>0, <1>iv, <1>a DEF Abort, Spawns, JoinsKnown, Awaits,
       InSpawn, Created, JoinsOf
  <2>7. CASE AbortJoin(t)
    BY <2>7, <1>0, <1>iv, <1>a DEF AbortJoin, Spawns, JoinsKnown, Awaits,
       InSpawn, Created, JoinsOf
  <2>8. CASE AbortWait(t)
    BY <2>8, <1>0, <1>iv, <1>a DEF AbortWait, Spawns, JoinsKnown, Awaits,
       InSpawn, Created, JoinsOf
  <2>9. CASE AbortRemove(t)
    BY <2>9, <1>0, <1>iv, <1>a DEF AbortRemove, Spawns, JoinsKnown, Awaits,
       InSpawn, Created, JoinsOf
  <2> HIDE DEF Types, Shapes, Shape, Step, At, Goto, Drop, CallLeave,
     countVars, worldVars, threadVars, localVars, Threads, ClaimsAlone, Claims
  <2> QED BY <1>2, <2>1, <2>2, <2>3, <2>4, <2>5, <2>6, <2>7, <2>8, <2>9
     DEF Spawner
<1>3. ASSUME NEW t \in Threads, Joiner(t)
      PROVE  ClaimsAlone(v)'
  <2>1. CASE JoinWait(t)
    BY <2>1, <1>0, <1>iv, <1>a DEF JoinWait
  <2>2. CASE JoinCas(t)
    BY <2>2, <1>0, <1>iv, <1>a DEF JoinCas, Spawns, JoinsKnown, Awaits,
       InSpawn, Created, JoinsOf
  <2>3. CASE JoinOs(t)
    BY <2>3, <1>0, <1>iv, <1>a DEF JoinOs, Spawns, JoinsKnown, Awaits,
       InSpawn, Created, JoinsOf
  <2>4. CASE JoinResults(t)
    BY <2>4, <1>0, <1>iv, <1>a DEF JoinResults, Spawns, JoinsKnown, Awaits,
       InSpawn, Created, JoinsOf
  <2> HIDE DEF Types, Shapes, Shape, Step, At, Goto, Drop, CallLeave,
     countVars, worldVars, threadVars, localVars, Threads, ClaimsAlone, Claims
  <2> QED BY <1>3, <2>1, <2>2, <2>3, <2>4 DEF Joiner
<1>4. ASSUME NEW t \in Foreign, Attacher(t) \/ Attach(t) \/ Detach(t)
      PROVE  ClaimsAlone(v)'
  <2>1. CASE Link(t)
    BY <2>1, <1>0, <1>iv, <1>a DEF Link
  <2>2. CASE ClaimState(t)
    BY <2>2, <1>0, <1>iv, <1>a DEF ClaimState
  <2>3. CASE Rooted(t)
    BY <2>3, <1>0, <1>iv, <1>a DEF Rooted
  <2>4. CASE Final(t)
    BY <2>4, <1>0, <1>iv, <1>a DEF Final
  <2>5. CASE Undo(t)
    BY <2>5, <1>0, <1>iv, <1>a DEF Undo
  <2>6. CASE Unenter(t)
    BY <2>6, <1>0, <1>iv, <1>a DEF Unenter
  <2>7. CASE Attach(t)
    BY <2>7, <1>0, <1>iv, <1>a DEF Attach
  <2>8. CASE Detach(t)
    BY <2>8, <1>0, <1>iv, <1>a DEF Detach
  <2> HIDE DEF Types, Shapes, Shape, Step, At, Goto, Drop, CallLeave,
     countVars, worldVars, threadVars, localVars, Threads, ClaimsAlone, Claims
  <2> QED BY <1>4, <2>1, <2>2, <2>3, <2>4, <2>5, <2>6, <2>7, <2>8 DEF Attacher
<1>5. ASSUME NEW t \in Workers, Worker(t) \/ Finish(t)
      PROVE  ClaimsAlone(v)'
  <2>1. CASE Boot(t)
    BY <2>1, <1>0, <1>iv, <1>a DEF Boot
  <2>2. CASE Prepare(t)
    BY <2>2, <1>0, <1>iv, <1>a DEF Prepare, Cancelled
  <2>3. CASE Ready(t)
    BY <2>3, <1>0, <1>iv, <1>a DEF Ready
  <2>4. CASE WaitStart(t)
    BY <2>4, <1>0, <1>iv, <1>a DEF WaitStart
  <2>5. CASE Run(t)
    BY <2>5, <1>0, <1>iv, <1>a DEF Run
  <2>6. CASE Cleanup(t)
    BY <2>6, <1>0, <1>iv, <1>a DEF Cleanup
  <2>7. CASE Done(t)
    BY <2>7, <1>0, <1>iv, <1>a DEF Done
  <2>8. CASE Exit(t)
    BY <2>8, <1>0, <1>iv, <1>a DEF Exit
  <2>9. CASE Finish(t)
    BY <2>9, <1>0, <1>iv, <1>a DEF Finish
  <2> HIDE DEF Types, Shapes, Shape, Step, At, Goto, Drop, CallLeave,
     countVars, worldVars, threadVars, localVars, Threads, ClaimsAlone, Claims
  <2> QED BY <1>5, <2>1, <2>2, <2>3, <2>4, <2>5, <2>6, <2>7, <2>8, <2>9
     DEF Worker
<1>6. ASSUME NEW k \in Gates, Gate \/ GateBegin(k)
      PROVE  ClaimsAlone(v)'
  <2>1. CASE GateBegin(k)
    BY <2>1, <1>0, <1>iv, <1>a DEF GateBegin
  <2>2. CASE GateRead
    BY <2>2, <1>0, <1>iv, <1>a, GateGoes DEF GateRead
  <2>3. CASE GateSet
    BY <2>3, <1>0, <1>iv, <1>a DEF GateSet
  <2>4. CASE GateLeave
    BY <2>4, <1>0, <1>iv, <1>a DEF GateLeave
  <2> HIDE DEF Types, Shapes, Shape, Step, At, Goto, Drop, CallLeave,
     countVars, worldVars, threadVars, localVars, Threads, ClaimsAlone, Claims
  <2> QED BY <1>6, <2>1, <2>2, <2>3, <2>4 DEF Gate
<1>7. ASSUME Closer \/ Close PROVE ClaimsAlone(v)'
  <2>1. CASE Close
    BY <2>1, <1>0, <1>iv, <1>a DEF Close
  <2>2. CASE Early
    BY <2>2, <1>0, <1>iv, <1>a DEF Early
  <2>3. CASE WaitEntering
    BY <2>3, <1>0, <1>iv, <1>a DEF WaitEntering
  <2>4. CASE Tell
    BY <2>4, <1>0, <1>iv, <1>a DEF Tell
  <2>5. CASE Drain
    BY <2>5, <1>0, <1>iv, <1>a DEF Drain
  <2>6. CASE CloseWait
    BY <2>6, <1>0, <1>iv, <1>a DEF CloseWait, Spawns, JoinsKnown, Awaits,
       InSpawn, Created, JoinsOf
  <2>7. CASE CloseRemove
    BY <2>7, <1>0, <1>iv, <1>a DEF CloseRemove, Spawns, JoinsKnown, Awaits,
       InSpawn, Created, JoinsOf
  <2>8. CASE NodesDone
    BY <2>8, <1>0, <1>iv, <1>a DEF NodesDone
  <2>9. CASE Free
    BY <2>9, <1>0, <1>iv, <1>a DEF Free
  <2>10. ASSUME NEW w \in Workers, TakeNode(w) PROVE ClaimsAlone(v)'
    BY <2>10, <1>0, <1>iv, <1>a DEF TakeNode, Spawns, JoinsKnown, Awaits,
       InSpawn, Created, JoinsOf
  <2> HIDE DEF Types, Shapes, Shape, Step, At, Goto, Drop, CallLeave,
     countVars, worldVars, threadVars, localVars, Threads, ClaimsAlone, Claims
  <2> QED BY <1>7, <2>1, <2>2, <2>3, <2>4, <2>5, <2>6, <2>7, <2>8, <2>9,
     <2>10 DEF Closer
<1>8. ASSUME NEW t \in Threads, NEW w \in Workers, Spawn(t, w) \/ Join(t, w)
      PROVE  ClaimsAlone(v)'
  <2>1. CASE Spawn(t, w)
    BY <2>1, <1>0, <1>iv, <1>a DEF Spawn
  <2>2. CASE Join(t, w)
    BY <2>2, <1>0, <1>iv, <1>a DEF Join
  <2> HIDE DEF Types, Shapes, Shape, Step, At, Goto, Drop, CallLeave,
     countVars, worldVars, threadVars, localVars, Threads, ClaimsAlone, Claims
  <2> QED BY <1>8, <2>1, <2>2
<1>9. CASE UNCHANGED vars
  BY <1>9, <1>0, <1>iv, <1>a DEF vars
<1> HIDE DEF Types, Shapes, Shape, Step, At, Goto, Drop, CallLeave,
   countVars, worldVars, threadVars, localVars, Threads, ClaimsAlone, Claims
<1> QED
  BY <1>1, <1>2, <1>3, <1>4, <1>5, <1>6, <1>7, <1>8, <1>9
     DEF Next, Internal, Return, Request


(* Whoever is marked as joined is joined in the end, before its node goes.  *)
LEMMA JoinsOfStep ==
  Shapes /\ Lifecycle /\ Closing /\ Joining /\ [Next]_vars
    => \A v \in Workers : JoinsOf(v)'
<1> SUFFICES ASSUME Shapes, Lifecycle, Closing, Joining, [Next]_vars,
                    NEW v \in Workers
             PROVE  JoinsOf(v)'
  OBVIOUS
<1> USE DEF Shapes, Types, Shape, Entrant, Step, At, Goto, Drop, CallLeave,
   countVars, worldVars, threadVars, localVars, Threads, Gates, AdmitPCs,
   SpawnPCs, JoinPCs, ForeignPCs, WorkerPCs, GatePCs, ClosePCs, ArgPCs,
   EntryPCs, FreePCs
<1>0. /\ Main \notin Workers \cup Foreign /\ Workers \cap Foreign = {}
      /\ None \notin {Main} \cup Workers \cup Foreign
  BY ThreadsAssumption
<1>iv. /\ \A p \in Threads : Spawns(p) /\ JoinsKnown(p)
       /\ \A w \in Workers : Starts(w)
       /\ \A t \in Threads : Awaits(t)
       /\ \A w \in Workers : ClaimsAlone(w) /\ JoinsOf(w)
       /\ Emptied
  BY DEF Lifecycle, Joining
<1>a. pc[Main] \in {"nodes", "closewait", "closeremove"} =>
        \A t \in Others : arg[t] = None
  BY DEF Closing, Closes, Calm, Walking, Others, Threads
<1> USE DEF JoinsOf, Claims, Spawning, Others
<1>1. ASSUME NEW t \in Threads, Admission(t)
      PROVE  JoinsOf(v)'
  <2>1. CASE Publish(t)
    BY <2>1, <1>0, <1>iv, <1>a DEF Publish, Spawns, Starts, JoinsKnown,
       Awaits, InSpawn, Created, ClaimsAlone
  <2>2. CASE Enter(t)
    BY <2>2, <1>0, <1>iv, <1>a DEF Enter
  <2>3. CASE EnterGate(t)
    BY <2>3, <1>0, <1>iv, <1>a DEF EnterGate, Refuse, Spawning
  <2>4. CASE Excl(t)
    BY <2>4, <1>0, <1>iv, <1>a DEF Excl, Refuse, Spawning
  <2>5. CASE CountLive(t)
    BY <2>5, <1>0, <1>iv, <1>a DEF CountLive
  <2>6. CASE Recheck(t)
    BY <2>6, <1>0, <1>iv, <1>a DEF Recheck, Spawning
  <2>7. CASE Shut(t)
    BY <2>7, <1>0, <1>iv, <1>a DEF Shut, Spawning
  <2>8. CASE Leave(t)
    BY <2>8, <1>0, <1>iv, <1>a DEF Leave, Spawning
  <2>9. CASE Touch(t)
    BY <2>9, <1>0, <1>iv, <1>a DEF Touch
  <2> HIDE DEF Types, Shapes, Shape, Step, At, Goto, Drop, CallLeave,
     countVars, worldVars, threadVars, localVars, Threads, JoinsOf, Claims
  <2> QED BY <1>1, <2>1, <2>2, <2>3, <2>4, <2>5, <2>6, <2>7, <2>8, <2>9
     DEF Admission
<1>2. ASSUME NEW t \in Threads, Spawner(t)
      PROVE  JoinsOf(v)'
  <2>1. CASE Refused(t)
    BY <2>1, <1>0, <1>iv, <1>a DEF Refused, Unstarted, Spawns, Starts,
       JoinsKnown, Awaits, InSpawn, Created, ClaimsAlone
  <2>2. CASE Create(t)
    BY <2>2, <1>0, <1>iv, <1>a DEF Create, Unstarted, Created, Spawns,
       Starts, JoinsKnown, Awaits, InSpawn, Created, ClaimsAlone
  <2>3. CASE WaitReady(t)
    BY <2>3, <1>0, <1>iv, <1>a DEF WaitReady, Spawns, Starts, JoinsKnown,
       Awaits, InSpawn, Created, ClaimsAlone
  <2>4. CASE Release(t)
    BY <2>4, <1>0, <1>iv, <1>a DEF Release, Spawns, Starts, JoinsKnown,
       Awaits, InSpawn, Created, ClaimsAlone
  <2>5. CASE WaitRun(t)
    BY <2>5, <1>0, <1>iv, <1>a DEF WaitRun, Spawns, Starts, JoinsKnown,
       Awaits, InSpawn, Created, ClaimsAlone
  <2>6. CASE Abort(t)
    BY <2>6, <1>0, <1>iv, <1>a DEF Abort, Spawns, Starts, JoinsKnown,
       Awaits, InSpawn, Created, ClaimsAlone
  <2>7. CASE AbortJoin(t)
    BY <2>7, <1>0, <1>iv, <1>a DEF AbortJoin, Spawns, Starts, JoinsKnown,
       Awaits, InSpawn, Created, ClaimsAlone
  <2>8. CASE AbortWait(t)
    BY <2>8, <1>0, <1>iv, <1>a DEF AbortWait, Spawns, Starts, JoinsKnown,
       Awaits, InSpawn, Created, ClaimsAlone
  <2>9. CASE AbortRemove(t)
    BY <2>9, <1>0, <1>iv, <1>a DEF AbortRemove, Spawns, Starts, JoinsKnown,
       Awaits, InSpawn, Created, ClaimsAlone
  <2> HIDE DEF Types, Shapes, Shape, Step, At, Goto, Drop, CallLeave,
     countVars, worldVars, threadVars, localVars, Threads, JoinsOf, Claims
  <2> QED BY <1>2, <2>1, <2>2, <2>3, <2>4, <2>5, <2>6, <2>7, <2>8, <2>9
     DEF Spawner
<1>3. ASSUME NEW t \in Threads, Joiner(t)
      PROVE  JoinsOf(v)'
  <2>1. CASE JoinWait(t)
    BY <2>1, <1>0, <1>iv, <1>a DEF JoinWait
  <2>2. CASE JoinCas(t)
    BY <2>2, <1>0, <1>iv, <1>a DEF JoinCas, Spawns, Starts, JoinsKnown,
       Awaits, InSpawn, Created, ClaimsAlone
  <2>3. CASE JoinOs(t)
    BY <2>3, <1>0, <1>iv, <1>a DEF JoinOs, Spawns, Starts, JoinsKnown,
       Awaits, InSpawn, Created, ClaimsAlone
  <2>4. CASE JoinResults(t)
    BY <2>4, <1>0, <1>iv, <1>a DEF JoinResults, Spawns, Starts, JoinsKnown,
       Awaits, InSpawn, Created, ClaimsAlone
  <2> HIDE DEF Types, Shapes, Shape, Step, At, Goto, Drop, CallLeave,
     countVars, worldVars, threadVars, localVars, Threads, JoinsOf, Claims
  <2> QED BY <1>3, <2>1, <2>2, <2>3, <2>4 DEF Joiner
<1>4. ASSUME NEW t \in Foreign, Attacher(t) \/ Attach(t) \/ Detach(t)
      PROVE  JoinsOf(v)'
  <2>1. CASE Link(t)
    BY <2>1, <1>0, <1>iv, <1>a DEF Link
  <2>2. CASE ClaimState(t)
    BY <2>2, <1>0, <1>iv, <1>a DEF ClaimState
  <2>3. CASE Rooted(t)
    BY <2>3, <1>0, <1>iv, <1>a DEF Rooted
  <2>4. CASE Final(t)
    BY <2>4, <1>0, <1>iv, <1>a DEF Final
  <2>5. CASE Undo(t)
    BY <2>5, <1>0, <1>iv, <1>a DEF Undo
  <2>6. CASE Unenter(t)
    BY <2>6, <1>0, <1>iv, <1>a DEF Unenter
  <2>7. CASE Attach(t)
    BY <2>7, <1>0, <1>iv, <1>a DEF Attach
  <2>8. CASE Detach(t)
    BY <2>8, <1>0, <1>iv, <1>a DEF Detach
  <2> HIDE DEF Types, Shapes, Shape, Step, At, Goto, Drop, CallLeave,
     countVars, worldVars, threadVars, localVars, Threads, JoinsOf, Claims
  <2> QED BY <1>4, <2>1, <2>2, <2>3, <2>4, <2>5, <2>6, <2>7, <2>8 DEF Attacher
<1>5. ASSUME NEW t \in Workers, Worker(t) \/ Finish(t)
      PROVE  JoinsOf(v)'
  <2>1. CASE Boot(t)
    BY <2>1, <1>0, <1>iv, <1>a DEF Boot
  <2>2. CASE Prepare(t)
    BY <2>2, <1>0, <1>iv, <1>a DEF Prepare, Cancelled
  <2>3. CASE Ready(t)
    BY <2>3, <1>0, <1>iv, <1>a DEF Ready
  <2>4. CASE WaitStart(t)
    BY <2>4, <1>0, <1>iv, <1>a DEF WaitStart
  <2>5. CASE Run(t)
    BY <2>5, <1>0, <1>iv, <1>a DEF Run
  <2>6. CASE Cleanup(t)
    BY <2>6, <1>0, <1>iv, <1>a DEF Cleanup
  <2>7. CASE Done(t)
    BY <2>7, <1>0, <1>iv, <1>a DEF Done
  <2>8. CASE Exit(t)
    BY <2>8, <1>0, <1>iv, <1>a DEF Exit
  <2>9. CASE Finish(t)
    BY <2>9, <1>0, <1>iv, <1>a DEF Finish
  <2> HIDE DEF Types, Shapes, Shape, Step, At, Goto, Drop, CallLeave,
     countVars, worldVars, threadVars, localVars, Threads, JoinsOf, Claims
  <2> QED BY <1>5, <2>1, <2>2, <2>3, <2>4, <2>5, <2>6, <2>7, <2>8, <2>9
     DEF Worker
<1>6. ASSUME NEW k \in Gates, Gate \/ GateBegin(k)
      PROVE  JoinsOf(v)'
  <2>1. CASE GateBegin(k)
    BY <2>1, <1>0, <1>iv, <1>a DEF GateBegin
  <2>2. CASE GateRead
    BY <2>2, <1>0, <1>iv, <1>a, GateGoes DEF GateRead
  <2>3. CASE GateSet
    BY <2>3, <1>0, <1>iv, <1>a DEF GateSet
  <2>4. CASE GateLeave
    BY <2>4, <1>0, <1>iv, <1>a DEF GateLeave
  <2> HIDE DEF Types, Shapes, Shape, Step, At, Goto, Drop, CallLeave,
     countVars, worldVars, threadVars, localVars, Threads, JoinsOf, Claims
  <2> QED BY <1>6, <2>1, <2>2, <2>3, <2>4 DEF Gate
<1>7. ASSUME Closer \/ Close PROVE JoinsOf(v)'
  <2>1. CASE Close
    BY <2>1, <1>0, <1>iv, <1>a DEF Close
  <2>2. CASE Early
    BY <2>2, <1>0, <1>iv, <1>a DEF Early
  <2>3. CASE WaitEntering
    BY <2>3, <1>0, <1>iv, <1>a DEF WaitEntering
  <2>4. CASE Tell
    BY <2>4, <1>0, <1>iv, <1>a DEF Tell
  <2>5. CASE Drain
    BY <2>5, <1>0, <1>iv, <1>a DEF Drain
  <2>6. CASE CloseWait
    BY <2>6, <1>0, <1>iv, <1>a DEF CloseWait, Spawns, Starts, JoinsKnown,
       Awaits, InSpawn, Created, ClaimsAlone
  <2>7. CASE CloseRemove
    BY <2>7, <1>0, <1>iv, <1>a DEF CloseRemove, Spawns, Starts, JoinsKnown,
       Awaits, InSpawn, Created, ClaimsAlone
  <2>8. CASE NodesDone
    BY <2>8, <1>0, <1>iv, <1>a DEF NodesDone
  <2>9. CASE Free
    BY <2>9, <1>0, <1>iv, <1>a DEF Free
  <2>10. ASSUME NEW w \in Workers, TakeNode(w) PROVE JoinsOf(v)'
    BY <2>10, <1>0, <1>iv, <1>a DEF TakeNode, Spawns, Starts, JoinsKnown,
       Awaits, InSpawn, Created, ClaimsAlone
  <2> HIDE DEF Types, Shapes, Shape, Step, At, Goto, Drop, CallLeave,
     countVars, worldVars, threadVars, localVars, Threads, JoinsOf, Claims
  <2> QED BY <1>7, <2>1, <2>2, <2>3, <2>4, <2>5, <2>6, <2>7, <2>8, <2>9,
     <2>10 DEF Closer
<1>8. ASSUME NEW t \in Threads, NEW w \in Workers, Spawn(t, w) \/ Join(t, w)
      PROVE  JoinsOf(v)'
  <2>1. CASE Spawn(t, w)
    BY <2>1, <1>0, <1>iv, <1>a DEF Spawn
  <2>2. CASE Join(t, w)
    BY <2>2, <1>0, <1>iv, <1>a DEF Join
  <2> HIDE DEF Types, Shapes, Shape, Step, At, Goto, Drop, CallLeave,
     countVars, worldVars, threadVars, localVars, Threads, JoinsOf, Claims
  <2> QED BY <1>8, <2>1, <2>2
<1>9. CASE UNCHANGED vars
  BY <1>9, <1>0, <1>iv, <1>a DEF vars
<1> HIDE DEF Types, Shapes, Shape, Step, At, Goto, Drop, CallLeave,
   countVars, worldVars, threadVars, localVars, Threads, JoinsOf, Claims
<1> QED
  BY <1>1, <1>2, <1>3, <1>4, <1>5, <1>6, <1>7, <1>8, <1>9
     DEF Next, Internal, Return, Request


(* An empty list of nodes stays without OS threads once lua_close has begun. *)
LEMMA EmptiedStep ==
  Shapes /\ Lifecycle /\ Closing /\ Joining /\ [Next]_vars
    => Emptied'
<1> SUFFICES ASSUME Shapes, Lifecycle, Closing, Joining, [Next]_vars
             PROVE  Emptied'
  OBVIOUS
<1> USE DEF Shapes, Types, Shape, Entrant, Step, At, Goto, Drop, CallLeave,
   countVars, worldVars, threadVars, localVars, Threads, Gates, AdmitPCs,
   SpawnPCs, JoinPCs, ForeignPCs, WorkerPCs, GatePCs, ClosePCs, ArgPCs,
   EntryPCs, FreePCs
<1>0. /\ Main \notin Workers \cup Foreign /\ Workers \cap Foreign = {}
      /\ None \notin {Main} \cup Workers \cup Foreign
  BY ThreadsAssumption
<1>b. shutdown <=> pc[Main] \in ClosePCs
  BY DEF Closing
<1>iv. /\ \A p \in Threads : Spawns(p) /\ JoinsKnown(p)
       /\ \A w \in Workers : Starts(w)
       /\ \A t \in Threads : Awaits(t)
       /\ \A w \in Workers : ClaimsAlone(w) /\ JoinsOf(w)
       /\ Emptied
  BY DEF Lifecycle, Joining
<1>a. pc[Main] \in {"nodes", "closewait", "closeremove"} =>
        \A t \in Others : arg[t] = None
  BY DEF Closing, Closes, Calm, Walking, Others, Threads
<1> USE DEF Emptied, Spawning, Others
<1>1. ASSUME NEW t \in Threads, Admission(t)
      PROVE  Emptied'
  <2>1. CASE Publish(t)
    BY <2>1, <1>0, <1>iv, <1>a DEF Publish, Spawns, Starts, InSpawn, Created
  <2>2. CASE Enter(t)
    BY <2>2, <1>0, <1>iv, <1>a DEF Enter
  <2>3. CASE EnterGate(t)
    BY <2>3, <1>0, <1>iv, <1>a DEF EnterGate, Refuse, Spawning
  <2>4. CASE Excl(t)
    BY <2>4, <1>0, <1>iv, <1>a DEF Excl, Refuse, Spawning
  <2>5. CASE CountLive(t)
    BY <2>5, <1>0, <1>iv, <1>a DEF CountLive
  <2>6. CASE Recheck(t)
    BY <2>6, <1>0, <1>iv, <1>a DEF Recheck, Spawning
  <2>7. CASE Shut(t)
    BY <2>7, <1>0, <1>iv, <1>a, <1>b DEF Shut, Spawning
  <2>8. CASE Leave(t)
    BY <2>8, <1>0, <1>iv, <1>a DEF Leave, Spawning
  <2>9. CASE Touch(t)
    BY <2>9, <1>0, <1>iv, <1>a DEF Touch
  <2> HIDE DEF Types, Shapes, Shape, Step, At, Goto, Drop, CallLeave,
     countVars, worldVars, threadVars, localVars, Threads, Emptied
  <2> QED BY <1>1, <2>1, <2>2, <2>3, <2>4, <2>5, <2>6, <2>7, <2>8, <2>9
     DEF Admission
<1>2. ASSUME NEW t \in Threads, Spawner(t)
      PROVE  Emptied'
  <2>1. CASE Refused(t)
    BY <2>1, <1>0, <1>iv, <1>a DEF Refused, Unstarted, Spawns, Starts,
       InSpawn, Created
  <2>2. CASE Create(t)
    BY <2>2, <1>0, <1>iv, <1>a DEF Create, Unstarted, Created, Spawns,
       Starts, InSpawn, Created
  <2>3. CASE WaitReady(t)
    BY <2>3, <1>0, <1>iv, <1>a DEF WaitReady, Spawns, Starts, InSpawn, Created
  <2>4. CASE Release(t)
    BY <2>4, <1>0, <1>iv, <1>a DEF Release, Spawns, Starts, InSpawn, Created
  <2>5. CASE WaitRun(t)
    BY <2>5, <1>0, <1>iv, <1>a DEF WaitRun, Spawns, Starts, InSpawn, Created
  <2>6. CASE Abort(t)
    BY <2>6, <1>0, <1>iv, <1>a DEF Abort, Spawns, Starts, InSpawn, Created
  <2>7. CASE AbortJoin(t)
    BY <2>7, <1>0, <1>iv, <1>a DEF AbortJoin, Spawns, Starts, InSpawn, Created
  <2>8. CASE AbortWait(t)
    BY <2>8, <1>0, <1>iv, <1>a DEF AbortWait, Spawns, Starts, InSpawn, Created
  <2>9. CASE AbortRemove(t)
    BY <2>9, <1>0, <1>iv, <1>a DEF AbortRemove, Spawns, Starts, InSpawn, Created
  <2> HIDE DEF Types, Shapes, Shape, Step, At, Goto, Drop, CallLeave,
     countVars, worldVars, threadVars, localVars, Threads, Emptied
  <2> QED BY <1>2, <2>1, <2>2, <2>3, <2>4, <2>5, <2>6, <2>7, <2>8, <2>9
     DEF Spawner
<1>3. ASSUME NEW t \in Threads, Joiner(t)
      PROVE  Emptied'
  <2>1. CASE JoinWait(t)
    BY <2>1, <1>0, <1>iv, <1>a DEF JoinWait
  <2>2. CASE JoinCas(t)
    BY <2>2, <1>0, <1>iv, <1>a DEF JoinCas, Spawns, Starts, InSpawn, Created
  <2>3. CASE JoinOs(t)
    BY <2>3, <1>0, <1>iv, <1>a DEF JoinOs, Spawns, Starts, InSpawn, Created
  <2>4. CASE JoinResults(t)
    BY <2>4, <1>0, <1>iv, <1>a DEF JoinResults, Spawns, Starts, InSpawn, Created
  <2> HIDE DEF Types, Shapes, Shape, Step, At, Goto, Drop, CallLeave,
     countVars, worldVars, threadVars, localVars, Threads, Emptied
  <2> QED BY <1>3, <2>1, <2>2, <2>3, <2>4 DEF Joiner
<1>4. ASSUME NEW t \in Foreign, Attacher(t) \/ Attach(t) \/ Detach(t)
      PROVE  Emptied'
  <2>1. CASE Link(t)
    BY <2>1, <1>0, <1>iv, <1>a DEF Link
  <2>2. CASE ClaimState(t)
    BY <2>2, <1>0, <1>iv, <1>a DEF ClaimState
  <2>3. CASE Rooted(t)
    BY <2>3, <1>0, <1>iv, <1>a DEF Rooted
  <2>4. CASE Final(t)
    BY <2>4, <1>0, <1>iv, <1>a DEF Final
  <2>5. CASE Undo(t)
    BY <2>5, <1>0, <1>iv, <1>a DEF Undo
  <2>6. CASE Unenter(t)
    BY <2>6, <1>0, <1>iv, <1>a DEF Unenter
  <2>7. CASE Attach(t)
    BY <2>7, <1>0, <1>iv, <1>a DEF Attach
  <2>8. CASE Detach(t)
    BY <2>8, <1>0, <1>iv, <1>a DEF Detach
  <2> HIDE DEF Types, Shapes, Shape, Step, At, Goto, Drop, CallLeave,
     countVars, worldVars, threadVars, localVars, Threads, Emptied
  <2> QED BY <1>4, <2>1, <2>2, <2>3, <2>4, <2>5, <2>6, <2>7, <2>8 DEF Attacher
<1>5. ASSUME NEW t \in Workers, Worker(t) \/ Finish(t)
      PROVE  Emptied'
  <2>1. CASE Boot(t)
    BY <2>1, <1>0, <1>iv, <1>a DEF Boot
  <2>2. CASE Prepare(t)
    BY <2>2, <1>0, <1>iv, <1>a DEF Prepare, Cancelled
  <2>3. CASE Ready(t)
    BY <2>3, <1>0, <1>iv, <1>a DEF Ready
  <2>4. CASE WaitStart(t)
    BY <2>4, <1>0, <1>iv, <1>a DEF WaitStart
  <2>5. CASE Run(t)
    BY <2>5, <1>0, <1>iv, <1>a DEF Run
  <2>6. CASE Cleanup(t)
    BY <2>6, <1>0, <1>iv, <1>a DEF Cleanup
  <2>7. CASE Done(t)
    BY <2>7, <1>0, <1>iv, <1>a DEF Done
  <2>8. CASE Exit(t)
    BY <2>8, <1>0, <1>iv, <1>a DEF Exit
  <2>9. CASE Finish(t)
    BY <2>9, <1>0, <1>iv, <1>a DEF Finish
  <2> HIDE DEF Types, Shapes, Shape, Step, At, Goto, Drop, CallLeave,
     countVars, worldVars, threadVars, localVars, Threads, Emptied
  <2> QED BY <1>5, <2>1, <2>2, <2>3, <2>4, <2>5, <2>6, <2>7, <2>8, <2>9
     DEF Worker
<1>6. ASSUME NEW k \in Gates, Gate \/ GateBegin(k)
      PROVE  Emptied'
  <2>1. CASE GateBegin(k)
    BY <2>1, <1>0, <1>iv, <1>a DEF GateBegin
  <2>2. CASE GateRead
    BY <2>2, <1>0, <1>iv, <1>a, GateGoes DEF GateRead
  <2>3. CASE GateSet
    BY <2>3, <1>0, <1>iv, <1>a DEF GateSet
  <2>4. CASE GateLeave
    BY <2>4, <1>0, <1>iv, <1>a DEF GateLeave
  <2> HIDE DEF Types, Shapes, Shape, Step, At, Goto, Drop, CallLeave,
     countVars, worldVars, threadVars, localVars, Threads, Emptied
  <2> QED BY <1>6, <2>1, <2>2, <2>3, <2>4 DEF Gate
<1>7. ASSUME Closer \/ Close PROVE Emptied'
  <2>1. CASE Close
    BY <2>1, <1>0, <1>iv, <1>a DEF Close
  <2>2. CASE Early
    BY <2>2, <1>0, <1>iv, <1>a DEF Early, Spawns, InSpawn, Created
  <2>3. CASE WaitEntering
    BY <2>3, <1>0, <1>iv, <1>a DEF WaitEntering
  <2>4. CASE Tell
    BY <2>4, <1>0, <1>iv, <1>a DEF Tell
  <2>5. CASE Drain
    BY <2>5, <1>0, <1>iv, <1>a DEF Drain
  <2>6. CASE CloseWait
    BY <2>6, <1>0, <1>iv, <1>a DEF CloseWait, Spawns, Starts, InSpawn, Created
  <2>7. CASE CloseRemove
    BY <2>7, <1>0, <1>iv, <1>a DEF CloseRemove, Spawns, Starts, InSpawn, Created
  <2>8. CASE NodesDone
    BY <2>8, <1>0, <1>iv, <1>a DEF NodesDone, Spawns, InSpawn, Created
  <2>9. CASE Free
    BY <2>9, <1>0, <1>iv, <1>a DEF Free
  <2>10. ASSUME NEW w \in Workers, TakeNode(w) PROVE Emptied'
    BY <2>10, <1>0, <1>iv, <1>a DEF TakeNode, Spawns, Starts, InSpawn, Created
  <2> HIDE DEF Types, Shapes, Shape, Step, At, Goto, Drop, CallLeave,
     countVars, worldVars, threadVars, localVars, Threads, Emptied
  <2> QED BY <1>7, <2>1, <2>2, <2>3, <2>4, <2>5, <2>6, <2>7, <2>8, <2>9,
     <2>10 DEF Closer
<1>8. ASSUME NEW t \in Threads, NEW w \in Workers, Spawn(t, w) \/ Join(t, w)
      PROVE  Emptied'
  <2>1. CASE Spawn(t, w)
    BY <2>1, <1>0, <1>iv, <1>a DEF Spawn
  <2>2. CASE Join(t, w)
    BY <2>2, <1>0, <1>iv, <1>a DEF Join
  <2> HIDE DEF Types, Shapes, Shape, Step, At, Goto, Drop, CallLeave,
     countVars, worldVars, threadVars, localVars, Threads, Emptied
  <2> QED BY <1>8, <2>1, <2>2
<1>9. CASE UNCHANGED vars
  BY <1>9, <1>0, <1>iv, <1>a DEF vars
<1> HIDE DEF Types, Shapes, Shape, Step, At, Goto, Drop, CallLeave,
   countVars, worldVars, threadVars, localVars, Threads, Emptied
<1> QED
  BY <1>1, <1>2, <1>3, <1>4, <1>5, <1>6, <1>7, <1>8, <1>9
     DEF Next, Internal, Return, Request


-----------------------------------------------------------------------------
(* The inductive invariant. *)
IInv ==
  /\ Shapes /\ Lifecycle
  /\ CountsExact /\ Bounded
  /\ Closing /\ Gated /\ Joining

(* Nobody is on the way in, or in the world, before the first step.          *)
LEMMA InitIInv == Init => IInv
<1> SUFFICES ASSUME Init PROVE IInv
  OBVIOUS
<1>0. /\ Main \notin Workers \cup Foreign /\ Workers \cap Foreign = {}
      /\ None \notin {Main} \cup Workers \cup Foreign /\ MaxAttach \in Nat
  BY ThreadsAssumption
<1>1. Shapes
  <2>1. Types
    <3>1. pc \in [Threads -> {"run"} \cup AdmitPCs \cup SpawnPCs \cup JoinPCs
               \cup ForeignPCs \cup WorkerPCs \cup GatePCs \cup ClosePCs]
      BY DEF Init, ForeignPCs, WorkerPCs
    <3>2. /\ thState \in
               [Workers -> {"none", "starting", "running", "aborting", "done"}]
          /\ ready \in [Workers -> 0..2] /\ joins \in [Workers -> Nat]
      BY DEF Init
    <3>3. /\ arg \in [Threads -> Workers \cup Gates \cup {None}]
          /\ ret \in
               [Threads -> {"run", "out", "excl", "refused", "undo", "wdone"}]
          /\ uses \in [Foreign -> 0..MaxAttach]
      BY <1>0 DEF Init
    <3>4. /\ {shutdown, active, freed} \subseteq BOOLEAN
          /\ attached \subseteq Threads /\ stop \subseteq Threads
      BY DEF Init, Threads
    <3> QED BY <3>1, <3>2, <3>3, <3>4 DEF Init, Types
  <2>2. ASSUME NEW t \in Threads PROVE Shape(t)
    BY <1>0 DEF Init, Shape, Entrant, Threads, Gates, AdmitPCs, SpawnPCs,
       JoinPCs,
       ForeignPCs, WorkerPCs, GatePCs, ClosePCs, ArgPCs, EntryPCs, FreePCs
  <2> QED BY <2>1, <2>2 DEF Shapes
<1>2. /\ pc[Main] = "run" /\ \A t \in Others : pc[t] \in {"none", "out"}
      /\ \A t \in Threads : arg[t] = None /\ pc[t] \in {"run", "none", "out"}
      /\ \A w \in Workers : pc[w] = "none" /\ thState[w] = "none"
      /\ \A f \in Foreign : pc[f] = "out"
  BY <1>0 DEF Init, Threads, Others
<1>3. Lifecycle
  BY <1>0, <1>2 DEF Init, Lifecycle, Spawns, JoinsKnown, Starts, InSpawn,
     InLua, Created,
     SpawnPCs, JoinPCs, EntryPCs, Threads
<1>4. CountsExact
  <2>1. Entering = {}
    BY <1>2 DEF Entering, HoldsEntering, ForeignPCs, Threads
  <2>2. Living = {}
    BY <1>0, <1>2 DEF Living, HoldsLive, WorkerPCs, Others, Threads, Spawning
  <2>3. Pending = {}
    BY <1>2 DEF Pending, HoldsForWorker, Spawning
  <2>4. entering = 0 /\ live = 0
    BY DEF Init
  <2> QED BY <2>1, <2>2, <2>3, <2>4, FS_EmptySet
       DEF CountsExact, Entering, Living, Pending
<1>5. Bounded
  <2>1. Unborn = {} /\ UsedUp = {}
    BY <1>2 DEF Unborn, UsedUp, InSpawn, SpawnPCs, EntryPCs, Spawning
  <2> QED BY <2>1, FS_EmptySet DEF Bounded
<1>6. Closing
  BY <1>0, <1>2 DEF Init, Closing, Closes, Linked, InLua, InSpawn, Calm,
     Walking,
     HoldsEntering, ClosePCs, SpawnPCs, JoinPCs, EntryPCs, Threads, Others,
     Spawning
<1>7. Gated
  BY <1>2 DEF Init, Gated
<1>8. Joining
  BY <1>0, <1>2 DEF Init, Joining, Awaits, ClaimsAlone, JoinsOf, Emptied,
     Claims, InSpawn,
     SpawnPCs, EntryPCs, Threads, Spawning
<1> QED BY <1>1, <1>3, <1>4, <1>5, <1>6, <1>7, <1>8 DEF IInv

(* Every step keeps the parts, each with the help of those before it.        *)
LEMMA NextIInv == IInv /\ [Next]_vars => IInv'
<1> SUFFICES ASSUME IInv, [Next]_vars PROVE IInv'
  OBVIOUS
<1>1. Shapes'
  BY TypesStep, ShapeStep DEF IInv, Shapes
<1>2. Lifecycle'
  BY StartsStep, SpawnsStep, JoinsKnownStep DEF IInv, Lifecycle
<1>3. CountsExact' /\ Bounded' /\ Gated'
  BY CountStep, BoundedStep, GatedStep DEF IInv
<1>4. Closing'
  <2>1. Settled'
    BY SettledStep DEF IInv, Closing, Settled
  <2> QED BY <2>1, ClosesStep DEF IInv, Closing, Settled
<1>5. Joining'
  BY AwaitsStep, ClaimsAloneStep, JoinsOfStep, EmptiedStep
     DEF IInv, Joining
<1> QED BY <1>1, <1>2, <1>3, <1>4, <1>5 DEF IInv

(* The parts hold in every reachable state. *)
THEOREM ThreadsInvariant == Spec => []IInv
BY InitIInv, NextIInv, PTL DEF Spec


-----------------------------------------------------------------------------
(* Who has a place in live, and who waits to pass one on, are different      *)
(* threads, or stand for different ones: live counts no thread twice.        *)
LEMMA LiveBound == IInv => live <= Cardinality(Threads) /\ live \in Nat
<1> SUFFICES ASSUME IInv PROVE live <= Cardinality(Threads) /\ live \in Nat
  OBVIOUS
<1>0. /\ Main \notin Workers \cup Foreign
      /\ None \notin {Main} \cup Workers \cup Foreign
  BY ThreadsAssumption
<1>1. live = Cardinality(Living) + Cardinality(Pending)
  BY DEF IInv, CountsExact, Living, Pending
<1>2. IsFiniteSet(Unborn) /\ IsFiniteSet(UsedUp)
  BY FiniteThreads, ThreadsAssumption, FS_Subset DEF Unborn, UsedUp
<1>3. Cardinality(Pending) <= Cardinality(Unborn)
  <2>1. Pending \subseteq Unborn
    BY DEF Pending, HoldsForWorker, Unborn, InSpawn, SpawnPCs, EntryPCs, Created
  <2> QED BY <2>1, <1>2, FS_Subset
<1>4. Cardinality(Unborn) <= Cardinality(UsedUp)
  BY DEF IInv, Bounded
<1>5. Living \cap UsedUp = {} /\ Living \cup UsedUp \subseteq Threads
  <2>1. \A w \in Workers : pc[w] = "none" => arg[w] = None
    BY DEF IInv, Shapes, Shape, FreePCs, WorkerPCs, Threads
  <2>2. \A w \in UsedUp : w \notin Living
    BY <2>1, <1>0 DEF Living, HoldsLive, UsedUp, Spawning, WorkerPCs
  <2> QED BY <2>2 DEF Living, UsedUp, Others, Threads
<1>6. Cardinality(Living \cup UsedUp)
        = Cardinality(Living) + Cardinality(UsedUp)
  <2>1. Cardinality(Living \cup UsedUp)
          = Cardinality(Living) + Cardinality(UsedUp)
              - Cardinality(Living \cap UsedUp)
    BY <1>2, FiniteThreads, FS_Union
  <2>2. Cardinality(Living \cap UsedUp) = 0
    BY <1>5, FS_EmptySet
  <2>3. Cardinality(Living) \in Nat /\ Cardinality(UsedUp) \in Nat
    BY <1>2, FiniteThreads, FS_CardinalityType
  <2> QED BY <2>1, <2>2, <2>3
<1>7. Cardinality(Living \cup UsedUp) <= Cardinality(Threads)
  BY <1>5, FiniteThreads, FS_Subset
<1>8. /\ Cardinality(Living) \in Nat /\ Cardinality(Pending) \in Nat
      /\ Cardinality(Unborn) \in Nat /\ Cardinality(UsedUp) \in Nat
      /\ Cardinality(Threads) \in Nat
  BY <1>2, FiniteThreads, FS_CardinalityType
<1> QED BY <1>1, <1>3, <1>4, <1>6, <1>7, <1>8

(* Every variable keeps its type; no counter passes the number of threads.   *)
THEOREM ThreadsTypeCorrect == Spec => []TypeOK
<1>1. IInv => TypeOK
  <2> SUFFICES ASSUME IInv PROVE TypeOK
    OBVIOUS
  <2>1. Types /\ \A w \in Workers : joins[w] \in {0, 1}
    BY DEF IInv, Shapes, Joining, JoinsOf
  <2>2. live \in 0..Cardinality(Threads)
    <3>1. Cardinality(Threads) \in Nat
      BY FiniteThreads, FS_CardinalityType
    <3> QED BY <3>1, LiveBound
  <2>3. entering \in 0..Cardinality(Threads)
    <3>1. entering = Cardinality(Entering) /\ Entering \subseteq Threads
      BY DEF IInv, CountsExact, Entering
    <3>2. Cardinality(Entering) \in Nat /\ Cardinality(Threads) \in Nat
      BY FiniteThreads, FS_CardinalityType
    <3>3. Cardinality(Entering) <= Cardinality(Threads)
      BY <3>1, FiniteThreads, FS_Subset
    <3> QED BY <3>1, <3>2, <3>3
  <2>4. joins \in [Workers -> 0..2]
    BY <2>1 DEF Types
  <2> QED BY <2>1, <2>2, <2>3, <2>4 DEF Types, TypeOK
<1> QED BY <1>1, ThreadsInvariant, PTL

(* mt_entering and mt_live count exactly the threads on their way in and the *)
(* threads in the world, whatever starts fail and whoever is refused.        *)
THEOREM ThreadsCounted == Spec => []CountsExact
<1>1. IInv => CountsExact
  BY DEF IInv
<1> QED BY <1>1, ThreadsInvariant, PTL

(* Behind the gate of the string reclaimer, of the sweep or of setlocale     *)
(* Main is alone.                                                            *)
THEOREM ThreadsGateExclusive == Spec => []GateExclusive
<1>1. IInv => GateExclusive
  BY DEF IInv, Gated, GateExclusive, Outside, Admitted, Spawning
<1> QED BY <1>1, ThreadsInvariant, PTL

(* Each OS thread is joined once at the most, and before g is freed.         *)
THEOREM ThreadsJoinedOnce == Spec => []JoinedOnce
<1>1. IInv => JoinedOnce
  <2> SUFFICES ASSUME IInv, NEW w \in Workers
               PROVE  /\ joins[w] <= 1
                      /\ freed /\ pc[w] # "none"
                           => pc[w] = "gone" /\ joins[w] = 1
    BY DEF JoinedOnce
  <2>1. JoinsOf(w) /\ Emptied
    BY DEF IInv, Joining
  <2> QED BY <2>1 DEF JoinsOf, Emptied
<1> QED BY <1>1, ThreadsInvariant, PTL

(* A worker runs its function only when its spawner has released it.         *)
THEOREM ThreadsStartReleased == Spec => []AbortedNeverRuns
<1>1. IInv => AbortedNeverRuns
  BY DEF IInv, Lifecycle, Starts, InLua, AbortedNeverRuns
<1> QED BY <1>1, ThreadsInvariant, PTL

(* Whoever runs Lua behind the stop handshake of lua_close has been told, and *)
(* nobody does when it walks the nodes.                                      *)
THEOREM ThreadsWorldStops == Spec => []WorldStops
<1>1. IInv => WorldStops
  <2> SUFFICES ASSUME IInv PROVE WorldStops
    OBVIOUS
  <2>1. \A t \in Others : Closes(t) /\ t \in Threads
    BY DEF IInv, Closing, Others, Threads
  <2> QED BY <2>1 DEF WorldStops, Closes, InLua, Calm, Walking
<1> QED BY <1>1, ThreadsInvariant, PTL
=============================================================================
