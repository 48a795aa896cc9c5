------------------------- MODULE ThreadsCountProofs -------------------------
(***************************************************************************)
(* Proofs about Threads, first half: where each thread can be, how far a    *)
(* worker can be while its spawner is in the call, and how mt_entering and  *)
(* mt_live move, for any finite sets of workers and of foreign threads and  *)
(* any number of attachments.  ThreadsProofs goes on from here.             *)
(***************************************************************************)
EXTENDS Threads, FiniteSetTheorems, TLAPS

(* The variables, without the bounds of the counters. *)
Types ==
  /\ {shutdown, active, freed} \subseteq BOOLEAN
  /\ entering \in Int /\ live \in Int
  /\ gate \in Gates \cup {"none"}
  /\ attached \subseteq Threads /\ stop \subseteq Threads
  /\ nodes \subseteq Workers /\ joined \subseteq Workers
  /\ known \subseteq Workers
  /\ thState \in
       [Workers -> {"none", "starting", "running", "aborting", "done"}]
  /\ ready \in [Workers -> 0..2]
  /\ joins \in [Workers -> Nat]
  /\ pc \in [Threads -> {"run"} \cup AdmitPCs \cup SpawnPCs \cup JoinPCs
               \cup ForeignPCs \cup WorkerPCs \cup GatePCs \cup ClosePCs]
  /\ arg \in [Threads -> Workers \cup Gates \cup {None}]
  /\ ret \in [Threads -> {"run", "out", "excl", "refused", "undo", "wdone"}]
  /\ uses \in [Foreign -> 0..MaxAttach]

(* Where arg is a worker, where an entrant is, where arg is empty. *)
ArgPCs ==
  SpawnPCs \cup JoinPCs \cup {"publish", "enter", "closewait", "closeremove"}
EntryPCs == {"gate", "excl", "live", "recheck", "shut"}
FreePCs == {"run"} \cup ForeignPCs \cup WorkerPCs
             \cup (ClosePCs \ {"closewait", "closeremove"})

(* An entrant: a spawner for its worker, or a foreign thread for itself. *)
Entrant(t) == arg[t] \in Workers \/ (t \in Foreign /\ arg[t] = None)

(* Which steps are whose, and what arg and ret hold at each.               *)
Shape(t) ==
  /\ t = Main => pc[t] \notin ForeignPCs \cup WorkerPCs
  /\ t \in Workers => pc[t] \notin ForeignPCs \cup GatePCs \cup ClosePCs
  /\ t \in Foreign => pc[t] \notin WorkerPCs \cup GatePCs \cup ClosePCs
  /\ pc[t] \in ArgPCs => arg[t] \in Workers
  /\ pc[t] \in GatePCs => arg[t] \in Gates
  /\ pc[t] \in EntryPCs => Entrant(t)
  /\ pc[t] \in FreePCs => arg[t] = None
  /\ pc[t] \in {"leave", "touch"} =>
       /\ ret[t] = "excl" => Entrant(t)
       /\ ret[t] = "refused" => arg[t] \in Workers
       /\ ret[t] \in {"undo", "out"} => t \in Foreign /\ arg[t] = None
       /\ ret[t] = "run" => arg[t] = None
       /\ ret[t] = "wdone" => t \in Workers /\ arg[t] = None

Shapes == Types /\ \A t \in Threads : Shape(t)

(* p is in threading_spawn_core, from the live node to the return. *)
InSpawn(p) ==
  \/ pc[p] \in SpawnPCs \cup {"publish", "enter"}
  \/ pc[p] \in EntryPCs \cup {"leave", "touch"} /\ Spawning(p)

(* The steps of a spawner after pthread_create. *)
Created == {"waitready", "release", "waitrun", "abort", "abortjoin",
            "abortwait", "abortremove"}

(* t is somewhere in the execution of Lua code. *)
InLua(t) ==
  \/ pc[t] = "run" \/ pc[t] \in JoinPCs \/ InSpawn(t)
  \/ pc[t] \in {"leave", "touch"} /\ ret[t] = "run"

(* How far a worker can be while its spawner is still in the call. *)
Spawns(p) ==
  LET w == arg[p] IN
  InSpawn(p) =>
    /\ \A q \in Threads : InSpawn(q) /\ arg[q] = w => q = p
    /\ pc[p] = "publish" => thState[w] = "none"
    /\ pc[p] \notin Created => pc[w] = "none" /\ w \notin joined
    /\ pc[p] \notin Created \cup {"publish"} =>
         thState[w] = "starting" /\ w \in nodes
    /\ pc[p] \in Created => pc[w] # "none"
    /\ pc[p] \in Created \ {"waitrun"} =>
         thState[w] \notin {"none", "running"} /\ w \notin known
    /\ pc[p] = "waitrun" => thState[w] \in {"running", "done"}

(* What the thread state says of where the worker is. *)
Starts(w) ==
  /\ thState[w] = "none" => /\ pc[w] = "none"
                            /\ w \notin nodes \cup known \cup joined
  /\ pc[w] = "none" => /\ ready[w] = 0 /\ w \notin known
                       /\ thState[w] \in {"none", "starting", "done"}
  /\ pc[w] = "wshut" \/ InLua(w) => thState[w] = "running"
  /\ pc[w] \in {"wexit", "gone"} => thState[w] = "done"
  /\ pc[w] \notin {"none", "wexit", "gone"} => thState[w] # "done"
  /\ ready[w] = 2 \/ w \in known => thState[w] \in {"running", "done"}

(* Whom the program can join, and whom a joiner or lua_close waits for. *)
JoinsKnown(t) ==
  /\ pc[t] \in JoinPCs => arg[t] \in known
  /\ pc[t] \in JoinPCs \ {"joinwait"} => thState[arg[t]] = "done"
  /\ pc[t] \in {"closewait", "closeremove"} => thState[arg[t]] = "done"

Lifecycle ==
  /\ \A p \in Threads : Spawns(p) /\ JoinsKnown(p)
  /\ \A w \in Workers : Starts(w)

(* Whom mt_entering and mt_live count. *)
Entering == {t \in Threads : HoldsEntering(t)}
Living == {t \in Others : HoldsLive(t)}
Pending == {t \in Threads : HoldsForWorker(t)}

(* Spawners whose worker has no OS thread, and the workers they used up. *)
Unborn ==
  {t \in Threads : \/ InSpawn(t) /\ pc[t] \notin Created \cup {"publish"}
                   \/ pc[t] = "leave" /\ ret[t] = "run"}
UsedUp == {w \in Workers : pc[w] = "none" /\ thState[w] # "none"}
Bounded == Cardinality(Unborn) <= Cardinality(UsedUp)

-----------------------------------------------------------------------------
(* Where the reads of a gate take Main. *)
LEMMA GateGoes ==
  /\ DOMAIN GateNext =
       {"pre", "prelive", "preenter", "post", "postlive", "postenter"}
  /\ GateNext["pre"] = "prelive" /\ GateNext["prelive"] = "preenter"
  /\ GateNext["preenter"] = "set" /\ GateNext["post"] = "postlive"
  /\ GateNext["postlive"] = "postenter" /\ GateNext["postenter"] = "held"
BY DEF GateNext

(* The variables keep their types.                                          *)
LEMMA TypesStep == Shapes /\ [Next]_vars => Types'
<1> SUFFICES ASSUME Shapes, [Next]_vars PROVE Types'
  OBVIOUS
<1>0. /\ \A t \in Threads : pc[t] \in ArgPCs => arg[t] \in Workers
      /\ pc[Main] \in GatePCs => arg[Main] \in Gates
  BY DEF Shapes, Shape, Threads
<1> USE DEF Shapes, Types, Step, At, Goto, Drop, CallLeave, countVars,
   worldVars, threadVars, localVars, Threads, Gates, AdmitPCs, SpawnPCs,
   JoinPCs, ForeignPCs, WorkerPCs, GatePCs, ClosePCs, ArgPCs
<1>1. ASSUME NEW t \in Threads, Admission(t)
      PROVE  Types'
  <2>1. CASE Publish(t)
    BY <2>1, <1>0 DEF Publish
  <2>2. CASE Enter(t)
    BY <2>2 DEF Enter
  <2>3. CASE EnterGate(t)
    BY <2>3 DEF EnterGate, Refuse
  <2>4. CASE Excl(t)
    <3>1. CASE shutdown /\ Spawning(t)
      BY <2>4, <3>1 DEF Excl, Refuse
    <3>2. CASE shutdown /\ ~Spawning(t)
      BY <2>4, <3>2 DEF Excl
    <3>3. CASE ~shutdown
      BY <2>4, <3>3 DEF Excl
    <3> QED BY <3>1, <3>2, <3>3
  <2>5. CASE CountLive(t)
    BY <2>5 DEF CountLive
  <2>6. CASE Recheck(t)
    BY <2>6 DEF Recheck
  <2>7. CASE Shut(t)
    BY <2>7 DEF Shut
  <2>8. CASE Leave(t)
    BY <2>8 DEF Leave
  <2>9. CASE Touch(t)
    BY <2>9 DEF Touch
  <2> HIDE DEF Types, Shapes, Step, At, Goto, Drop, CallLeave, countVars,
     worldVars, threadVars, localVars, Threads
  <2> QED BY <1>1, <2>1, <2>2, <2>3, <2>4, <2>5, <2>6, <2>7, <2>8, <2>9
     DEF Admission
<1>2. ASSUME NEW t \in Threads, Spawner(t)
      PROVE  Types'
  <2>1. CASE Refused(t)
    BY <2>1, <1>0 DEF Refused, Unstarted
  <2>2. CASE Create(t)
    BY <2>2, <1>0 DEF Create, Unstarted
  <2>3. CASE WaitReady(t)
    BY <2>3 DEF WaitReady
  <2>4. CASE Release(t)
    BY <2>4, <1>0 DEF Release
  <2>5. CASE WaitRun(t)
    BY <2>5, <1>0 DEF WaitRun
  <2>6. CASE Abort(t)
    BY <2>6, <1>0 DEF Abort
  <2>7. CASE AbortJoin(t)
    BY <2>7, <1>0 DEF AbortJoin
  <2>8. CASE AbortWait(t)
    BY <2>8, <1>0 DEF AbortWait
  <2>9. CASE AbortRemove(t)
    BY <2>9, <1>0 DEF AbortRemove
  <2> HIDE DEF Types, Shapes, Step, At, Goto, Drop, CallLeave, countVars,
     worldVars, threadVars, localVars, Threads
  <2> QED BY <1>2, <2>1, <2>2, <2>3, <2>4, <2>5, <2>6, <2>7, <2>8, <2>9
     DEF Spawner
<1>3. ASSUME NEW t \in Threads, Joiner(t)
      PROVE  Types'
  <2>1. CASE JoinWait(t)
    BY <2>1 DEF JoinWait
  <2>2. CASE JoinCas(t)
    BY <2>2, <1>0 DEF JoinCas
  <2>3. CASE JoinOs(t)
    BY <2>3, <1>0 DEF JoinOs
  <2>4. CASE JoinResults(t)
    BY <2>4 DEF JoinResults
  <2> HIDE DEF Types, Shapes, Step, At, Goto, Drop, CallLeave, countVars,
     worldVars, threadVars, localVars, Threads
  <2> QED BY <1>3, <2>1, <2>2, <2>3, <2>4 DEF Joiner
<1>4. ASSUME NEW t \in Foreign, Attacher(t) \/ Attach(t) \/ Detach(t)
      PROVE  Types'
  <2>1. CASE Link(t)
    BY <2>1 DEF Link
  <2>2. CASE ClaimState(t)
    BY <2>2 DEF ClaimState
  <2>3. CASE Rooted(t)
    BY <2>3 DEF Rooted
  <2>4. CASE Final(t)
    BY <2>4 DEF Final
  <2>5. CASE Undo(t)
    BY <2>5 DEF Undo
  <2>6. CASE Unenter(t)
    BY <2>6 DEF Unenter
  <2>7. CASE Attach(t)
    BY <2>7, ThreadsAssumption DEF Attach
  <2>8. CASE Detach(t)
    BY <2>8 DEF Detach
  <2> HIDE DEF Types, Shapes, Step, At, Goto, Drop, CallLeave, countVars,
     worldVars, threadVars, localVars, Threads
  <2> QED BY <1>4, <2>1, <2>2, <2>3, <2>4, <2>5, <2>6, <2>7, <2>8 DEF Attacher
<1>5. ASSUME NEW t \in Workers, Worker(t) \/ Finish(t)
      PROVE  Types'
  <2>1. CASE Boot(t)
    BY <2>1 DEF Boot
  <2>2. CASE Prepare(t)
    BY <2>2 DEF Prepare
  <2>3. CASE Ready(t)
    BY <2>3 DEF Ready
  <2>4. CASE WaitStart(t)
    BY <2>4 DEF WaitStart
  <2>5. CASE Run(t)
    BY <2>5 DEF Run
  <2>6. CASE Cleanup(t)
    BY <2>6 DEF Cleanup
  <2>7. CASE Done(t)
    BY <2>7 DEF Done
  <2>8. CASE Exit(t)
    BY <2>8 DEF Exit
  <2>9. CASE Finish(t)
    BY <2>9 DEF Finish
  <2> HIDE DEF Types, Shapes, Step, At, Goto, Drop, CallLeave, countVars,
     worldVars, threadVars, localVars, Threads
  <2> QED BY <1>5, <2>1, <2>2, <2>3, <2>4, <2>5, <2>6, <2>7, <2>8, <2>9
     DEF Worker
<1>6. ASSUME NEW k \in Gates, Gate \/ GateBegin(k)
      PROVE  Types'
  <2>1. CASE GateBegin(k)
    BY <2>1 DEF GateBegin
  <2>2. CASE GateRead
    BY <2>2, GateGoes DEF GateRead
  <2>3. CASE GateSet
    BY <2>3, <1>0 DEF GateSet
  <2>4. CASE GateLeave
    BY <2>4 DEF GateLeave
  <2> HIDE DEF Types, Shapes, Step, At, Goto, Drop, CallLeave, countVars,
     worldVars, threadVars, localVars, Threads
  <2> QED BY <1>6, <2>1, <2>2, <2>3, <2>4 DEF Gate
<1>7. ASSUME Closer \/ Close PROVE Types'
  <2>1. CASE Close
    BY <2>1 DEF Close
  <2>2. CASE Early
    BY <2>2 DEF Early
  <2>3. CASE WaitEntering
    BY <2>3 DEF WaitEntering
  <2>4. CASE Tell
    BY <2>4 DEF Tell
  <2>5. CASE Drain
    BY <2>5 DEF Drain
  <2>6. CASE CloseWait
    BY <2>6, <1>0 DEF CloseWait
  <2>7. CASE CloseRemove
    BY <2>7 DEF CloseRemove
  <2>8. CASE NodesDone
    BY <2>8 DEF NodesDone
  <2>9. CASE Free
    BY <2>9 DEF Free
  <2>10. ASSUME NEW w \in Workers, TakeNode(w) PROVE Types'
    BY <2>10 DEF TakeNode
  <2> HIDE DEF Types, Shapes, Step, At, Goto, Drop, CallLeave, countVars,
     worldVars, threadVars, localVars, Threads
  <2> QED BY <1>7, <2>1, <2>2, <2>3, <2>4, <2>5, <2>6, <2>7, <2>8, <2>9,
     <2>10 DEF Closer
<1>8. ASSUME NEW t \in Threads, NEW w \in Workers, Spawn(t, w) \/ Join(t, w)
      PROVE  Types'
  <2>1. CASE Spawn(t, w)
    BY <2>1 DEF Spawn
  <2>2. CASE Join(t, w)
    BY <2>2 DEF Join
  <2> HIDE DEF Types, Shapes, Step, At, Goto, Drop, CallLeave, countVars,
     worldVars, threadVars, localVars, Threads
  <2> QED BY <1>8, <2>1, <2>2
<1>9. CASE UNCHANGED vars
  BY <1>9 DEF vars
<1> HIDE DEF Types, Shapes, Step, At, Goto, Drop, CallLeave, countVars,
   worldVars, threadVars, localVars, Threads
<1> QED
  BY <1>1, <1>2, <1>3, <1>4, <1>5, <1>6, <1>7, <1>8, <1>9
     DEF Next, Internal, Return, Request


(* Every thread stays with its own steps, and arg and ret with them.        *)
LEMMA ShapeStep ==
  Shapes /\ Lifecycle /\ [Next]_vars => \A u \in Threads : Shape(u)'
<1> SUFFICES ASSUME Shapes, Lifecycle, [Next]_vars, NEW u \in Threads
             PROVE  Shape(u)'
  OBVIOUS
<1> USE DEF Shapes, Types, Shape, Entrant, Step, At, Goto, Drop, CallLeave,
   countVars, worldVars, threadVars, localVars, Threads, Gates, AdmitPCs,
   SpawnPCs, JoinPCs, ForeignPCs, WorkerPCs, GatePCs, ClosePCs, ArgPCs,
   EntryPCs, FreePCs
<1>0. /\ Main \notin Workers \cup Foreign /\ Workers \cap Foreign = {}
      /\ None \notin {Main} \cup Workers \cup Foreign
  BY ThreadsAssumption
<1>iv. \A p \in Threads : pc[p] = "create" => pc[arg[p]] = "none"
  BY DEF Lifecycle, Spawns, InSpawn, Created
<1>1. ASSUME NEW t \in Threads, Admission(t)
      PROVE  Shape(u)'
  <2>1. CASE Publish(t)
    BY <2>1, <1>0 DEF Publish
  <2>2. CASE Enter(t)
    BY <2>2 DEF Enter
  <2>3. CASE EnterGate(t)
    BY <2>3, <1>0 DEF EnterGate, Refuse, Spawning
  <2>4. CASE Excl(t)
    BY <2>4, <1>0 DEF Excl, Refuse, Spawning
  <2>5. CASE CountLive(t)
    BY <2>5 DEF CountLive
  <2>6. CASE Recheck(t)
    BY <2>6 DEF Recheck, Spawning
  <2>7. CASE Shut(t)
    BY <2>7, <1>0 DEF Shut, Spawning
  <2>8. CASE Leave(t)
    BY <2>8, <1>0 DEF Leave, Spawning
  <2>9. CASE Touch(t)
    BY <2>9, <1>0 DEF Touch
  <2> HIDE DEF Types, Shapes, Shape, Step, At, Goto, Drop, CallLeave,
     countVars, worldVars, threadVars, localVars, Threads
  <2> QED BY <1>1, <2>1, <2>2, <2>3, <2>4, <2>5, <2>6, <2>7, <2>8, <2>9
     DEF Admission
<1>2. ASSUME NEW t \in Threads, Spawner(t)
      PROVE  Shape(u)'
  <2>1. CASE Refused(t)
    BY <2>1 DEF Refused
  <2>2. CASE Create(t)
    BY <2>2, <1>0, <1>iv DEF Create
  <2>3. CASE WaitReady(t)
    BY <2>3 DEF WaitReady
  <2>4. CASE Release(t)
    BY <2>4 DEF Release
  <2>5. CASE WaitRun(t)
    BY <2>5 DEF WaitRun
  <2>6. CASE Abort(t)
    BY <2>6 DEF Abort
  <2>7. CASE AbortJoin(t)
    BY <2>7 DEF AbortJoin
  <2>8. CASE AbortWait(t)
    BY <2>8 DEF AbortWait
  <2>9. CASE AbortRemove(t)
    BY <2>9 DEF AbortRemove
  <2> HIDE DEF Types, Shapes, Shape, Step, At, Goto, Drop, CallLeave,
     countVars, worldVars, threadVars, localVars, Threads
  <2> QED BY <1>2, <2>1, <2>2, <2>3, <2>4, <2>5, <2>6, <2>7, <2>8, <2>9
     DEF Spawner
<1>3. ASSUME NEW t \in Threads, Joiner(t)
      PROVE  Shape(u)'
  <2>1. CASE JoinWait(t)
    BY <2>1 DEF JoinWait
  <2>2. CASE JoinCas(t)
    BY <2>2 DEF JoinCas
  <2>3. CASE JoinOs(t)
    BY <2>3 DEF JoinOs
  <2>4. CASE JoinResults(t)
    BY <2>4 DEF JoinResults
  <2> HIDE DEF Types, Shapes, Shape, Step, At, Goto, Drop, CallLeave,
     countVars, worldVars, threadVars, localVars, Threads
  <2> QED BY <1>3, <2>1, <2>2, <2>3, <2>4 DEF Joiner
<1>4. ASSUME NEW t \in Foreign, Attacher(t) \/ Attach(t) \/ Detach(t)
      PROVE  Shape(u)'
  <2>1. CASE Link(t)
    BY <2>1 DEF Link
  <2>2. CASE ClaimState(t)
    BY <2>2 DEF ClaimState
  <2>3. CASE Rooted(t)
    BY <2>3 DEF Rooted
  <2>4. CASE Final(t)
    BY <2>4 DEF Final
  <2>5. CASE Undo(t)
    BY <2>5 DEF Undo
  <2>6. CASE Unenter(t)
    BY <2>6 DEF Unenter
  <2>7. CASE Attach(t)
    BY <2>7 DEF Attach
  <2>8. CASE Detach(t)
    BY <2>8 DEF Detach
  <2> HIDE DEF Types, Shapes, Shape, Step, At, Goto, Drop, CallLeave,
     countVars, worldVars, threadVars, localVars, Threads
  <2> QED BY <1>4, <2>1, <2>2, <2>3, <2>4, <2>5, <2>6, <2>7, <2>8 DEF Attacher
<1>5. ASSUME NEW t \in Workers, Worker(t) \/ Finish(t)
      PROVE  Shape(u)'
  <2>1. CASE Boot(t)
    BY <2>1 DEF Boot
  <2>2. CASE Prepare(t)
    BY <2>2 DEF Prepare
  <2>3. CASE Ready(t)
    BY <2>3 DEF Ready
  <2>4. CASE WaitStart(t)
    BY <2>4 DEF WaitStart
  <2>5. CASE Run(t)
    BY <2>5 DEF Run
  <2>6. CASE Cleanup(t)
    BY <2>6 DEF Cleanup
  <2>7. CASE Done(t)
    BY <2>7 DEF Done
  <2>8. CASE Exit(t)
    BY <2>8 DEF Exit
  <2>9. CASE Finish(t)
    BY <2>9, <1>0 DEF Finish
  <2> HIDE DEF Types, Shapes, Shape, Step, At, Goto, Drop, CallLeave,
     countVars, worldVars, threadVars, localVars, Threads
  <2> QED BY <1>5, <2>1, <2>2, <2>3, <2>4, <2>5, <2>6, <2>7, <2>8, <2>9
     DEF Worker
<1>6. ASSUME NEW k \in Gates, Gate \/ GateBegin(k)
      PROVE  Shape(u)'
  <2>1. CASE GateBegin(k)
    BY <2>1, <1>0 DEF GateBegin
  <2>2. CASE GateRead
    BY <2>2, GateGoes DEF GateRead
  <2>3. CASE GateSet
    BY <2>3 DEF GateSet
  <2>4. CASE GateLeave
    BY <2>4 DEF GateLeave
  <2> HIDE DEF Types, Shapes, Shape, Step, At, Goto, Drop, CallLeave,
     countVars, worldVars, threadVars, localVars, Threads
  <2> QED BY <1>6, <2>1, <2>2, <2>3, <2>4 DEF Gate
<1>7. ASSUME Closer \/ Close PROVE Shape(u)'
  <2>1. CASE Close
    BY <2>1, <1>0 DEF Close
  <2>2. CASE Early
    BY <2>2 DEF Early
  <2>3. CASE WaitEntering
    BY <2>3 DEF WaitEntering
  <2>4. CASE Tell
    BY <2>4 DEF Tell
  <2>5. CASE Drain
    BY <2>5 DEF Drain
  <2>6. CASE CloseWait
    BY <2>6 DEF CloseWait
  <2>7. CASE CloseRemove
    BY <2>7 DEF CloseRemove
  <2>8. CASE NodesDone
    BY <2>8 DEF NodesDone
  <2>9. CASE Free
    BY <2>9 DEF Free
  <2>10. ASSUME NEW w \in Workers, TakeNode(w) PROVE Shape(u)'
    BY <2>10 DEF TakeNode
  <2> HIDE DEF Types, Shapes, Shape, Step, At, Goto, Drop, CallLeave,
     countVars, worldVars, threadVars, localVars, Threads
  <2> QED BY <1>7, <2>1, <2>2, <2>3, <2>4, <2>5, <2>6, <2>7, <2>8, <2>9,
     <2>10 DEF Closer
<1>8. ASSUME NEW t \in Threads, NEW w \in Workers, Spawn(t, w) \/ Join(t, w)
      PROVE  Shape(u)'
  <2>1. CASE Spawn(t, w)
    BY <2>1 DEF Spawn
  <2>2. CASE Join(t, w)
    BY <2>2 DEF Join
  <2> HIDE DEF Types, Shapes, Shape, Step, At, Goto, Drop, CallLeave,
     countVars, worldVars, threadVars, localVars, Threads
  <2> QED BY <1>8, <2>1, <2>2
<1>9. CASE UNCHANGED vars
  BY <1>9 DEF vars
<1> HIDE DEF Types, Shapes, Shape, Step, At, Goto, Drop, CallLeave,
   countVars, worldVars, threadVars, localVars, Threads
<1> QED
  BY <1>1, <1>2, <1>3, <1>4, <1>5, <1>6, <1>7, <1>8, <1>9
     DEF Next, Internal, Return, Request


(* What the thread state says of the worker stays true.                     *)
LEMMA StartsStep ==
  Shapes /\ Lifecycle /\ [Next]_vars => \A v \in Workers : Starts(v)'
<1> SUFFICES ASSUME Shapes, Lifecycle, [Next]_vars, NEW v \in Workers
             PROVE  Starts(v)'
  OBVIOUS
<1> USE DEF Shapes, Types, Shape, Entrant, Step, At, Goto, Drop, CallLeave,
   countVars, worldVars, threadVars, localVars, Threads, Gates, AdmitPCs,
   SpawnPCs, JoinPCs, ForeignPCs, WorkerPCs, GatePCs, ClosePCs, ArgPCs,
   EntryPCs, FreePCs
<1>0. /\ Main \notin Workers \cup Foreign /\ Workers \cap Foreign = {}
      /\ None \notin {Main} \cup Workers \cup Foreign
  BY ThreadsAssumption
<1>iv. Starts(v) /\ \A p \in Threads : Spawns(p) /\ JoinsKnown(p)
  BY DEF Lifecycle
<1> USE DEF Starts, InSpawn, InLua, Spawning
<1>1. ASSUME NEW t \in Threads, Admission(t)
      PROVE  Starts(v)'
  <2>1. CASE Publish(t)
    BY <2>1, <1>0, <1>iv DEF Publish, Spawns, Created
  <2>2. CASE Enter(t)
    BY <2>2, <1>0, <1>iv DEF Enter
  <2>3. CASE EnterGate(t)
    BY <2>3, <1>0, <1>iv DEF EnterGate, Refuse, Spawning
  <2>4. CASE Excl(t)
    BY <2>4, <1>0, <1>iv DEF Excl, Refuse, Spawning
  <2>5. CASE CountLive(t)
    BY <2>5, <1>0, <1>iv DEF CountLive
  <2>6. CASE Recheck(t)
    BY <2>6, <1>0, <1>iv DEF Recheck, Spawning, Spawns, Created
  <2>7. CASE Shut(t)
    BY <2>7, <1>0, <1>iv DEF Shut, Spawning, Spawns, Created
  <2>8. CASE Leave(t)
    BY <2>8, <1>0, <1>iv DEF Leave, Spawning, Spawns, Created
  <2>9. CASE Touch(t)
    BY <2>9, <1>0, <1>iv DEF Touch, Spawns, Created
  <2> HIDE DEF Types, Shapes, Shape, Step, At, Goto, Drop, CallLeave,
     countVars, worldVars, threadVars, localVars, Threads, Starts, InSpawn,
     InLua
  <2> QED BY <1>1, <2>1, <2>2, <2>3, <2>4, <2>5, <2>6, <2>7, <2>8, <2>9
     DEF Admission
<1>2. ASSUME NEW t \in Threads, Spawner(t)
      PROVE  Starts(v)'
  <2>1. CASE Refused(t)
    BY <2>1, <1>0, <1>iv DEF Refused, Unstarted, Spawns, Created
  <2>2. CASE Create(t)
    BY <2>2, <1>0, <1>iv DEF Create, Unstarted, Created, Spawns, Created
  <2>3. CASE WaitReady(t)
    BY <2>3, <1>0, <1>iv DEF WaitReady, Spawns, Created
  <2>4. CASE Release(t)
    BY <2>4, <1>0, <1>iv DEF Release, Spawns, Created
  <2>5. CASE WaitRun(t)
    BY <2>5, <1>0, <1>iv DEF WaitRun, Spawns, Created
  <2>6. CASE Abort(t)
    BY <2>6, <1>0, <1>iv DEF Abort, Spawns, Created
  <2>7. CASE AbortJoin(t)
    BY <2>7, <1>0, <1>iv DEF AbortJoin, Spawns, Created
  <2>8. CASE AbortWait(t)
    BY <2>8, <1>0, <1>iv DEF AbortWait, Spawns, Created
  <2>9. CASE AbortRemove(t)
    BY <2>9, <1>0, <1>iv DEF AbortRemove, Spawns, Created
  <2> HIDE DEF Types, Shapes, Shape, Step, At, Goto, Drop, CallLeave,
     countVars, worldVars, threadVars, localVars, Threads, Starts, InSpawn,
     InLua
  <2> QED BY <1>2, <2>1, <2>2, <2>3, <2>4, <2>5, <2>6, <2>7, <2>8, <2>9
     DEF Spawner
<1>3. ASSUME NEW t \in Threads, Joiner(t)
      PROVE  Starts(v)'
  <2>1. CASE JoinWait(t)
    BY <2>1, <1>0, <1>iv DEF JoinWait
  <2>2. CASE JoinCas(t)
    BY <2>2, <1>0, <1>iv DEF JoinCas, JoinsKnown
  <2>3. CASE JoinOs(t)
    BY <2>3, <1>0, <1>iv DEF JoinOs
  <2>4. CASE JoinResults(t)
    BY <2>4, <1>0, <1>iv DEF JoinResults
  <2> HIDE DEF Types, Shapes, Shape, Step, At, Goto, Drop, CallLeave,
     countVars, worldVars, threadVars, localVars, Threads, Starts, InSpawn,
     InLua
  <2> QED BY <1>3, <2>1, <2>2, <2>3, <2>4 DEF Joiner
<1>4. ASSUME NEW t \in Foreign, Attacher(t) \/ Attach(t) \/ Detach(t)
      PROVE  Starts(v)'
  <2>1. CASE Link(t)
    BY <2>1, <1>0, <1>iv DEF Link
  <2>2. CASE ClaimState(t)
    BY <2>2, <1>0, <1>iv DEF ClaimState
  <2>3. CASE Rooted(t)
    BY <2>3, <1>0, <1>iv DEF Rooted
  <2>4. CASE Final(t)
    BY <2>4, <1>0, <1>iv DEF Final
  <2>5. CASE Undo(t)
    BY <2>5, <1>0, <1>iv DEF Undo
  <2>6. CASE Unenter(t)
    BY <2>6, <1>0, <1>iv DEF Unenter
  <2>7. CASE Attach(t)
    BY <2>7, <1>0, <1>iv DEF Attach
  <2>8. CASE Detach(t)
    BY <2>8, <1>0, <1>iv DEF Detach
  <2> HIDE DEF Types, Shapes, Shape, Step, At, Goto, Drop, CallLeave,
     countVars, worldVars, threadVars, localVars, Threads, Starts, InSpawn,
     InLua
  <2> QED BY <1>4, <2>1, <2>2, <2>3, <2>4, <2>5, <2>6, <2>7, <2>8 DEF Attacher
<1>5. ASSUME NEW t \in Workers, Worker(t) \/ Finish(t)
      PROVE  Starts(v)'
  <2>1. CASE Boot(t)
    BY <2>1, <1>0, <1>iv DEF Boot
  <2>2. CASE Prepare(t)
    BY <2>2, <1>0, <1>iv DEF Prepare, Cancelled
  <2>3. CASE Ready(t)
    BY <2>3, <1>0, <1>iv DEF Ready
  <2>4. CASE WaitStart(t)
    BY <2>4, <1>0, <1>iv DEF WaitStart
  <2>5. CASE Run(t)
    BY <2>5, <1>0, <1>iv DEF Run
  <2>6. CASE Cleanup(t)
    BY <2>6, <1>0, <1>iv DEF Cleanup
  <2>7. CASE Done(t)
    BY <2>7, <1>0, <1>iv DEF Done
  <2>8. CASE Exit(t)
    BY <2>8, <1>0, <1>iv DEF Exit
  <2>9. CASE Finish(t)
    BY <2>9, <1>0, <1>iv DEF Finish
  <2> HIDE DEF Types, Shapes, Shape, Step, At, Goto, Drop, CallLeave,
     countVars, worldVars, threadVars, localVars, Threads, Starts, InSpawn,
     InLua
  <2> QED BY <1>5, <2>1, <2>2, <2>3, <2>4, <2>5, <2>6, <2>7, <2>8, <2>9
     DEF Worker
<1>6. ASSUME NEW k \in Gates, Gate \/ GateBegin(k)
      PROVE  Starts(v)'
  <2>1. CASE GateBegin(k)
    BY <2>1, <1>0, <1>iv DEF GateBegin
  <2>2. CASE GateRead
    BY <2>2, <1>0, <1>iv, GateGoes DEF GateRead
  <2>3. CASE GateSet
    BY <2>3, <1>0, <1>iv DEF GateSet
  <2>4. CASE GateLeave
    BY <2>4, <1>0, <1>iv DEF GateLeave
  <2> HIDE DEF Types, Shapes, Shape, Step, At, Goto, Drop, CallLeave,
     countVars, worldVars, threadVars, localVars, Threads, Starts, InSpawn,
     InLua
  <2> QED BY <1>6, <2>1, <2>2, <2>3, <2>4 DEF Gate
<1>7. ASSUME Closer \/ Close PROVE Starts(v)'
  <2>1. CASE Close
    BY <2>1, <1>0, <1>iv DEF Close
  <2>2. CASE Early
    BY <2>2, <1>0, <1>iv DEF Early
  <2>3. CASE WaitEntering
    BY <2>3, <1>0, <1>iv DEF WaitEntering
  <2>4. CASE Tell
    BY <2>4, <1>0, <1>iv DEF Tell
  <2>5. CASE Drain
    BY <2>5, <1>0, <1>iv DEF Drain
  <2>6. CASE CloseWait
    BY <2>6, <1>0, <1>iv DEF CloseWait
  <2>7. CASE CloseRemove
    BY <2>7, <1>0, <1>iv DEF CloseRemove
  <2>8. CASE NodesDone
    BY <2>8, <1>0, <1>iv DEF NodesDone
  <2>9. CASE Free
    BY <2>9, <1>0, <1>iv DEF Free
  <2>10. ASSUME NEW w \in Workers, TakeNode(w) PROVE Starts(v)'
    BY <2>10, <1>0, <1>iv DEF TakeNode
  <2> HIDE DEF Types, Shapes, Shape, Step, At, Goto, Drop, CallLeave,
     countVars, worldVars, threadVars, localVars, Threads, Starts, InSpawn,
     InLua
  <2> QED BY <1>7, <2>1, <2>2, <2>3, <2>4, <2>5, <2>6, <2>7, <2>8, <2>9,
     <2>10 DEF Closer
<1>8. ASSUME NEW t \in Threads, NEW w \in Workers, Spawn(t, w) \/ Join(t, w)
      PROVE  Starts(v)'
  <2>1. CASE Spawn(t, w)
    BY <2>1, <1>0, <1>iv DEF Spawn
  <2>2. CASE Join(t, w)
    BY <2>2, <1>0, <1>iv DEF Join
  <2> HIDE DEF Types, Shapes, Shape, Step, At, Goto, Drop, CallLeave,
     countVars, worldVars, threadVars, localVars, Threads, Starts, InSpawn,
     InLua
  <2> QED BY <1>8, <2>1, <2>2
<1>9. CASE UNCHANGED vars
  BY <1>9, <1>0, <1>iv DEF vars
<1> HIDE DEF Types, Shapes, Shape, Step, At, Goto, Drop, CallLeave,
   countVars, worldVars, threadVars, localVars, Threads, Starts, InSpawn, InLua
<1> QED
  BY <1>1, <1>2, <1>3, <1>4, <1>5, <1>6, <1>7, <1>8, <1>9
     DEF Next, Internal, Return, Request


(* So does what is known of a worker while its spawner is in the call.      *)
LEMMA SpawnsStep ==
  Shapes /\ Lifecycle /\ [Next]_vars => \A v \in Threads : Spawns(v)'
<1> SUFFICES ASSUME Shapes, Lifecycle, [Next]_vars, NEW v \in Threads
             PROVE  Spawns(v)'
  OBVIOUS
<1> USE DEF Shapes, Types, Shape, Entrant, Step, At, Goto, Drop, CallLeave,
   countVars, worldVars, threadVars, localVars, Threads, Gates, AdmitPCs,
   SpawnPCs, JoinPCs, ForeignPCs, WorkerPCs, GatePCs, ClosePCs, ArgPCs,
   EntryPCs, FreePCs
<1>0. /\ Main \notin Workers \cup Foreign /\ Workers \cap Foreign = {}
      /\ None \notin {Main} \cup Workers \cup Foreign
  BY ThreadsAssumption
<1>iv. /\ \A p \in Threads : Spawns(p) /\ JoinsKnown(p)
       /\ \A w \in Workers : Starts(w)
  BY DEF Lifecycle
<1> USE DEF Spawns, InSpawn, Spawning, Created
<1>1. ASSUME NEW t \in Threads, Admission(t)
      PROVE  Spawns(v)'
  <2>1. CASE Publish(t)
    BY <2>1, <1>0, <1>iv DEF Publish, Starts, InLua
  <2>2. CASE Enter(t)
    BY <2>2, <1>0, <1>iv DEF Enter
  <2>3. CASE EnterGate(t)
    BY <2>3, <1>0, <1>iv DEF EnterGate, Refuse, Spawning
  <2>4. CASE Excl(t)
    BY <2>4, <1>0, <1>iv DEF Excl, Refuse, Spawning
  <2>5. CASE CountLive(t)
    BY <2>5, <1>0, <1>iv DEF CountLive
  <2>6. CASE Recheck(t)
    BY <2>6, <1>0, <1>iv DEF Recheck, Spawning
  <2>7. CASE Shut(t)
    BY <2>7, <1>0, <1>iv DEF Shut, Spawning
  <2>8. CASE Leave(t)
    BY <2>8, <1>0, <1>iv DEF Leave, Spawning
  <2>9. CASE Touch(t)
    BY <2>9, <1>0, <1>iv DEF Touch
  <2> HIDE DEF Types, Shapes, Shape, Step, At, Goto, Drop, CallLeave,
     countVars, worldVars, threadVars, localVars, Threads, Spawns, InSpawn,
     InLua
  <2> QED BY <1>1, <2>1, <2>2, <2>3, <2>4, <2>5, <2>6, <2>7, <2>8, <2>9
     DEF Admission
<1>2. ASSUME NEW t \in Threads, Spawner(t)
      PROVE  Spawns(v)'
  <2>1. CASE Refused(t)
    BY <2>1, <1>0, <1>iv DEF Refused, Unstarted, Starts, InLua
  <2>2. CASE Create(t)
    BY <2>2, <1>0, <1>iv DEF Create, Unstarted, Created, Starts, InLua
  <2>3. CASE WaitReady(t)
    BY <2>3, <1>0, <1>iv DEF WaitReady, Starts, InLua
  <2>4. CASE Release(t)
    BY <2>4, <1>0, <1>iv DEF Release, Starts, InLua
  <2>5. CASE WaitRun(t)
    BY <2>5, <1>0, <1>iv DEF WaitRun, Starts, InLua
  <2>6. CASE Abort(t)
    BY <2>6, <1>0, <1>iv DEF Abort, Starts, InLua
  <2>7. CASE AbortJoin(t)
    BY <2>7, <1>0, <1>iv DEF AbortJoin, Starts, InLua
  <2>8. CASE AbortWait(t)
    BY <2>8, <1>0, <1>iv DEF AbortWait, Starts, InLua
  <2>9. CASE AbortRemove(t)
    BY <2>9, <1>0, <1>iv DEF AbortRemove, Starts, InLua
  <2> HIDE DEF Types, Shapes, Shape, Step, At, Goto, Drop, CallLeave,
     countVars, worldVars, threadVars, localVars, Threads, Spawns, InSpawn,
     InLua
  <2> QED BY <1>2, <2>1, <2>2, <2>3, <2>4, <2>5, <2>6, <2>7, <2>8, <2>9
     DEF Spawner
<1>3. ASSUME NEW t \in Threads, Joiner(t)
      PROVE  Spawns(v)'
  <2>1. CASE JoinWait(t)
    BY <2>1, <1>0, <1>iv DEF JoinWait
  <2>2. CASE JoinCas(t)
    BY <2>2, <1>0, <1>iv DEF JoinCas, JoinsKnown
  <2>3. CASE JoinOs(t)
    BY <2>3, <1>0, <1>iv DEF JoinOs
  <2>4. CASE JoinResults(t)
    BY <2>4, <1>0, <1>iv DEF JoinResults, JoinsKnown
  <2> HIDE DEF Types, Shapes, Shape, Step, At, Goto, Drop, CallLeave,
     countVars, worldVars, threadVars, localVars, Threads, Spawns, InSpawn,
     InLua
  <2> QED BY <1>3, <2>1, <2>2, <2>3, <2>4 DEF Joiner
<1>4. ASSUME NEW t \in Foreign, Attacher(t) \/ Attach(t) \/ Detach(t)
      PROVE  Spawns(v)'
  <2>1. CASE Link(t)
    BY <2>1, <1>0, <1>iv DEF Link
  <2>2. CASE ClaimState(t)
    BY <2>2, <1>0, <1>iv DEF ClaimState
  <2>3. CASE Rooted(t)
    BY <2>3, <1>0, <1>iv DEF Rooted
  <2>4. CASE Final(t)
    BY <2>4, <1>0, <1>iv DEF Final
  <2>5. CASE Undo(t)
    BY <2>5, <1>0, <1>iv DEF Undo
  <2>6. CASE Unenter(t)
    BY <2>6, <1>0, <1>iv DEF Unenter
  <2>7. CASE Attach(t)
    BY <2>7, <1>0, <1>iv DEF Attach
  <2>8. CASE Detach(t)
    BY <2>8, <1>0, <1>iv DEF Detach
  <2> HIDE DEF Types, Shapes, Shape, Step, At, Goto, Drop, CallLeave,
     countVars, worldVars, threadVars, localVars, Threads, Spawns, InSpawn,
     InLua
  <2> QED BY <1>4, <2>1, <2>2, <2>3, <2>4, <2>5, <2>6, <2>7, <2>8 DEF Attacher
<1>5. ASSUME NEW t \in Workers, Worker(t) \/ Finish(t)
      PROVE  Spawns(v)'
  <2>1. CASE Boot(t)
    BY <2>1, <1>0, <1>iv DEF Boot, Starts, InLua
  <2>2. CASE Prepare(t)
    BY <2>2, <1>0, <1>iv DEF Prepare, Cancelled
  <2>3. CASE Ready(t)
    BY <2>3, <1>0, <1>iv DEF Ready
  <2>4. CASE WaitStart(t)
    BY <2>4, <1>0, <1>iv DEF WaitStart
  <2>5. CASE Run(t)
    BY <2>5, <1>0, <1>iv DEF Run, Starts, InLua
  <2>6. CASE Cleanup(t)
    BY <2>6, <1>0, <1>iv DEF Cleanup
  <2>7. CASE Done(t)
    BY <2>7, <1>0, <1>iv DEF Done, Starts, InLua
  <2>8. CASE Exit(t)
    BY <2>8, <1>0, <1>iv DEF Exit, Starts, InLua
  <2>9. CASE Finish(t)
    BY <2>9, <1>0, <1>iv DEF Finish
  <2> HIDE DEF Types, Shapes, Shape, Step, At, Goto, Drop, CallLeave,
     countVars, worldVars, threadVars, localVars, Threads, Spawns, InSpawn,
     InLua
  <2> QED BY <1>5, <2>1, <2>2, <2>3, <2>4, <2>5, <2>6, <2>7, <2>8, <2>9
     DEF Worker
<1>6. ASSUME NEW k \in Gates, Gate \/ GateBegin(k)
      PROVE  Spawns(v)'
  <2>1. CASE GateBegin(k)
    BY <2>1, <1>0, <1>iv DEF GateBegin
  <2>2. CASE GateRead
    BY <2>2, <1>0, <1>iv, GateGoes DEF GateRead
  <2>3. CASE GateSet
    BY <2>3, <1>0, <1>iv DEF GateSet
  <2>4. CASE GateLeave
    BY <2>4, <1>0, <1>iv DEF GateLeave
  <2> HIDE DEF Types, Shapes, Shape, Step, At, Goto, Drop, CallLeave,
     countVars, worldVars, threadVars, localVars, Threads, Spawns, InSpawn,
     InLua
  <2> QED BY <1>6, <2>1, <2>2, <2>3, <2>4 DEF Gate
<1>7. ASSUME Closer \/ Close PROVE Spawns(v)'
  <2>1. CASE Close
    BY <2>1, <1>0, <1>iv DEF Close
  <2>2. CASE Early
    BY <2>2, <1>0, <1>iv DEF Early
  <2>3. CASE WaitEntering
    BY <2>3, <1>0, <1>iv DEF WaitEntering
  <2>4. CASE Tell
    BY <2>4, <1>0, <1>iv DEF Tell
  <2>5. CASE Drain
    BY <2>5, <1>0, <1>iv DEF Drain
  <2>6. CASE CloseWait
    BY <2>6, <1>0, <1>iv DEF CloseWait
  <2>7. CASE CloseRemove
    BY <2>7, <1>0, <1>iv DEF CloseRemove, JoinsKnown
  <2>8. CASE NodesDone
    BY <2>8, <1>0, <1>iv DEF NodesDone
  <2>9. CASE Free
    BY <2>9, <1>0, <1>iv DEF Free
  <2>10. ASSUME NEW w \in Workers, TakeNode(w) PROVE Spawns(v)'
    BY <2>10, <1>0, <1>iv DEF TakeNode, Starts, InLua
  <2> HIDE DEF Types, Shapes, Shape, Step, At, Goto, Drop, CallLeave,
     countVars, worldVars, threadVars, localVars, Threads, Spawns, InSpawn,
     InLua
  <2> QED BY <1>7, <2>1, <2>2, <2>3, <2>4, <2>5, <2>6, <2>7, <2>8, <2>9,
     <2>10 DEF Closer
<1>8. ASSUME NEW t \in Threads, NEW w \in Workers, Spawn(t, w) \/ Join(t, w)
      PROVE  Spawns(v)'
  <2>1. CASE Spawn(t, w)
    BY <2>1, <1>0, <1>iv DEF Spawn, Starts, InLua
  <2>2. CASE Join(t, w)
    BY <2>2, <1>0, <1>iv DEF Join
  <2> HIDE DEF Types, Shapes, Shape, Step, At, Goto, Drop, CallLeave,
     countVars, worldVars, threadVars, localVars, Threads, Spawns, InSpawn,
     InLua
  <2> QED BY <1>8, <2>1, <2>2
<1>9. CASE UNCHANGED vars
  BY <1>9, <1>0, <1>iv DEF vars
<1> HIDE DEF Types, Shapes, Shape, Step, At, Goto, Drop, CallLeave,
   countVars, worldVars, threadVars, localVars, Threads, Spawns, InSpawn, InLua
<1> QED
  BY <1>1, <1>2, <1>3, <1>4, <1>5, <1>6, <1>7, <1>8, <1>9
     DEF Next, Internal, Return, Request


(* A thread is joined only when the program holds it, and waited for when it *)
(* is done.                                                                  *)
LEMMA JoinsKnownStep ==
  Shapes /\ Lifecycle /\ [Next]_vars => \A v \in Threads : JoinsKnown(v)'
<1> SUFFICES ASSUME Shapes, Lifecycle, [Next]_vars, NEW v \in Threads
             PROVE  JoinsKnown(v)'
  OBVIOUS
<1> USE DEF Shapes, Types, Shape, Entrant, Step, At, Goto, Drop, CallLeave,
   countVars, worldVars, threadVars, localVars, Threads, Gates, AdmitPCs,
   SpawnPCs, JoinPCs, ForeignPCs, WorkerPCs, GatePCs, ClosePCs, ArgPCs,
   EntryPCs, FreePCs
<1>0. /\ Main \notin Workers \cup Foreign /\ Workers \cap Foreign = {}
      /\ None \notin {Main} \cup Workers \cup Foreign
  BY ThreadsAssumption
<1>iv. /\ \A p \in Threads : Spawns(p) /\ JoinsKnown(p)
       /\ \A w \in Workers : Starts(w)
  BY DEF Lifecycle
<1> USE DEF JoinsKnown, Spawning
<1>1. ASSUME NEW t \in Threads, Admission(t)
      PROVE  JoinsKnown(v)'
  <2>1. CASE Publish(t)
    BY <2>1, <1>0, <1>iv DEF Publish, Spawns, Starts, InSpawn, InLua, Created
  <2>2. CASE Enter(t)
    BY <2>2, <1>0, <1>iv DEF Enter
  <2>3. CASE EnterGate(t)
    BY <2>3, <1>0, <1>iv DEF EnterGate, Refuse, Spawning
  <2>4. CASE Excl(t)
    BY <2>4, <1>0, <1>iv DEF Excl, Refuse, Spawning
  <2>5. CASE CountLive(t)
    BY <2>5, <1>0, <1>iv DEF CountLive
  <2>6. CASE Recheck(t)
    BY <2>6, <1>0, <1>iv DEF Recheck, Spawning
  <2>7. CASE Shut(t)
    BY <2>7, <1>0, <1>iv DEF Shut, Spawning
  <2>8. CASE Leave(t)
    BY <2>8, <1>0, <1>iv DEF Leave, Spawning
  <2>9. CASE Touch(t)
    BY <2>9, <1>0, <1>iv DEF Touch
  <2> HIDE DEF Types, Shapes, Shape, Step, At, Goto, Drop, CallLeave,
     countVars, worldVars, threadVars, localVars, Threads, JoinsKnown
  <2> QED BY <1>1, <2>1, <2>2, <2>3, <2>4, <2>5, <2>6, <2>7, <2>8, <2>9
     DEF Admission
<1>2. ASSUME NEW t \in Threads, Spawner(t)
      PROVE  JoinsKnown(v)'
  <2>1. CASE Refused(t)
    BY <2>1, <1>0, <1>iv DEF Refused, Unstarted, Spawns, Starts, InSpawn,
       InLua, Created
  <2>2. CASE Create(t)
    BY <2>2, <1>0, <1>iv DEF Create, Unstarted, Created, Spawns, Starts,
       InSpawn, InLua, Created
  <2>3. CASE WaitReady(t)
    BY <2>3, <1>0, <1>iv DEF WaitReady
  <2>4. CASE Release(t)
    BY <2>4, <1>0, <1>iv DEF Release, Spawns, Starts, InSpawn, InLua, Created
  <2>5. CASE WaitRun(t)
    BY <2>5, <1>0, <1>iv DEF WaitRun
  <2>6. CASE Abort(t)
    BY <2>6, <1>0, <1>iv DEF Abort, Spawns, Starts, InSpawn, InLua, Created
  <2>7. CASE AbortJoin(t)
    BY <2>7, <1>0, <1>iv DEF AbortJoin
  <2>8. CASE AbortWait(t)
    BY <2>8, <1>0, <1>iv DEF AbortWait
  <2>9. CASE AbortRemove(t)
    BY <2>9, <1>0, <1>iv DEF AbortRemove
  <2> HIDE DEF Types, Shapes, Shape, Step, At, Goto, Drop, CallLeave,
     countVars, worldVars, threadVars, localVars, Threads, JoinsKnown
  <2> QED BY <1>2, <2>1, <2>2, <2>3, <2>4, <2>5, <2>6, <2>7, <2>8, <2>9
     DEF Spawner
<1>3. ASSUME NEW t \in Threads, Joiner(t)
      PROVE  JoinsKnown(v)'
  <2>1. CASE JoinWait(t)
    BY <2>1, <1>0, <1>iv DEF JoinWait
  <2>2. CASE JoinCas(t)
    BY <2>2, <1>0, <1>iv DEF JoinCas
  <2>3. CASE JoinOs(t)
    BY <2>3, <1>0, <1>iv DEF JoinOs
  <2>4. CASE JoinResults(t)
    BY <2>4, <1>0, <1>iv DEF JoinResults
  <2> HIDE DEF Types, Shapes, Shape, Step, At, Goto, Drop, CallLeave,
     countVars, worldVars, threadVars, localVars, Threads, JoinsKnown
  <2> QED BY <1>3, <2>1, <2>2, <2>3, <2>4 DEF Joiner
<1>4. ASSUME NEW t \in Foreign, Attacher(t) \/ Attach(t) \/ Detach(t)
      PROVE  JoinsKnown(v)'
  <2>1. CASE Link(t)
    BY <2>1, <1>0, <1>iv DEF Link
  <2>2. CASE ClaimState(t)
    BY <2>2, <1>0, <1>iv DEF ClaimState
  <2>3. CASE Rooted(t)
    BY <2>3, <1>0, <1>iv DEF Rooted
  <2>4. CASE Final(t)
    BY <2>4, <1>0, <1>iv DEF Final
  <2>5. CASE Undo(t)
    BY <2>5, <1>0, <1>iv DEF Undo
  <2>6. CASE Unenter(t)
    BY <2>6, <1>0, <1>iv DEF Unenter
  <2>7. CASE Attach(t)
    BY <2>7, <1>0, <1>iv DEF Attach
  <2>8. CASE Detach(t)
    BY <2>8, <1>0, <1>iv DEF Detach
  <2> HIDE DEF Types, Shapes, Shape, Step, At, Goto, Drop, CallLeave,
     countVars, worldVars, threadVars, localVars, Threads, JoinsKnown
  <2> QED BY <1>4, <2>1, <2>2, <2>3, <2>4, <2>5, <2>6, <2>7, <2>8 DEF Attacher
<1>5. ASSUME NEW t \in Workers, Worker(t) \/ Finish(t)
      PROVE  JoinsKnown(v)'
  <2>1. CASE Boot(t)
    BY <2>1, <1>0, <1>iv DEF Boot
  <2>2. CASE Prepare(t)
    BY <2>2, <1>0, <1>iv DEF Prepare, Cancelled
  <2>3. CASE Ready(t)
    BY <2>3, <1>0, <1>iv DEF Ready
  <2>4. CASE WaitStart(t)
    BY <2>4, <1>0, <1>iv DEF WaitStart
  <2>5. CASE Run(t)
    BY <2>5, <1>0, <1>iv DEF Run
  <2>6. CASE Cleanup(t)
    BY <2>6, <1>0, <1>iv DEF Cleanup
  <2>7. CASE Done(t)
    BY <2>7, <1>0, <1>iv DEF Done
  <2>8. CASE Exit(t)
    BY <2>8, <1>0, <1>iv DEF Exit
  <2>9. CASE Finish(t)
    BY <2>9, <1>0, <1>iv DEF Finish
  <2> HIDE DEF Types, Shapes, Shape, Step, At, Goto, Drop, CallLeave,
     countVars, worldVars, threadVars, localVars, Threads, JoinsKnown
  <2> QED BY <1>5, <2>1, <2>2, <2>3, <2>4, <2>5, <2>6, <2>7, <2>8, <2>9
     DEF Worker
<1>6. ASSUME NEW k \in Gates, Gate \/ GateBegin(k)
      PROVE  JoinsKnown(v)'
  <2>1. CASE GateBegin(k)
    BY <2>1, <1>0, <1>iv DEF GateBegin
  <2>2. CASE GateRead
    BY <2>2, <1>0, <1>iv, GateGoes DEF GateRead
  <2>3. CASE GateSet
    BY <2>3, <1>0, <1>iv DEF GateSet
  <2>4. CASE GateLeave
    BY <2>4, <1>0, <1>iv DEF GateLeave
  <2> HIDE DEF Types, Shapes, Shape, Step, At, Goto, Drop, CallLeave,
     countVars, worldVars, threadVars, localVars, Threads, JoinsKnown
  <2> QED BY <1>6, <2>1, <2>2, <2>3, <2>4 DEF Gate
<1>7. ASSUME Closer \/ Close PROVE JoinsKnown(v)'
  <2>1. CASE Close
    BY <2>1, <1>0, <1>iv DEF Close
  <2>2. CASE Early
    BY <2>2, <1>0, <1>iv DEF Early
  <2>3. CASE WaitEntering
    BY <2>3, <1>0, <1>iv DEF WaitEntering
  <2>4. CASE Tell
    BY <2>4, <1>0, <1>iv DEF Tell
  <2>5. CASE Drain
    BY <2>5, <1>0, <1>iv DEF Drain
  <2>6. CASE CloseWait
    BY <2>6, <1>0, <1>iv DEF CloseWait
  <2>7. CASE CloseRemove
    BY <2>7, <1>0, <1>iv DEF CloseRemove
  <2>8. CASE NodesDone
    BY <2>8, <1>0, <1>iv DEF NodesDone
  <2>9. CASE Free
    BY <2>9, <1>0, <1>iv DEF Free
  <2>10. ASSUME NEW w \in Workers, TakeNode(w) PROVE JoinsKnown(v)'
    BY <2>10, <1>0, <1>iv DEF TakeNode
  <2> HIDE DEF Types, Shapes, Shape, Step, At, Goto, Drop, CallLeave,
     countVars, worldVars, threadVars, localVars, Threads, JoinsKnown
  <2> QED BY <1>7, <2>1, <2>2, <2>3, <2>4, <2>5, <2>6, <2>7, <2>8, <2>9,
     <2>10 DEF Closer
<1>8. ASSUME NEW t \in Threads, NEW w \in Workers, Spawn(t, w) \/ Join(t, w)
      PROVE  JoinsKnown(v)'
  <2>1. CASE Spawn(t, w)
    BY <2>1, <1>0, <1>iv DEF Spawn
  <2>2. CASE Join(t, w)
    BY <2>2, <1>0, <1>iv DEF Join
  <2> HIDE DEF Types, Shapes, Shape, Step, At, Goto, Drop, CallLeave,
     countVars, worldVars, threadVars, localVars, Threads, JoinsKnown
  <2> QED BY <1>8, <2>1, <2>2
<1>9. CASE UNCHANGED vars
  BY <1>9, <1>0, <1>iv DEF vars
<1> HIDE DEF Types, Shapes, Shape, Step, At, Goto, Drop, CallLeave,
   countVars, worldVars, threadVars, localVars, Threads, JoinsKnown
<1> QED
  BY <1>1, <1>2, <1>3, <1>4, <1>5, <1>6, <1>7, <1>8, <1>9
     DEF Next, Internal, Return, Request


-----------------------------------------------------------------------------
(* What a step of t does to mt_entering and to who holds a place in it.     *)
EnteringMove(t) ==
  /\ \A u \in Threads \ {t} : HoldsEntering(u)' <=> HoldsEntering(u)
  /\ \/ entering' = entering /\ (HoldsEntering(t)' <=> HoldsEntering(t))
     \/ entering' = entering + 1 /\ HoldsEntering(t)' /\ ~HoldsEntering(t)
     \/ entering' = entering - 1 /\ ~HoldsEntering(t)' /\ HoldsEntering(t)

(* mt_entering moves with one thread that takes its place or gives it back. *)
LEMMA EnteringMoves ==
  Shapes /\ Lifecycle /\ [Next]_vars => \E t \in Threads : EnteringMove(t)
<1> SUFFICES ASSUME Shapes, Lifecycle, [Next]_vars
             PROVE  \E t \in Threads : EnteringMove(t)
  OBVIOUS
<1> USE DEF Shapes, Types, Shape, Entrant, Step, At, Goto, Drop, CallLeave,
   countVars, worldVars, threadVars, localVars, Threads, Gates, AdmitPCs,
   SpawnPCs, JoinPCs, ForeignPCs, WorkerPCs, GatePCs, ClosePCs, ArgPCs,
   EntryPCs, FreePCs
<1>0. /\ Main \notin Workers \cup Foreign /\ Workers \cap Foreign = {}
      /\ None \notin {Main} \cup Workers \cup Foreign
  BY ThreadsAssumption
<1>iv. \A p \in Threads : pc[p] = "create" => pc[arg[p]] = "none"
  BY DEF Lifecycle, Spawns, InSpawn, Created
<1> USE DEF EnteringMove, HoldsEntering, Spawning
<1>1. ASSUME NEW t \in Threads, Admission(t)
      PROVE  EnteringMove(t)
  <2>1. CASE Publish(t)
    BY <2>1, <1>0, <1>iv DEF Publish
  <2>2. CASE Enter(t)
    BY <2>2, <1>0, <1>iv DEF Enter
  <2>3. CASE EnterGate(t)
    BY <2>3, <1>0, <1>iv DEF EnterGate, Refuse, Spawning
  <2>4. CASE Excl(t)
    BY <2>4, <1>0, <1>iv DEF Excl, Refuse, Spawning
  <2>5. CASE CountLive(t)
    BY <2>5, <1>0, <1>iv DEF CountLive
  <2>6. CASE Recheck(t)
    BY <2>6, <1>0, <1>iv DEF Recheck, Spawning
  <2>7. CASE Shut(t)
    BY <2>7, <1>0, <1>iv DEF Shut, Spawning
  <2>8. CASE Leave(t)
    BY <2>8, <1>0, <1>iv DEF Leave, Spawning
  <2>9. CASE Touch(t)
    BY <2>9, <1>0, <1>iv DEF Touch
  <2> HIDE DEF Types, Shapes, Shape, Step, At, Goto, Drop, CallLeave,
     countVars, worldVars, threadVars, localVars, Threads, EnteringMove,
     HoldsEntering
  <2> QED BY <1>1, <2>1, <2>2, <2>3, <2>4, <2>5, <2>6, <2>7, <2>8, <2>9
     DEF Admission
<1>2. ASSUME NEW t \in Threads, Spawner(t)
      PROVE  EnteringMove(t)
  <2>1. CASE Refused(t)
    BY <2>1, <1>0, <1>iv DEF Refused, Unstarted
  <2>2. CASE Create(t)
    BY <2>2, <1>0, <1>iv DEF Create, Unstarted, Created
  <2>3. CASE WaitReady(t)
    BY <2>3, <1>0, <1>iv DEF WaitReady
  <2>4. CASE Release(t)
    BY <2>4, <1>0, <1>iv DEF Release
  <2>5. CASE WaitRun(t)
    BY <2>5, <1>0, <1>iv DEF WaitRun
  <2>6. CASE Abort(t)
    BY <2>6, <1>0, <1>iv DEF Abort
  <2>7. CASE AbortJoin(t)
    BY <2>7, <1>0, <1>iv DEF AbortJoin
  <2>8. CASE AbortWait(t)
    BY <2>8, <1>0, <1>iv DEF AbortWait
  <2>9. CASE AbortRemove(t)
    BY <2>9, <1>0, <1>iv DEF AbortRemove
  <2> HIDE DEF Types, Shapes, Shape, Step, At, Goto, Drop, CallLeave,
     countVars, worldVars, threadVars, localVars, Threads, EnteringMove,
     HoldsEntering
  <2> QED BY <1>2, <2>1, <2>2, <2>3, <2>4, <2>5, <2>6, <2>7, <2>8, <2>9
     DEF Spawner
<1>3. ASSUME NEW t \in Threads, Joiner(t)
      PROVE  EnteringMove(t)
  <2>1. CASE JoinWait(t)
    BY <2>1, <1>0, <1>iv DEF JoinWait
  <2>2. CASE JoinCas(t)
    BY <2>2, <1>0, <1>iv DEF JoinCas
  <2>3. CASE JoinOs(t)
    BY <2>3, <1>0, <1>iv DEF JoinOs
  <2>4. CASE JoinResults(t)
    BY <2>4, <1>0, <1>iv DEF JoinResults
  <2> HIDE DEF Types, Shapes, Shape, Step, At, Goto, Drop, CallLeave,
     countVars, worldVars, threadVars, localVars, Threads, EnteringMove,
     HoldsEntering
  <2> QED BY <1>3, <2>1, <2>2, <2>3, <2>4 DEF Joiner
<1>4. ASSUME NEW t \in Foreign, Attacher(t) \/ Attach(t) \/ Detach(t)
      PROVE  EnteringMove(t)
  <2>1. CASE Link(t)
    BY <2>1, <1>0, <1>iv DEF Link
  <2>2. CASE ClaimState(t)
    BY <2>2, <1>0, <1>iv DEF ClaimState
  <2>3. CASE Rooted(t)
    BY <2>3, <1>0, <1>iv DEF Rooted
  <2>4. CASE Final(t)
    BY <2>4, <1>0, <1>iv DEF Final
  <2>5. CASE Undo(t)
    BY <2>5, <1>0, <1>iv DEF Undo
  <2>6. CASE Unenter(t)
    BY <2>6, <1>0, <1>iv DEF Unenter
  <2>7. CASE Attach(t)
    BY <2>7, <1>0, <1>iv DEF Attach
  <2>8. CASE Detach(t)
    BY <2>8, <1>0, <1>iv DEF Detach
  <2> HIDE DEF Types, Shapes, Shape, Step, At, Goto, Drop, CallLeave,
     countVars, worldVars, threadVars, localVars, Threads, EnteringMove,
     HoldsEntering
  <2> QED BY <1>4, <2>1, <2>2, <2>3, <2>4, <2>5, <2>6, <2>7, <2>8 DEF Attacher
<1>5. ASSUME NEW t \in Workers, Worker(t) \/ Finish(t)
      PROVE  EnteringMove(t)
  <2>1. CASE Boot(t)
    BY <2>1, <1>0, <1>iv DEF Boot
  <2>2. CASE Prepare(t)
    BY <2>2, <1>0, <1>iv DEF Prepare, Cancelled
  <2>3. CASE Ready(t)
    BY <2>3, <1>0, <1>iv DEF Ready
  <2>4. CASE WaitStart(t)
    BY <2>4, <1>0, <1>iv DEF WaitStart
  <2>5. CASE Run(t)
    BY <2>5, <1>0, <1>iv DEF Run
  <2>6. CASE Cleanup(t)
    BY <2>6, <1>0, <1>iv DEF Cleanup
  <2>7. CASE Done(t)
    BY <2>7, <1>0, <1>iv DEF Done
  <2>8. CASE Exit(t)
    BY <2>8, <1>0, <1>iv DEF Exit
  <2>9. CASE Finish(t)
    BY <2>9, <1>0, <1>iv DEF Finish
  <2> HIDE DEF Types, Shapes, Shape, Step, At, Goto, Drop, CallLeave,
     countVars, worldVars, threadVars, localVars, Threads, EnteringMove,
     HoldsEntering
  <2> QED BY <1>5, <2>1, <2>2, <2>3, <2>4, <2>5, <2>6, <2>7, <2>8, <2>9
     DEF Worker
<1>6. ASSUME NEW k \in Gates, Gate \/ GateBegin(k)
      PROVE  EnteringMove(Main)
  <2>1. CASE GateBegin(k)
    BY <2>1, <1>0, <1>iv DEF GateBegin
  <2>2. CASE GateRead
    BY <2>2, <1>0, <1>iv, GateGoes DEF GateRead
  <2>3. CASE GateSet
    BY <2>3, <1>0, <1>iv DEF GateSet
  <2>4. CASE GateLeave
    BY <2>4, <1>0, <1>iv DEF GateLeave
  <2> HIDE DEF Types, Shapes, Shape, Step, At, Goto, Drop, CallLeave,
     countVars, worldVars, threadVars, localVars, Threads, EnteringMove,
     HoldsEntering
  <2> QED BY <1>6, <2>1, <2>2, <2>3, <2>4 DEF Gate
<1>7. ASSUME Closer \/ Close PROVE EnteringMove(Main)
  <2>1. CASE Close
    BY <2>1, <1>0, <1>iv DEF Close
  <2>2. CASE Early
    BY <2>2, <1>0, <1>iv DEF Early
  <2>3. CASE WaitEntering
    BY <2>3, <1>0, <1>iv DEF WaitEntering
  <2>4. CASE Tell
    BY <2>4, <1>0, <1>iv DEF Tell
  <2>5. CASE Drain
    BY <2>5, <1>0, <1>iv DEF Drain
  <2>6. CASE CloseWait
    BY <2>6, <1>0, <1>iv DEF CloseWait
  <2>7. CASE CloseRemove
    BY <2>7, <1>0, <1>iv DEF CloseRemove
  <2>8. CASE NodesDone
    BY <2>8, <1>0, <1>iv DEF NodesDone
  <2>9. CASE Free
    BY <2>9, <1>0, <1>iv DEF Free
  <2>10. ASSUME NEW w \in Workers, TakeNode(w) PROVE EnteringMove(Main)
    BY <2>10, <1>0, <1>iv DEF TakeNode
  <2> HIDE DEF Types, Shapes, Shape, Step, At, Goto, Drop, CallLeave,
     countVars, worldVars, threadVars, localVars, Threads, EnteringMove,
     HoldsEntering
  <2> QED BY <1>7, <2>1, <2>2, <2>3, <2>4, <2>5, <2>6, <2>7, <2>8, <2>9,
     <2>10 DEF Closer
<1>8. ASSUME NEW t \in Threads, NEW w \in Workers, Spawn(t, w) \/ Join(t, w)
      PROVE  EnteringMove(t)
  <2>1. CASE Spawn(t, w)
    BY <2>1, <1>0, <1>iv DEF Spawn
  <2>2. CASE Join(t, w)
    BY <2>2, <1>0, <1>iv DEF Join
  <2> HIDE DEF Types, Shapes, Shape, Step, At, Goto, Drop, CallLeave,
     countVars, worldVars, threadVars, localVars, Threads, EnteringMove,
     HoldsEntering
  <2> QED BY <1>8, <2>1, <2>2
<1>9. CASE UNCHANGED vars
  BY <1>9, <1>0, <1>iv DEF vars
<1> HIDE DEF Types, Shapes, Shape, Step, At, Goto, Drop, CallLeave,
   countVars, worldVars, threadVars, localVars, Threads, EnteringMove,
   HoldsEntering
<1>10. Main \in Threads
  BY DEF Threads
<1> QED
  BY <1>10, <1>1, <1>2, <1>3, <1>4, <1>5, <1>6, <1>7, <1>8, <1>9
     DEF Next, Internal, Return, Request


(* A worker that holds a place in live for itself. *)
Lives(t) == t \in Others /\ HoldsLive(t)

(* pthread_create hands the place that t holds over to the worker w.        *)
HandOver(t, w) ==
  /\ live' = live
  /\ HoldsForWorker(t) /\ ~HoldsForWorker(t)'
  /\ w \in Others /\ ~Lives(w) /\ Lives(w)'
  /\ \A u \in Threads \ {w} : Lives(u)' <=> Lives(u)

(* What a step of t does to mt_live and to who holds a place in it.         *)
LiveMove(t) ==
  /\ \A u \in Threads \ {t} : HoldsForWorker(u)' <=> HoldsForWorker(u)
  /\ \/ \E w \in Workers : HandOver(t, w)
     \/ /\ \A u \in Threads \ {t} : Lives(u)' <=> Lives(u)
        /\ \/ /\ live' = live
              /\ Lives(t)' <=> Lives(t)
              /\ HoldsForWorker(t)' <=> HoldsForWorker(t)
           \/ /\ live' = live + 1 /\ ~Lives(t) /\ Lives(t)'
              /\ HoldsForWorker(t)' <=> HoldsForWorker(t)
           \/ /\ live' = live - 1 /\ Lives(t) /\ ~Lives(t)'
              /\ HoldsForWorker(t)' <=> HoldsForWorker(t)
           \/ /\ live' = live + 1 /\ ~HoldsForWorker(t) /\ HoldsForWorker(t)'
              /\ Lives(t)' <=> Lives(t)
           \/ /\ live' = live - 1 /\ HoldsForWorker(t) /\ ~HoldsForWorker(t)'
              /\ Lives(t)' <=> Lives(t)

(* mt_live moves with one thread that takes a place or gives one back; only  *)
(* pthread_create passes a place on.                                        *)
LEMMA LiveMoves ==
  Shapes /\ Lifecycle /\ [Next]_vars => \E t \in Threads : LiveMove(t)
<1> SUFFICES ASSUME Shapes, Lifecycle, [Next]_vars
             PROVE  \E t \in Threads : LiveMove(t)
  OBVIOUS
<1> USE DEF Shapes, Types, Shape, Entrant, Step, At, Goto, Drop, CallLeave,
   countVars, worldVars, threadVars, localVars, Threads, Gates, AdmitPCs,
   SpawnPCs, JoinPCs, ForeignPCs, WorkerPCs, GatePCs, ClosePCs, ArgPCs,
   EntryPCs, FreePCs
<1>0. /\ Main \notin Workers \cup Foreign /\ Workers \cap Foreign = {}
      /\ None \notin {Main} \cup Workers \cup Foreign
  BY ThreadsAssumption
<1>iv. \A p \in Threads : pc[p] = "create" => pc[arg[p]] = "none"
  BY DEF Lifecycle, Spawns, InSpawn, Created
<1> USE DEF LiveMove, HoldsLive, HoldsForWorker, Lives, Others, Spawning
<1>1. ASSUME NEW t \in Threads, Admission(t)
      PROVE  LiveMove(t)
  <2>1. CASE Publish(t)
    BY <2>1, <1>0, <1>iv DEF Publish
  <2>2. CASE Enter(t)
    BY <2>2, <1>0, <1>iv DEF Enter
  <2>3. CASE EnterGate(t)
    BY <2>3, <1>0, <1>iv DEF EnterGate, Refuse, Spawning
  <2>4. CASE Excl(t)
    BY <2>4, <1>0, <1>iv DEF Excl, Refuse, Spawning
  <2>5. CASE CountLive(t)
    BY <2>5, <1>0, <1>iv DEF CountLive
  <2>6. CASE Recheck(t)
    BY <2>6, <1>0, <1>iv DEF Recheck, Spawning
  <2>7. CASE Shut(t)
    BY <2>7, <1>0, <1>iv DEF Shut, Spawning
  <2>8. CASE Leave(t)
    BY <2>8, <1>0, <1>iv DEF Leave, Spawning
  <2>9. CASE Touch(t)
    BY <2>9, <1>0, <1>iv DEF Touch
  <2> HIDE DEF Types, Shapes, Shape, Step, At, Goto, Drop, CallLeave,
     countVars, worldVars, threadVars, localVars, Threads, LiveMove, HoldsLive,
     HoldsForWorker, Lives
  <2> QED BY <1>1, <2>1, <2>2, <2>3, <2>4, <2>5, <2>6, <2>7, <2>8, <2>9
     DEF Admission
<1>2. ASSUME NEW t \in Threads, Spawner(t)
      PROVE  LiveMove(t)
  <2>1. CASE Refused(t)
    BY <2>1, <1>0, <1>iv DEF Refused, Unstarted
  <2>2. CASE Create(t)
    BY <2>2, <1>0, <1>iv DEF Create, Unstarted, Created, HandOver
  <2>3. CASE WaitReady(t)
    BY <2>3, <1>0, <1>iv DEF WaitReady
  <2>4. CASE Release(t)
    BY <2>4, <1>0, <1>iv DEF Release
  <2>5. CASE WaitRun(t)
    BY <2>5, <1>0, <1>iv DEF WaitRun
  <2>6. CASE Abort(t)
    BY <2>6, <1>0, <1>iv DEF Abort
  <2>7. CASE AbortJoin(t)
    BY <2>7, <1>0, <1>iv DEF AbortJoin
  <2>8. CASE AbortWait(t)
    BY <2>8, <1>0, <1>iv DEF AbortWait
  <2>9. CASE AbortRemove(t)
    BY <2>9, <1>0, <1>iv DEF AbortRemove
  <2> HIDE DEF Types, Shapes, Shape, Step, At, Goto, Drop, CallLeave,
     countVars, worldVars, threadVars, localVars, Threads, LiveMove, HoldsLive,
     HoldsForWorker, Lives
  <2> QED BY <1>2, <2>1, <2>2, <2>3, <2>4, <2>5, <2>6, <2>7, <2>8, <2>9
     DEF Spawner
<1>3. ASSUME NEW t \in Threads, Joiner(t)
      PROVE  LiveMove(t)
  <2>1. CASE JoinWait(t)
    BY <2>1, <1>0, <1>iv DEF JoinWait
  <2>2. CASE JoinCas(t)
    BY <2>2, <1>0, <1>iv DEF JoinCas
  <2>3. CASE JoinOs(t)
    BY <2>3, <1>0, <1>iv DEF JoinOs
  <2>4. CASE JoinResults(t)
    BY <2>4, <1>0, <1>iv DEF JoinResults
  <2> HIDE DEF Types, Shapes, Shape, Step, At, Goto, Drop, CallLeave,
     countVars, worldVars, threadVars, localVars, Threads, LiveMove, HoldsLive,
     HoldsForWorker, Lives
  <2> QED BY <1>3, <2>1, <2>2, <2>3, <2>4 DEF Joiner
<1>4. ASSUME NEW t \in Foreign, Attacher(t) \/ Attach(t) \/ Detach(t)
      PROVE  LiveMove(t)
  <2>1. CASE Link(t)
    BY <2>1, <1>0, <1>iv DEF Link
  <2>2. CASE ClaimState(t)
    BY <2>2, <1>0, <1>iv DEF ClaimState
  <2>3. CASE Rooted(t)
    BY <2>3, <1>0, <1>iv DEF Rooted
  <2>4. CASE Final(t)
    BY <2>4, <1>0, <1>iv DEF Final
  <2>5. CASE Undo(t)
    BY <2>5, <1>0, <1>iv DEF Undo
  <2>6. CASE Unenter(t)
    BY <2>6, <1>0, <1>iv DEF Unenter
  <2>7. CASE Attach(t)
    BY <2>7, <1>0, <1>iv DEF Attach
  <2>8. CASE Detach(t)
    BY <2>8, <1>0, <1>iv DEF Detach
  <2> HIDE DEF Types, Shapes, Shape, Step, At, Goto, Drop, CallLeave,
     countVars, worldVars, threadVars, localVars, Threads, LiveMove, HoldsLive,
     HoldsForWorker, Lives
  <2> QED BY <1>4, <2>1, <2>2, <2>3, <2>4, <2>5, <2>6, <2>7, <2>8 DEF Attacher
<1>5. ASSUME NEW t \in Workers, Worker(t) \/ Finish(t)
      PROVE  LiveMove(t)
  <2>1. CASE Boot(t)
    BY <2>1, <1>0, <1>iv DEF Boot
  <2>2. CASE Prepare(t)
    BY <2>2, <1>0, <1>iv DEF Prepare, Cancelled
  <2>3. CASE Ready(t)
    BY <2>3, <1>0, <1>iv DEF Ready
  <2>4. CASE WaitStart(t)
    BY <2>4, <1>0, <1>iv DEF WaitStart
  <2>5. CASE Run(t)
    BY <2>5, <1>0, <1>iv DEF Run
  <2>6. CASE Cleanup(t)
    BY <2>6, <1>0, <1>iv DEF Cleanup
  <2>7. CASE Done(t)
    BY <2>7, <1>0, <1>iv DEF Done
  <2>8. CASE Exit(t)
    BY <2>8, <1>0, <1>iv DEF Exit
  <2>9. CASE Finish(t)
    BY <2>9, <1>0, <1>iv DEF Finish
  <2> HIDE DEF Types, Shapes, Shape, Step, At, Goto, Drop, CallLeave,
     countVars, worldVars, threadVars, localVars, Threads, LiveMove, HoldsLive,
     HoldsForWorker, Lives
  <2> QED BY <1>5, <2>1, <2>2, <2>3, <2>4, <2>5, <2>6, <2>7, <2>8, <2>9
     DEF Worker
<1>6. ASSUME NEW k \in Gates, Gate \/ GateBegin(k)
      PROVE  LiveMove(Main)
  <2>1. CASE GateBegin(k)
    BY <2>1, <1>0, <1>iv DEF GateBegin
  <2>2. CASE GateRead
    BY <2>2, <1>0, <1>iv, GateGoes DEF GateRead
  <2>3. CASE GateSet
    BY <2>3, <1>0, <1>iv DEF GateSet
  <2>4. CASE GateLeave
    BY <2>4, <1>0, <1>iv DEF GateLeave
  <2> HIDE DEF Types, Shapes, Shape, Step, At, Goto, Drop, CallLeave,
     countVars, worldVars, threadVars, localVars, Threads, LiveMove, HoldsLive,
     HoldsForWorker, Lives
  <2> QED BY <1>6, <2>1, <2>2, <2>3, <2>4 DEF Gate
<1>7. ASSUME Closer \/ Close PROVE LiveMove(Main)
  <2>1. CASE Close
    BY <2>1, <1>0, <1>iv DEF Close
  <2>2. CASE Early
    BY <2>2, <1>0, <1>iv DEF Early
  <2>3. CASE WaitEntering
    BY <2>3, <1>0, <1>iv DEF WaitEntering
  <2>4. CASE Tell
    BY <2>4, <1>0, <1>iv DEF Tell
  <2>5. CASE Drain
    BY <2>5, <1>0, <1>iv DEF Drain
  <2>6. CASE CloseWait
    BY <2>6, <1>0, <1>iv DEF CloseWait
  <2>7. CASE CloseRemove
    BY <2>7, <1>0, <1>iv DEF CloseRemove
  <2>8. CASE NodesDone
    BY <2>8, <1>0, <1>iv DEF NodesDone
  <2>9. CASE Free
    BY <2>9, <1>0, <1>iv DEF Free
  <2>10. ASSUME NEW w \in Workers, TakeNode(w) PROVE LiveMove(Main)
    BY <2>10, <1>0, <1>iv DEF TakeNode
  <2> HIDE DEF Types, Shapes, Shape, Step, At, Goto, Drop, CallLeave,
     countVars, worldVars, threadVars, localVars, Threads, LiveMove, HoldsLive,
     HoldsForWorker, Lives
  <2> QED BY <1>7, <2>1, <2>2, <2>3, <2>4, <2>5, <2>6, <2>7, <2>8, <2>9,
     <2>10 DEF Closer
<1>8. ASSUME NEW t \in Threads, NEW w \in Workers, Spawn(t, w) \/ Join(t, w)
      PROVE  LiveMove(t)
  <2>1. CASE Spawn(t, w)
    BY <2>1, <1>0, <1>iv DEF Spawn
  <2>2. CASE Join(t, w)
    BY <2>2, <1>0, <1>iv DEF Join
  <2> HIDE DEF Types, Shapes, Shape, Step, At, Goto, Drop, CallLeave,
     countVars, worldVars, threadVars, localVars, Threads, LiveMove, HoldsLive,
     HoldsForWorker, Lives
  <2> QED BY <1>8, <2>1, <2>2
<1>9. CASE UNCHANGED vars
  BY <1>9, <1>0, <1>iv DEF vars
<1> HIDE DEF Types, Shapes, Shape, Step, At, Goto, Drop, CallLeave,
   countVars, worldVars, threadVars, localVars, Threads, LiveMove, HoldsLive,
   HoldsForWorker, Lives
<1>10. Main \in Threads
  BY DEF Threads
<1> QED
  BY <1>10, <1>1, <1>2, <1>3, <1>4, <1>5, <1>6, <1>7, <1>8, <1>9
     DEF Next, Internal, Return, Request


-----------------------------------------------------------------------------
(* The size of a finite set that gains or loses an element, or keeps them.  *)
LEMMA Sizes ==
  ASSUME NEW S, NEW T, NEW x, IsFiniteSet(S)
  PROVE  /\ Cardinality(S) \in Nat
         /\ (\A u : u \in T <=> u \in S) => T = S
         /\ x \notin S /\ (\A u : u \in T <=> u \in S \/ u = x)
              => Cardinality(T) = Cardinality(S) + 1
         /\ x \in S /\ (\A u : u \in T <=> u \in S /\ u # x)
              => Cardinality(T) = Cardinality(S) - 1
<1>1. Cardinality(S) \in Nat
  BY FS_CardinalityType
<1>2. (\A u : u \in T <=> u \in S) => T = S
  OBVIOUS
<1>3. ASSUME x \notin S, \A u : u \in T <=> u \in S \/ u = x
      PROVE  Cardinality(T) = Cardinality(S) + 1
  <2>1. T = S \cup {x}
    BY <1>3
  <2> QED BY <2>1, <1>3, FS_AddElement
<1>4. ASSUME x \in S, \A u : u \in T <=> u \in S /\ u # x
      PROVE  Cardinality(T) = Cardinality(S) - 1
  <2>1. T = S \ {x}
    BY <1>4
  <2> QED BY <2>1, <1>4, FS_RemoveElement
<1> QED BY <1>1, <1>2, <1>3, <1>4

(* The threads are finitely many. *)
LEMMA FiniteThreads ==
  /\ IsFiniteSet(Threads) /\ IsFiniteSet(Entering)
  /\ IsFiniteSet(Living) /\ IsFiniteSet(Pending)
<1>1. IsFiniteSet(Others) /\ IsFiniteSet({Main})
  BY ThreadsAssumption, FS_Union, FS_Singleton DEF Others
<1>2. IsFiniteSet(Threads)
  <2>1. Threads = {Main} \cup Others
    BY DEF Threads, Others
  <2> QED BY <1>1, <2>1, FS_Union
<1> QED BY <1>1, <1>2, FS_Subset DEF Entering, Living, Pending

(* The two counters stay exact.                                             *)
LEMMA CountStep ==
  Shapes /\ Lifecycle /\ CountsExact /\ [Next]_vars => CountsExact'
<1> SUFFICES ASSUME Shapes, Lifecycle, CountsExact, [Next]_vars
             PROVE  CountsExact'
  OBVIOUS
<1>1. /\ entering = Cardinality(Entering)
      /\ live = Cardinality(Living) + Cardinality(Pending)
  BY DEF CountsExact, Entering, Living, Pending
<1>2. entering' = Cardinality(Entering')
  <2>1. PICK t \in Threads : EnteringMove(t)
    BY EnteringMoves
  <2>2. CASE entering' = entering /\ (HoldsEntering(t)' <=> HoldsEntering(t))
    <3>1. \A u : u \in Entering' <=> u \in Entering
      BY <2>1, <2>2 DEF EnteringMove, Entering, Threads
    <3> QED BY <3>1, <2>2, <1>1, FiniteThreads, Sizes
  <2>3. CASE entering' = entering + 1 /\ HoldsEntering(t)' /\ ~HoldsEntering(t)
    <3>1. /\ t \notin Entering
          /\ \A u : u \in Entering' <=> u \in Entering \/ u = t
      BY <2>1, <2>3 DEF EnteringMove, Entering, Threads
    <3> QED BY <3>1, <2>3, <1>1, FiniteThreads, Sizes
  <2>4. CASE entering' = entering - 1 /\ ~HoldsEntering(t)' /\ HoldsEntering(t)
    <3>1. t \in Entering /\ \A u : u \in Entering' <=> u \in Entering /\ u # t
      BY <2>1, <2>4 DEF EnteringMove, Entering, Threads
    <3> QED BY <3>1, <2>4, <1>1, FiniteThreads, Sizes
  <2> QED BY <2>1, <2>2, <2>3, <2>4 DEF EnteringMove
<1>3. live' = Cardinality(Living') + Cardinality(Pending')
  <2>0. \A u : /\ u \in Living <=> u \in Threads /\ Lives(u)
               /\ u \in Living' <=> u \in Threads /\ Lives(u)'
               /\ u \in Pending <=> u \in Threads /\ HoldsForWorker(u)
               /\ u \in Pending' <=> u \in Threads /\ HoldsForWorker(u)'
    BY DEF Living, Pending, Lives, Threads, Others
  <2>1. PICK t \in Threads : LiveMove(t)
    BY LiveMoves
  <2>2. /\ Cardinality(Living) \in Nat
        /\ Cardinality(Pending) \in Nat
    BY FiniteThreads, FS_CardinalityType
  <2> DEFINE SameLiving == \A u : u \in Living' <=> u \in Living
             SamePending == \A u : u \in Pending' <=> u \in Pending
             MoreLiving(x) == /\ x \notin Living
                              /\ \A u : u \in Living' <=> u \in Living \/ u = x
             LessLiving == /\ t \in Living
                           /\ \A u : u \in Living' <=> u \in Living /\ u # t
             MorePending == /\ t \notin Pending
                            /\ \A u : u \in Pending' <=> u \in Pending \/ u = t
             LessPending == /\ t \in Pending
                            /\ \A u : u \in Pending' <=> u \in Pending /\ u # t
  <2>3. \/ live' = live /\ SameLiving /\ SamePending
        \/ live' = live + 1 /\ MoreLiving(t) /\ SamePending
        \/ live' = live - 1 /\ LessLiving /\ SamePending
        \/ live' = live + 1 /\ SameLiving /\ MorePending
        \/ live' = live - 1 /\ SameLiving /\ LessPending
        \/ live' = live /\ LessPending /\ \E w \in Workers : MoreLiving(w)
    <3>1. ASSUME NEW w \in Workers, HandOver(t, w)
          PROVE  live' = live /\ LessPending /\ MoreLiving(w)
      BY <2>0, <2>1, <3>1 DEF HandOver, LiveMove, Others, Threads
    <3>2. CASE \A w \in Workers : ~HandOver(t, w)
      BY <2>0, <2>1, <3>2 DEF LiveMove
    <3> QED BY <3>1, <3>2
  <2>4. SameLiving => Cardinality(Living') = Cardinality(Living)
    BY FiniteThreads, Sizes
  <2>5. SamePending => Cardinality(Pending') = Cardinality(Pending)
    BY FiniteThreads, Sizes
  <2>6. \A x : MoreLiving(x) => Cardinality(Living') = Cardinality(Living) + 1
    BY FiniteThreads, Sizes
  <2>7. LessLiving => Cardinality(Living') = Cardinality(Living) - 1
    BY FiniteThreads, Sizes
  <2>8. MorePending => Cardinality(Pending') = Cardinality(Pending) + 1
    BY FiniteThreads, Sizes
  <2>9. LessPending => Cardinality(Pending') = Cardinality(Pending) - 1
    BY FiniteThreads, Sizes
  <2> HIDE DEF SameLiving, SamePending, MoreLiving, LessLiving, MorePending,
     LessPending
  <2> QED BY <1>1, <2>2, <2>3, <2>4, <2>5, <2>6, <2>7, <2>8, <2>9
<1> QED BY <1>2, <1>3 DEF CountsExact, Entering, Living, Pending


-----------------------------------------------------------------------------
(* What a step of t does to the spawners whose worker has no OS thread, and  *)
(* to the workers they have used up.                                        *)
Bare(t) ==
  \/ InSpawn(t) /\ pc[t] \notin Created \cup {"publish"}
  \/ pc[t] = "leave" /\ ret[t] = "run"
Spent(w) == pc[w] = "none" /\ thState[w] # "none"

UnbornMove(t) ==
  /\ \A u \in Threads \ {t} : Bare(u)' <=> Bare(u)
  /\ \/ /\ Bare(t)' => Bare(t)
        /\ \A w \in Workers : Spent(w)' <=> Spent(w)
     \/ /\ Bare(t)' /\ ~Bare(t)
        /\ \E w \in Workers :
             /\ Spent(w)' /\ ~Spent(w)
             /\ \A x \in Workers \ {w} : Spent(x)' <=> Spent(x)
     \/ /\ ~Bare(t)' /\ Bare(t)
        /\ \E w \in Workers :
             /\ ~Spent(w)' /\ Spent(w)
             /\ \A x \in Workers \ {w} : Spent(x)' <=> Spent(x)

(* A spawner uses up a worker, and gives it back with pthread_create.        *)
LEMMA UnbornMoves ==
  Shapes /\ Lifecycle /\ [Next]_vars => \E t \in Threads : UnbornMove(t)
<1> SUFFICES ASSUME Shapes, Lifecycle, [Next]_vars
             PROVE  \E t \in Threads : UnbornMove(t)
  OBVIOUS
<1> USE DEF Shapes, Types, Shape, Entrant, Step, At, Goto, Drop, CallLeave,
   countVars, worldVars, threadVars, localVars, Threads, Gates, AdmitPCs,
   SpawnPCs, JoinPCs, ForeignPCs, WorkerPCs, GatePCs, ClosePCs, ArgPCs,
   EntryPCs, FreePCs
<1>0. /\ Main \notin Workers \cup Foreign /\ Workers \cap Foreign = {}
      /\ None \notin {Main} \cup Workers \cup Foreign
  BY ThreadsAssumption
<1>iv. /\ \A p \in Threads : Spawns(p)
       /\ \A w \in Workers : Starts(w)
  BY DEF Lifecycle
<1> USE DEF UnbornMove, Bare, Spent, InSpawn, Spawning, Created
<1>1. ASSUME NEW t \in Threads, Admission(t)
      PROVE  UnbornMove(t)
  <2>1. CASE Publish(t)
    BY <2>1, <1>0, <1>iv DEF Publish, Spawns, Starts, InLua
  <2>2. CASE Enter(t)
    BY <2>2, <1>0, <1>iv DEF Enter
  <2>3. CASE EnterGate(t)
    BY <2>3, <1>0, <1>iv DEF EnterGate, Refuse, Spawning
  <2>4. CASE Excl(t)
    BY <2>4, <1>0, <1>iv DEF Excl, Refuse, Spawning
  <2>5. CASE CountLive(t)
    BY <2>5, <1>0, <1>iv DEF CountLive
  <2>6. CASE Recheck(t)
    BY <2>6, <1>0, <1>iv DEF Recheck, Spawning, Spawns, Starts, InLua
  <2>7. CASE Shut(t)
    BY <2>7, <1>0, <1>iv DEF Shut, Spawning, Spawns, Starts, InLua
  <2>8. CASE Leave(t)
    BY <2>8, <1>0, <1>iv DEF Leave, Spawning, Spawns, Starts, InLua
  <2>9. CASE Touch(t)
    BY <2>9, <1>0, <1>iv DEF Touch, Spawns, Starts, InLua
  <2> HIDE DEF Types, Shapes, Shape, Step, At, Goto, Drop, CallLeave,
     countVars, worldVars, threadVars, localVars, Threads, UnbornMove, Bare,
     Spent, InSpawn
  <2> QED BY <1>1, <2>1, <2>2, <2>3, <2>4, <2>5, <2>6, <2>7, <2>8, <2>9
     DEF Admission
<1>2. ASSUME NEW t \in Threads, Spawner(t)
      PROVE  UnbornMove(t)
  <2>1. CASE Refused(t)
    BY <2>1, <1>0, <1>iv DEF Refused, Unstarted, Spawns, Starts, InLua
  <2>2. CASE Create(t)
    BY <2>2, <1>0, <1>iv DEF Create, Unstarted, Created, Spawns, Starts, InLua
  <2>3. CASE WaitReady(t)
    BY <2>3, <1>0, <1>iv DEF WaitReady, Spawns, Starts, InLua
  <2>4. CASE Release(t)
    BY <2>4, <1>0, <1>iv DEF Release, Spawns, Starts, InLua
  <2>5. CASE WaitRun(t)
    BY <2>5, <1>0, <1>iv DEF WaitRun, Spawns, Starts, InLua
  <2>6. CASE Abort(t)
    BY <2>6, <1>0, <1>iv DEF Abort, Spawns, Starts, InLua
  <2>7. CASE AbortJoin(t)
    BY <2>7, <1>0, <1>iv DEF AbortJoin, Spawns, Starts, InLua
  <2>8. CASE AbortWait(t)
    BY <2>8, <1>0, <1>iv DEF AbortWait, Spawns, Starts, InLua
  <2>9. CASE AbortRemove(t)
    BY <2>9, <1>0, <1>iv DEF AbortRemove, Spawns, Starts, InLua
  <2> HIDE DEF Types, Shapes, Shape, Step, At, Goto, Drop, CallLeave,
     countVars, worldVars, threadVars, localVars, Threads, UnbornMove, Bare,
     Spent, InSpawn
  <2> QED BY <1>2, <2>1, <2>2, <2>3, <2>4, <2>5, <2>6, <2>7, <2>8, <2>9
     DEF Spawner
<1>3. ASSUME NEW t \in Threads, Joiner(t)
      PROVE  UnbornMove(t)
  <2>1. CASE JoinWait(t)
    BY <2>1, <1>0, <1>iv DEF JoinWait
  <2>2. CASE JoinCas(t)
    BY <2>2, <1>0, <1>iv DEF JoinCas
  <2>3. CASE JoinOs(t)
    BY <2>3, <1>0, <1>iv DEF JoinOs
  <2>4. CASE JoinResults(t)
    BY <2>4, <1>0, <1>iv DEF JoinResults
  <2> HIDE DEF Types, Shapes, Shape, Step, At, Goto, Drop, CallLeave,
     countVars, worldVars, threadVars, localVars, Threads, UnbornMove, Bare,
     Spent, InSpawn
  <2> QED BY <1>3, <2>1, <2>2, <2>3, <2>4 DEF Joiner
<1>4. ASSUME NEW t \in Foreign, Attacher(t) \/ Attach(t) \/ Detach(t)
      PROVE  UnbornMove(t)
  <2>1. CASE Link(t)
    BY <2>1, <1>0, <1>iv DEF Link
  <2>2. CASE ClaimState(t)
    BY <2>2, <1>0, <1>iv DEF ClaimState
  <2>3. CASE Rooted(t)
    BY <2>3, <1>0, <1>iv DEF Rooted
  <2>4. CASE Final(t)
    BY <2>4, <1>0, <1>iv DEF Final
  <2>5. CASE Undo(t)
    BY <2>5, <1>0, <1>iv DEF Undo
  <2>6. CASE Unenter(t)
    BY <2>6, <1>0, <1>iv DEF Unenter
  <2>7. CASE Attach(t)
    BY <2>7, <1>0, <1>iv DEF Attach
  <2>8. CASE Detach(t)
    BY <2>8, <1>0, <1>iv DEF Detach
  <2> HIDE DEF Types, Shapes, Shape, Step, At, Goto, Drop, CallLeave,
     countVars, worldVars, threadVars, localVars, Threads, UnbornMove, Bare,
     Spent, InSpawn
  <2> QED BY <1>4, <2>1, <2>2, <2>3, <2>4, <2>5, <2>6, <2>7, <2>8 DEF Attacher
<1>5. ASSUME NEW t \in Workers, Worker(t) \/ Finish(t)
      PROVE  UnbornMove(t)
  <2>1. CASE Boot(t)
    BY <2>1, <1>0, <1>iv DEF Boot
  <2>2. CASE Prepare(t)
    BY <2>2, <1>0, <1>iv DEF Prepare, Cancelled
  <2>3. CASE Ready(t)
    BY <2>3, <1>0, <1>iv DEF Ready
  <2>4. CASE WaitStart(t)
    BY <2>4, <1>0, <1>iv DEF WaitStart
  <2>5. CASE Run(t)
    BY <2>5, <1>0, <1>iv DEF Run
  <2>6. CASE Cleanup(t)
    BY <2>6, <1>0, <1>iv DEF Cleanup
  <2>7. CASE Done(t)
    BY <2>7, <1>0, <1>iv DEF Done, Spawns, Starts, InLua
  <2>8. CASE Exit(t)
    BY <2>8, <1>0, <1>iv DEF Exit
  <2>9. CASE Finish(t)
    BY <2>9, <1>0, <1>iv DEF Finish
  <2> HIDE DEF Types, Shapes, Shape, Step, At, Goto, Drop, CallLeave,
     countVars, worldVars, threadVars, localVars, Threads, UnbornMove, Bare,
     Spent, InSpawn
  <2> QED BY <1>5, <2>1, <2>2, <2>3, <2>4, <2>5, <2>6, <2>7, <2>8, <2>9
     DEF Worker
<1>6. ASSUME NEW k \in Gates, Gate \/ GateBegin(k)
      PROVE  UnbornMove(Main)
  <2>1. CASE GateBegin(k)
    BY <2>1, <1>0, <1>iv DEF GateBegin
  <2>2. CASE GateRead
    BY <2>2, <1>0, <1>iv, GateGoes DEF GateRead
  <2>3. CASE GateSet
    BY <2>3, <1>0, <1>iv DEF GateSet
  <2>4. CASE GateLeave
    BY <2>4, <1>0, <1>iv DEF GateLeave
  <2> HIDE DEF Types, Shapes, Shape, Step, At, Goto, Drop, CallLeave,
     countVars, worldVars, threadVars, localVars, Threads, UnbornMove, Bare,
     Spent, InSpawn
  <2> QED BY <1>6, <2>1, <2>2, <2>3, <2>4 DEF Gate
<1>7. ASSUME Closer \/ Close PROVE UnbornMove(Main)
  <2>1. CASE Close
    BY <2>1, <1>0, <1>iv DEF Close
  <2>2. CASE Early
    BY <2>2, <1>0, <1>iv DEF Early
  <2>3. CASE WaitEntering
    BY <2>3, <1>0, <1>iv DEF WaitEntering
  <2>4. CASE Tell
    BY <2>4, <1>0, <1>iv DEF Tell
  <2>5. CASE Drain
    BY <2>5, <1>0, <1>iv DEF Drain
  <2>6. CASE CloseWait
    BY <2>6, <1>0, <1>iv DEF CloseWait
  <2>7. CASE CloseRemove
    BY <2>7, <1>0, <1>iv DEF CloseRemove
  <2>8. CASE NodesDone
    BY <2>8, <1>0, <1>iv DEF NodesDone
  <2>9. CASE Free
    BY <2>9, <1>0, <1>iv DEF Free
  <2>10. ASSUME NEW w \in Workers, TakeNode(w) PROVE UnbornMove(Main)
    BY <2>10, <1>0, <1>iv DEF TakeNode
  <2> HIDE DEF Types, Shapes, Shape, Step, At, Goto, Drop, CallLeave,
     countVars, worldVars, threadVars, localVars, Threads, UnbornMove, Bare,
     Spent, InSpawn
  <2> QED BY <1>7, <2>1, <2>2, <2>3, <2>4, <2>5, <2>6, <2>7, <2>8, <2>9,
     <2>10 DEF Closer
<1>8. ASSUME NEW t \in Threads, NEW w \in Workers, Spawn(t, w) \/ Join(t, w)
      PROVE  UnbornMove(t)
  <2>1. CASE Spawn(t, w)
    BY <2>1, <1>0, <1>iv DEF Spawn
  <2>2. CASE Join(t, w)
    BY <2>2, <1>0, <1>iv DEF Join
  <2> HIDE DEF Types, Shapes, Shape, Step, At, Goto, Drop, CallLeave,
     countVars, worldVars, threadVars, localVars, Threads, UnbornMove, Bare,
     Spent, InSpawn
  <2> QED BY <1>8, <2>1, <2>2
<1>9. CASE UNCHANGED vars
  BY <1>9, <1>0, <1>iv DEF vars
<1> HIDE DEF Types, Shapes, Shape, Step, At, Goto, Drop, CallLeave,
   countVars, worldVars, threadVars, localVars, Threads, UnbornMove, Bare,
   Spent, InSpawn
<1>10. Main \in Threads
  BY DEF Threads
<1> QED
  BY <1>10, <1>1, <1>2, <1>3, <1>4, <1>5, <1>6, <1>7, <1>8, <1>9
     DEF Next, Internal, Return, Request


(* No more spawners are without an OS thread than workers were used up.      *)
LEMMA BoundedStep ==
  Shapes /\ Lifecycle /\ Bounded /\ [Next]_vars => Bounded'
<1> SUFFICES ASSUME Shapes, Lifecycle, Bounded, [Next]_vars PROVE Bounded'
  OBVIOUS
<1>1. /\ \A u : /\ u \in Unborn <=> u \in Threads /\ Bare(u)
                /\ u \in Unborn' <=> u \in Threads /\ Bare(u)'
      /\ \A w : /\ w \in UsedUp <=> w \in Workers /\ Spent(w)
                /\ w \in UsedUp' <=> w \in Workers /\ Spent(w)'
  BY DEF Unborn, UsedUp, Bare, Spent
<1>2. IsFiniteSet(Unborn) /\ IsFiniteSet(UsedUp)
  BY FiniteThreads, ThreadsAssumption, FS_Subset DEF Unborn, UsedUp
<1>3. Cardinality(Unborn) \in Nat /\ Cardinality(UsedUp) \in Nat
  BY <1>2, FS_CardinalityType
<1>4. PICK t \in Threads : UnbornMove(t)
  BY UnbornMoves
<1>5. CASE (Bare(t)' => Bare(t)) /\ \A w \in Workers : Spent(w)' <=> Spent(w)
  <2>1. \A w : w \in UsedUp' <=> w \in UsedUp
    BY <1>1, <1>5
  <2>2. UsedUp' = UsedUp
    BY <2>1
  <2>3. Unborn' \subseteq Unborn
    BY <1>1, <1>4, <1>5 DEF UnbornMove
  <2>4. /\ Cardinality(Unborn') <= Cardinality(Unborn)
        /\ Cardinality(Unborn') \in Nat
    BY <2>3, <1>2, FS_Subset, FS_CardinalityType
  <2> QED BY <2>2, <2>4, <1>3 DEF Bounded
<1>6. ASSUME Bare(t)', ~Bare(t), NEW w \in Workers, Spent(w)', ~Spent(w),
             \A x \in Workers \ {w} : Spent(x)' <=> Spent(x)
      PROVE  Bounded'
  <2>1. t \notin Unborn /\ \A u : u \in Unborn' <=> u \in Unborn \/ u = t
    BY <1>1, <1>4, <1>6 DEF UnbornMove
  <2>2. w \notin UsedUp /\ \A u : u \in UsedUp' <=> u \in UsedUp \/ u = w
    BY <1>1, <1>6
  <2>3. Cardinality(Unborn') = Cardinality(Unborn) + 1
    BY <2>1, <1>2, Sizes
  <2>4. Cardinality(UsedUp') = Cardinality(UsedUp) + 1
    BY <2>2, <1>2, Sizes
  <2> QED BY <2>3, <2>4, <1>3 DEF Bounded
<1>7. ASSUME ~Bare(t)', Bare(t), NEW w \in Workers, ~Spent(w)', Spent(w),
             \A x \in Workers \ {w} : Spent(x)' <=> Spent(x)
      PROVE  Bounded'
  <2>1. t \in Unborn /\ \A u : u \in Unborn' <=> u \in Unborn /\ u # t
    BY <1>1, <1>4, <1>7 DEF UnbornMove
  <2>2. w \in UsedUp /\ \A u : u \in UsedUp' <=> u \in UsedUp /\ u # w
    BY <1>1, <1>7
  <2>3. Cardinality(Unborn') = Cardinality(Unborn) - 1
    BY <2>1, <1>2, Sizes
  <2>4. Cardinality(UsedUp') = Cardinality(UsedUp) - 1
    BY <2>2, <1>2, Sizes
  <2> QED BY <2>3, <2>4, <1>3 DEF Bounded
<1> QED BY <1>4, <1>5, <1>6, <1>7 DEF UnbornMove
=============================================================================
