------------------------------ MODULE Threads ------------------------------
(***************************************************************************)
(* The thread library (lib_threading.c): how threads are admitted to a     *)
(* global_State g, spawned, joined and detached, how lua_close shuts the   *)
(* world, and how the gates for exclusive work (lj_tg.c, lj_str.c, lj_gc.c) *)
(* keep newcomers out.                                                     *)
(*                                                                         *)
(* Main runs Lua from the start, uses the gates and closes g.  A foreign   *)
(* thread attaches itself; a worker is created by any thread that runs Lua. *)
(* Each access to a counter, gate or thread state that a decision hangs on *)
(* is a step; a futex wait is the time until the condition is met, and the *)
(* acknowledged handshake of Safepoint is one step.                        *)
(***************************************************************************)
EXTENDS Integers, FiniteSets

CONSTANTS
  Main, Workers, Foreign, None,
  MaxAttach    \* attachments by one foreign thread

ASSUME ThreadsAssumption ==
  /\ Main \notin Workers \cup Foreign /\ Workers \cap Foreign = {}
  /\ None \notin {Main} \cup Workers \cup Foreign
  /\ IsFiniteSet(Workers) /\ IsFiniteSet(Foreign)
  /\ MaxAttach \in Nat

VARIABLES
  shutdown,   \* g->mt_shutdown
  entering,   \* g->mt_entering
  live,       \* g->mt_live
  active,     \* g->mt_active
  gate,       \* which gate word is set: gc (mt_gc_exclusive),
              \*   str (str.reclaim_exclusive), tg (gc2.tg_reclaiming) or none
  attached,   \* threads whose TG is on the registry list
  stop,       \* threads whose TG has been told to stop
  nodes,      \* workers on the list of live threads
  thState,    \* th->state
  ready,      \* th->start_ready
  joined,     \* workers with th->joined set
  joins,      \* how often the thread was passed to pthread_join
  known,      \* workers whose thread object the program holds
  pc,         \* where a thread is
  arg,        \* the worker it spawns or joins, the gate it takes
  ret,        \* where it goes on after threading_gc_leave
  uses,       \* attachments of a foreign thread so far
  freed       \* close_state has freed g

countVars == <<entering, live, active>>
worldVars == <<attached, stop>>
threadVars == <<nodes, thState, ready, joined, joins, known>>
localVars == <<arg, ret, uses>>
vars == <<shutdown, countVars, gate, worldVars, threadVars, pc, localVars, freed>>

Threads == {Main} \cup Workers \cup Foreign
Others == Workers \cup Foreign

Gates == {"gc", "str", "tg"}
AdmitPCs == {"publish", "enter", "gate", "excl", "live", "recheck", "shut", "leave", "touch"}
SpawnPCs == {"refused", "create", "waitready", "release", "waitrun",
             "abort", "abortjoin", "abortwait", "abortremove"}
JoinPCs == {"joinwait", "joincas", "joinos", "joinres"}
ForeignPCs == {"out", "attach", "claim", "rooted", "final",
               "undo", "undolive", "unenter", "unenterlive"}
WorkerPCs == {"none", "boot", "wclaim", "wready", "wwait", "wshut",
              "wcleanup", "wdone", "wexit", "gone"}
GatePCs == {"pre", "prelive", "preenter", "set", "post", "postlive", "postenter", "held"}
ClosePCs == {"early", "earlylive", "earlyenter", "waitenter", "tell", "drain",
             "nodes", "closewait", "closeremove", "closed"}

TypeOK ==
  /\ {shutdown, active, freed} \subseteq BOOLEAN
  /\ entering \in 0..Cardinality(Threads) /\ live \in 0..Cardinality(Threads)
  /\ gate \in Gates \cup {"none"}
  /\ {attached, stop} \subseteq SUBSET Threads
  /\ {nodes, joined, known} \subseteq SUBSET Workers
  /\ thState \in [Workers -> {"none", "starting", "running", "aborting", "done"}]
  /\ ready \in [Workers -> 0..2]
  /\ joins \in [Workers -> 0..2]
  /\ pc \in [Threads -> {"run"} \cup AdmitPCs \cup SpawnPCs \cup JoinPCs
               \cup ForeignPCs \cup WorkerPCs \cup GatePCs \cup ClosePCs]
  /\ arg \in [Threads -> Workers \cup Gates \cup {None}]
  /\ ret \in [Threads -> {"run", "out", "excl", "refused", "undo", "wdone"}]
  /\ uses \in [Foreign -> 0..MaxAttach]

Init ==
  /\ shutdown = FALSE /\ entering = 0 /\ live = 0 /\ active = FALSE
  /\ gate = "none"
  /\ attached = {Main} /\ stop = {}
  /\ nodes = {} /\ joined = {} /\ known = {}
  /\ thState = [w \in Workers |-> "none"]
  /\ ready = [w \in Workers |-> 0]
  /\ joins = [w \in Workers |-> 0]
  /\ pc = [t \in Threads |-> IF t = Main THEN "run"
                             ELSE IF t \in Workers THEN "none" ELSE "out"]
  /\ arg = [t \in Threads |-> None]
  /\ ret = [t \in Threads |-> "run"]
  /\ uses = [f \in Foreign |-> 0]
  /\ freed = FALSE

-----------------------------------------------------------------------------
At(t, s) == pc[t] = s
Goto(t, s) == pc' = [pc EXCEPT ![t] = s]
Step(t, from, to) == At(t, from) /\ Goto(t, to)

Spawning(t) == arg[t] # None
Stopped(t) == t \in stop

(* threading_gc_leave is entered from several places and returns to ret.    *)
CallLeave(t, back) == Goto(t, "leave") /\ ret' = [ret EXCEPT ![t] = back]

-----------------------------------------------------------------------------
(* threading_attach by a foreign thread, up to the first count: until then   *)
(* it is for the caller to know that g is alive.                            *)
Attach(f) ==
  /\ Step(f, "out", "gate") /\ ~freed
  /\ uses[f] < MaxAttach
  /\ uses' = [uses EXCEPT ![f] = @ + 1]
  /\ entering' = entering + 1
  /\ UNCHANGED <<shutdown, live, active, gate, worldVars, threadVars, arg, ret, freed>>

(* threading_spawn_core up to the admission: the first look at shutdown, and *)
(* the live node of the new thread object.                                  *)
Spawn(p, w) ==
  /\ ~shutdown /\ thState[w] = "none"
  /\ \A t \in Threads : arg[t] # w
  /\ Step(p, "run", "publish")
  /\ arg' = [arg EXCEPT ![p] = w]
  /\ UNCHANGED <<shutdown, countVars, gate, worldVars, threadVars, ret, uses, freed>>

Publish(p) ==
  /\ Step(p, "publish", "enter")
  /\ thState' = [thState EXCEPT ![arg[p]] = "starting"]
  /\ nodes' = nodes \cup {arg[p]}
  /\ UNCHANGED <<shutdown, countVars, gate, worldVars, ready, joined, joins, known,
                 localVars, freed>>

(* threading_entering_begin: count first, then look at shutdown and gates.  *)
Enter(p) ==
  /\ Step(p, "enter", "gate")
  /\ entering' = entering + 1
  /\ UNCHANGED <<shutdown, live, active, gate, worldVars, threadVars, localVars, freed>>

Refuse(t) ==
  entering' = entering - 1 /\ Goto(t, IF Spawning(t) THEN "refused" ELSE "out")

EnterGate(t) ==
  /\ At(t, "gate")
  /\ \/ shutdown /\ Refuse(t)
     \/ /\ ~shutdown /\ gate \notin {"tg", "str"}
        /\ Goto(t, IF Spawning(t) THEN "excl" ELSE "attach")
        /\ UNCHANGED entering
  /\ UNCHANGED <<shutdown, live, active, gate, worldVars, threadVars, localVars, freed>>

(* threading_gc_enter_counted: an attaching thread keeps its reservation.   *)
Excl(t) ==
  /\ At(t, "excl")
  /\ \/ /\ shutdown
        /\ IF Spawning(t) THEN Refuse(t) ELSE Goto(t, "undo") /\ UNCHANGED entering
        /\ UNCHANGED active
     \/ /\ ~shutdown /\ gate # "gc"
        /\ active' = TRUE /\ Goto(t, "live") /\ UNCHANGED entering
  /\ UNCHANGED <<shutdown, live, gate, worldVars, threadVars, localVars, freed>>

CountLive(t) ==
  /\ Step(t, "live", "recheck")
  /\ live' = live + 1
  /\ UNCHANGED <<shutdown, entering, active, gate, worldVars, threadVars, localVars, freed>>

(* Mutant: the gates are not looked at again after live was counted. *)
RecheckNothing(t) ==
  /\ Step(t, "recheck", "shut")
  /\ entering' = IF Spawning(t) THEN entering - 1 ELSE entering
  /\ UNCHANGED <<shutdown, live, active, gate, worldVars, threadVars, localVars, freed>>

Recheck(t) ==
  /\ At(t, "recheck")
  /\ IF gate \in {"gc", "str"}
     THEN CallLeave(t, "excl") /\ UNCHANGED entering
     ELSE /\ Goto(t, "shut")
          /\ entering' = IF Spawning(t) THEN entering - 1 ELSE entering
          /\ UNCHANGED ret
  /\ UNCHANGED <<shutdown, live, active, gate, worldVars, threadVars, arg, uses, freed>>

(* Mutant: a thread refused here keeps its place in live. *)
ShutKeepsLive(t) ==
  /\ At(t, "shut")
  /\ Goto(t, CASE ~shutdown -> IF Spawning(t) THEN "create" ELSE "final"
               [] shutdown -> IF Spawning(t) THEN "refused" ELSE "undo")
  /\ UNCHANGED <<shutdown, countVars, gate, worldVars, threadVars, localVars, freed>>

(* The last look at shutdown on the way in.                                 *)
Shut(t) ==
  /\ At(t, "shut")
  /\ IF shutdown
     THEN CallLeave(t, IF Spawning(t) THEN "refused" ELSE "undo")
     ELSE Goto(t, IF Spawning(t) THEN "create" ELSE "final") /\ UNCHANGED ret
  /\ UNCHANGED <<shutdown, countVars, gate, worldVars, threadVars, arg, uses, freed>>

(* threading_gc_leave: whoever counts down to zero restores the collector's *)
(* threshold in g and wakes the closer.                                     *)
Leave(t) ==
  /\ At(t, "leave")
  /\ live' = live - 1
  /\ Goto(t, IF live = 1 THEN "touch" ELSE ret[t])
  /\ UNCHANGED <<shutdown, entering, active, gate, worldVars, threadVars, localVars, freed>>

Touch(t) ==
  /\ Step(t, "touch", ret[t])
  /\ UNCHANGED <<shutdown, countVars, gate, worldVars, threadVars, localVars, freed>>

-----------------------------------------------------------------------------
(* threading_attach: the provisional TG is linked, then the state claimed.  *)
Link(f) ==
  /\ Step(f, "attach", "claim")
  /\ attached' = attached \cup {f}
  /\ UNCHANGED <<shutdown, countVars, gate, stop, threadVars, localVars, freed>>

(* Without "wait" a busy state ends the attempt; with it the loop goes on.  *)
ClaimState(f) ==
  /\ At(f, "claim")
  /\ \/ ~shutdown /\ Goto(f, "rooted")
     \/ Goto(f, "undo")
  /\ UNCHANGED <<shutdown, countVars, gate, worldVars, threadVars, localVars, freed>>

Rooted(f) ==
  /\ Step(f, "rooted", IF shutdown \/ Stopped(f) THEN "undo" ELSE "excl")
  /\ UNCHANGED <<shutdown, countVars, gate, worldVars, threadVars, localVars, freed>>

(* threading_attach_cp.                                                     *)
Final(f) ==
  /\ At(f, "final")
  /\ IF shutdown
     THEN Goto(f, "undolive") /\ UNCHANGED entering
     ELSE Goto(f, "run") /\ entering' = entering - 1
  /\ UNCHANGED <<shutdown, live, active, gate, worldVars, threadVars, localVars, freed>>

(* threading_attach_cleanup: the TG goes, then entering, then live.         *)
Undo(f) ==
  /\ Step(f, "undo", "unenter") \/ Step(f, "undolive", "unenterlive")
  /\ attached' = attached \ {f} /\ stop' = stop \ {f}
  /\ UNCHANGED <<shutdown, countVars, gate, threadVars, localVars, freed>>

(* Mutant: the cleanup gives a live count back that was never taken. *)
UnenterBoth(f) ==
  /\ At(f, "unenter") \/ At(f, "unenterlive")
  /\ CallLeave(f, "out")
  /\ entering' = entering - 1
  /\ UNCHANGED <<shutdown, live, active, gate, worldVars, threadVars, arg, uses, freed>>

Unenter(f) ==
  /\ \/ Step(f, "unenter", "out") /\ UNCHANGED ret
     \/ At(f, "unenterlive") /\ CallLeave(f, "out")
  /\ entering' = entering - 1
  /\ UNCHANGED <<shutdown, live, active, gate, worldVars, threadVars, arg, uses, freed>>

(* threading_detach_commit.                                                 *)
Detach(f) ==
  /\ At(f, "run") /\ CallLeave(f, "out")
  /\ attached' = attached \ {f} /\ stop' = stop \ {f}
  /\ UNCHANGED <<shutdown, countVars, gate, threadVars, arg, uses, freed>>

-----------------------------------------------------------------------------
(* The rest of threading_spawn_core, with the worker counted live.           *)

(* threading_unstarted_tg_finish, when no OS thread exists: the node goes, or *)
(* the TG cannot be torn down yet and the node stays, marked as joined.      *)
Unstarted(p) ==
  /\ thState' = [thState EXCEPT ![arg[p]] = "done"]
  /\ \/ nodes' = nodes \ {arg[p]} /\ UNCHANGED joined
     \/ joined' = joined \cup {arg[p]} /\ UNCHANGED nodes
  /\ UNCHANGED <<ready, joins, known>>

Drop(p) == arg' = [arg EXCEPT ![p] = None]

Refused(p) ==
  /\ Step(p, "refused", "run")
  /\ Unstarted(p) /\ Drop(p)
  /\ UNCHANGED <<shutdown, countVars, gate, worldVars, ret, uses, freed>>

(* pthread_create; a fresh stop request seen after it aborts the start.      *)
Create(p) ==
  /\ At(p, "create")
  /\ \/ /\ pc' = [pc EXCEPT ![p] = IF Stopped(p) THEN "abort" ELSE "waitready",
                            ![arg[p]] = "boot"]
        /\ UNCHANGED <<threadVars, ret, arg>>
     \/ Unstarted(p) /\ CallLeave(p, "run") /\ Drop(p)
  /\ UNCHANGED <<shutdown, countVars, gate, worldVars, uses, freed>>

WaitReady(p) ==
  /\ At(p, "waitready")
  /\ \/ Stopped(p) /\ Goto(p, "abort")
     \/ /\ ready[arg[p]] # 0 \/ thState[arg[p]] # "starting"
        /\ Goto(p, "release") \/ Goto(p, "abort")   \* publishing the stack may fail
  /\ UNCHANGED <<shutdown, countVars, gate, worldVars, threadVars, localVars, freed>>

(* Mutant: the start is released with a plain store. *)
ReleaseStore(p) ==
  /\ Step(p, "release", "waitrun")
  /\ thState' = [thState EXCEPT ![arg[p]] = "running"]
  /\ UNCHANGED <<shutdown, countVars, gate, worldVars, nodes, ready, joined, joins, known,
                 localVars, freed>>

Release(p) ==
  /\ At(p, "release")
  /\ IF thState[arg[p]] = "starting"
     THEN thState' = [thState EXCEPT ![arg[p]] = "running"] /\ Goto(p, "waitrun")
     ELSE Goto(p, "abort") /\ UNCHANGED thState
  /\ UNCHANGED <<shutdown, countVars, gate, worldVars, nodes, ready, joined, joins, known,
                 localVars, freed>>

(* The program gets the thread object unless a stop request ends the call.   *)
WaitRun(p) ==
  /\ Step(p, "waitrun", "run")
  /\ \/ /\ ready[arg[p]] = 2 \/ thState[arg[p]] # "running"
        /\ known' = known \cup {arg[p]}
     \/ Stopped(p) /\ UNCHANGED known
  /\ Drop(p)
  /\ UNCHANGED <<shutdown, countVars, gate, worldVars, nodes, thState, ready, joined, joins,
                 ret, uses, freed>>

(* threading_join_aborted_start.                                             *)
Abort(p) ==
  /\ Step(p, "abort", "abortjoin")
  /\ thState' = [thState EXCEPT ![arg[p]] = IF @ = "starting" THEN "aborting" ELSE @]
  /\ UNCHANGED <<shutdown, countVars, gate, worldVars, nodes, ready, joined, joins, known,
                 localVars, freed>>

AbortJoin(p) ==
  /\ At(p, "abortjoin")
  /\ joined' = joined \cup {arg[p]}
  /\ Goto(p, IF arg[p] \in joined THEN "abortremove" ELSE "abortwait")
  /\ UNCHANGED <<shutdown, countVars, gate, worldVars, nodes, thState, ready, joins, known,
                 localVars, freed>>

AbortWait(p) ==
  /\ Step(p, "abortwait", "abortremove") /\ pc[arg[p]] = "gone"
  /\ joins' = [joins EXCEPT ![arg[p]] = @ + 1]
  /\ UNCHANGED <<shutdown, countVars, gate, worldVars, nodes, thState, ready, joined, known,
                 localVars, freed>>

AbortRemove(p) ==
  /\ Step(p, "abortremove", "run")
  /\ nodes' = nodes \ {arg[p]} /\ Drop(p)
  /\ UNCHANGED <<shutdown, countVars, gate, worldVars, thState, ready, joined, joins, known,
                 ret, uses, freed>>

-----------------------------------------------------------------------------
(* threading_join_core, with or without a timeout.                           *)
Join(t, w) ==
  /\ w \in known /\ t # w
  /\ Step(t, "run", "joinwait")
  /\ arg' = [arg EXCEPT ![t] = w]
  /\ UNCHANGED <<shutdown, countVars, gate, worldVars, threadVars, ret, uses, freed>>

JoinWait(t) ==
  /\ At(t, "joinwait")
  /\ \/ thState[arg[t]] = "done" /\ Goto(t, "joincas") /\ UNCHANGED arg
     \/ Goto(t, "run") /\ Drop(t)   \* timeout or stop request
  /\ UNCHANGED <<shutdown, countVars, gate, worldVars, threadVars, ret, uses, freed>>

(* Mutant: the flag is tested but not claimed. *)
JoinTest(t) ==
  /\ At(t, "joincas")
  /\ IF arg[t] \in joined THEN Goto(t, "run") /\ Drop(t)
     ELSE Goto(t, "joinos") /\ UNCHANGED arg
  /\ UNCHANGED <<shutdown, countVars, gate, worldVars, threadVars, ret, uses, freed>>

JoinCas(t) ==
  /\ At(t, "joincas")
  /\ joined' = joined \cup {arg[t]}
  /\ IF arg[t] \in joined THEN Goto(t, "run") /\ Drop(t)
     ELSE Goto(t, "joinos") /\ UNCHANGED arg
  /\ UNCHANGED <<shutdown, countVars, gate, worldVars, nodes, thState, ready, joins, known,
                 ret, uses, freed>>

JoinOs(t) ==
  /\ Step(t, "joinos", "joinres") /\ pc[arg[t]] = "gone"
  /\ joins' = [joins EXCEPT ![arg[t]] = @ + 1]
  /\ UNCHANGED <<shutdown, countVars, gate, worldVars, nodes, thState, ready, joined, known,
                 localVars, freed>>

(* A stop request while the results are claimed leaves the node to the closer. *)
JoinResults(t) ==
  /\ Step(t, "joinres", "run") /\ Drop(t)
  /\ \/ nodes' = nodes \ {arg[t]}
     \/ Stopped(t) /\ UNCHANGED nodes
  /\ UNCHANGED <<shutdown, countVars, gate, worldVars, thState, ready, joined, joins, known,
                 ret, uses, freed>>

-----------------------------------------------------------------------------
(* threading_worker.                                                         *)

Boot(w) ==
  /\ Step(w, "boot", "wclaim")
  /\ attached' = attached \cup {w}
  /\ UNCHANGED <<shutdown, countVars, gate, stop, threadVars, localVars, freed>>

(* threading_worker_prepare after the attach: threading_worker_claim and      *)
(* threading_worker_start_cancelled.                                          *)
Cancelled(w) == shutdown \/ thState[w] \in {"aborting", "done"} \/ Stopped(w)

Prepare(w) ==
  /\ Step(w, "wclaim", IF Cancelled(w) THEN "wcleanup" ELSE "wready")
  /\ UNCHANGED <<shutdown, countVars, gate, worldVars, threadVars, localVars, freed>>

Ready(w) ==
  /\ Step(w, "wready", "wwait")
  /\ ready' = [ready EXCEPT ![w] = 1]
  /\ UNCHANGED <<shutdown, countVars, gate, worldVars, nodes, thState, joined, joins, known,
                 localVars, freed>>

(* Mutant: the worker starts as soon as it is ready. *)
StartAtOnce(w) ==
  /\ Step(w, "wwait", IF Stopped(w) THEN "wcleanup" ELSE "wshut")
  /\ UNCHANGED <<shutdown, countVars, gate, worldVars, threadVars, localVars, freed>>

(* threading_worker_wait_start and threading_worker_start_ok.                *)
WaitStart(w) ==
  /\ At(w, "wwait") /\ thState[w] # "starting"
  /\ Goto(w, IF thState[w] = "running" /\ ~Stopped(w) THEN "wshut" ELSE "wcleanup")
  /\ UNCHANGED <<shutdown, countVars, gate, worldVars, threadVars, localVars, freed>>

(* The function runs; the object of the thread can be reached from it.       *)
Run(w) ==
  /\ At(w, "wshut")
  /\ IF shutdown
     THEN Goto(w, "wcleanup") /\ UNCHANGED <<ready, known>>
     ELSE /\ Goto(w, "run")
          /\ ready' = [ready EXCEPT ![w] = 2]
          /\ known' = known \cup {w}
  /\ UNCHANGED <<shutdown, countVars, gate, worldVars, nodes, thState, joined, joins,
                 localVars, freed>>

(* The function returns or fails.                                            *)
Finish(w) ==
  /\ w \in Workers /\ Step(w, "run", "wcleanup")
  /\ UNCHANGED <<shutdown, countVars, gate, worldVars, threadVars, localVars, freed>>

(* threading_worker_cleanup: the TG is detached, live goes down, then the    *)
(* thread is done.                                                           *)
Cleanup(w) ==
  /\ At(w, "wcleanup") /\ CallLeave(w, "wdone")
  /\ attached' = attached \ {w} /\ stop' = stop \ {w}
  /\ UNCHANGED <<shutdown, countVars, gate, threadVars, arg, uses, freed>>

Done(w) ==
  /\ Step(w, "wdone", "wexit")
  /\ thState' = [thState EXCEPT ![w] = "done"]
  /\ UNCHANGED <<shutdown, countVars, gate, worldVars, nodes, ready, joined, joins, known,
                 localVars, freed>>

Exit(w) ==
  /\ Step(w, "wexit", "gone")
  /\ UNCHANGED <<shutdown, countVars, gate, worldVars, threadVars, localVars, freed>>

-----------------------------------------------------------------------------
(* Gates, taken by Main: tg_reclaim_writer_try, the string reclaimer, and     *)
(* gc2_sweep_mt_exclusive_try with os_setlocale_enterexclusive, which set     *)
(* the same word.  Each reads some counters, sets its gate and reads again.   *)
QuietFirst == [tg |-> attached = {Main}, gc |-> ~active, str |-> ~shutdown]

Quiet(k, at) ==
  \/ at \in {"pre", "post"} /\ QuietFirst[k]
  \/ at \in {"prelive", "postlive"} /\ live = 0
  \/ at \in {"preenter", "postenter"} /\ entering = 0

GateBegin(k) ==
  /\ Step(Main, "run", IF k = "str" THEN "set" ELSE "pre")
  /\ arg' = [arg EXCEPT ![Main] = k]
  /\ UNCHANGED <<shutdown, countVars, gate, worldVars, threadVars, ret, uses, freed>>

GateNext == [pre |-> "prelive", prelive |-> "preenter", preenter |-> "set",
             post |-> "postlive", postlive |-> "postenter", postenter |-> "held"]

GateRead ==
  /\ pc[Main] \in DOMAIN GateNext
  /\ IF Quiet(arg[Main], pc[Main])
     THEN Goto(Main, GateNext[pc[Main]]) /\ UNCHANGED <<gate, arg>>
     ELSE Goto(Main, "run") /\ gate' = "none" /\ Drop(Main)
  /\ UNCHANGED <<shutdown, countVars, worldVars, threadVars, ret, uses, freed>>

GateSet ==
  /\ Step(Main, "set", "post")
  /\ gate' = arg[Main]
  /\ UNCHANGED <<shutdown, countVars, worldVars, threadVars, localVars, freed>>

GateLeave ==
  /\ Step(Main, "held", "run")
  /\ gate' = "none" /\ Drop(Main)
  /\ UNCHANGED <<shutdown, countVars, worldVars, threadVars, ret, uses, freed>>

-----------------------------------------------------------------------------
(* lua_close by Main: lj_threading_shutdown, then close_state.               *)
Close ==
  /\ Step(Main, "run", "early")
  /\ shutdown' = TRUE
  /\ UNCHANGED <<countVars, gate, worldVars, threadVars, localVars, freed>>

(* The early return reads the list, live and entering, in this order.        *)
Early ==
  /\ \/ Step(Main, "early", IF nodes = {} THEN "earlylive" ELSE "waitenter")
     \/ Step(Main, "earlylive", IF live = 0 THEN "earlyenter" ELSE "waitenter")
     \/ Step(Main, "earlyenter", IF entering = 0 THEN "closed" ELSE "waitenter")
  /\ UNCHANGED <<shutdown, countVars, gate, worldVars, threadVars, localVars, freed>>

(* Mutant: the closer does not wait for the threads on their way in.         *)
WaitNobody ==
  /\ Step(Main, "waitenter", IF live = 0 THEN "nodes" ELSE "tell")
  /\ UNCHANGED <<shutdown, countVars, gate, worldVars, threadVars, localVars, freed>>

WaitEntering ==
  /\ Step(Main, "waitenter", "tell") /\ entering = 0
  /\ UNCHANGED <<shutdown, countVars, gate, worldVars, threadVars, localVars, freed>>

(* The stop handshake; the closer clears its own request.                    *)
Tell ==
  /\ At(Main, "tell")
  /\ IF live = 0 THEN Goto(Main, "nodes") /\ UNCHANGED stop
     ELSE Goto(Main, "drain") /\ stop' = attached \ {Main}
  /\ UNCHANGED <<shutdown, countVars, gate, attached, threadVars, localVars, freed>>

Drain ==
  /\ Step(Main, "drain", "nodes") /\ live = 0
  /\ UNCHANGED <<shutdown, countVars, gate, worldVars, threadVars, localVars, freed>>

(* The walk over the live nodes: wait for done, then join unless somebody has. *)
TakeNode(w) ==
  /\ At(Main, "nodes") /\ w \in nodes /\ thState[w] = "done"
  /\ arg' = [arg EXCEPT ![Main] = w]
  /\ joined' = joined \cup {w}
  /\ Goto(Main, IF w \in joined THEN "closeremove" ELSE "closewait")
  /\ UNCHANGED <<shutdown, countVars, gate, worldVars, nodes, thState, ready, joins, known,
                 ret, uses, freed>>

CloseWait ==
  /\ Step(Main, "closewait", "closeremove") /\ pc[arg[Main]] = "gone"
  /\ joins' = [joins EXCEPT ![arg[Main]] = @ + 1]
  /\ UNCHANGED <<shutdown, countVars, gate, worldVars, nodes, thState, ready, joined, known,
                 localVars, freed>>

CloseRemove ==
  /\ Step(Main, "closeremove", "nodes")
  /\ nodes' = nodes \ {arg[Main]} /\ Drop(Main)
  /\ UNCHANGED <<shutdown, countVars, gate, worldVars, thState, ready, joined, joins, known,
                 ret, uses, freed>>

NodesDone ==
  /\ Step(Main, "nodes", "closed") /\ nodes = {}
  /\ UNCHANGED <<shutdown, countVars, gate, worldVars, threadVars, localVars, freed>>

Free ==
  /\ At(Main, "closed") /\ ~freed
  /\ freed' = TRUE
  /\ UNCHANGED <<shutdown, countVars, gate, worldVars, threadVars, pc, localVars>>

-----------------------------------------------------------------------------
(* What a thread goes on with by itself, once it is in one of these calls.   *)
Admission(t) ==
  \/ Publish(t) \/ Enter(t) \/ EnterGate(t) \/ Excl(t) \/ CountLive(t)
  \/ Recheck(t) \/ Shut(t) \/ Leave(t) \/ Touch(t)
Spawner(t) ==
  \/ Refused(t) \/ Create(t) \/ WaitReady(t) \/ Release(t) \/ WaitRun(t)
  \/ Abort(t) \/ AbortJoin(t) \/ AbortWait(t) \/ AbortRemove(t)
Joiner(t) == JoinWait(t) \/ JoinCas(t) \/ JoinOs(t) \/ JoinResults(t)
Attacher(f) == Link(f) \/ ClaimState(f) \/ Rooted(f) \/ Final(f) \/ Undo(f) \/ Unenter(f)
Worker(w) ==
  \/ Boot(w) \/ Prepare(w) \/ Ready(w) \/ WaitStart(w) \/ Run(w)
  \/ Cleanup(w) \/ Done(w) \/ Exit(w)
Gate == GateRead \/ GateSet \/ GateLeave
Closer ==
  \/ Early \/ WaitEntering \/ Tell \/ Drain \/ CloseWait \/ CloseRemove \/ NodesDone \/ Free
  \/ \E w \in Workers : TakeNode(w)

Internal(t) ==
  \/ Admission(t) \/ Spawner(t) \/ Joiner(t)
  \/ t \in Foreign /\ Attacher(t)
  \/ t \in Workers /\ Worker(t)
  \/ t = Main /\ (Gate \/ Closer)

(* What the program decides.                                                 *)
Return(t) == (t \in Foreign /\ Detach(t)) \/ (t \in Workers /\ Finish(t))
Request(t) ==
  \/ t \in Foreign /\ Attach(t)
  \/ \E w \in Workers : Spawn(t, w) \/ Join(t, w)
  \/ t = Main /\ (Close \/ \E k \in Gates : GateBegin(k))

Next == \E t \in Threads : Internal(t) \/ Return(t) \/ Request(t)

Spec == Init /\ [][Next]_vars

(* Every call goes on; a program that has been told to stop returns.         *)
Fairness ==
  /\ \A t \in Threads : WF_vars(Internal(t))
  /\ \A t \in Others : SF_vars(Stopped(t) /\ Return(t))

FairSpec == Spec /\ Fairness

-----------------------------------------------------------------------------
(* Who holds a place in entering, and in live: a thread for itself, or a     *)
(* spawner for its worker, to whom pthread_create hands it over.             *)
HoldsEntering(t) ==
  \/ pc[t] \in {"gate", "excl", "live", "recheck"}
  \/ pc[t] \in {"leave", "touch"} /\ ret[t] = "excl"
  \/ /\ t \in Foreign /\ ~Spawning(t)
     /\ \/ pc[t] \in {"shut"} \cup (ForeignPCs \ {"out"})
        \/ pc[t] \in {"leave", "touch"} /\ ret[t] = "undo"

HoldsLive(t) ==
  \/ pc[t] = "run" \/ Spawning(t)
  \/ pc[t] \in {"leave", "touch"} /\ ret[t] = "run"
  \/ pc[t] = "leave"
  \/ t \in Foreign /\ pc[t] \in {"recheck", "shut", "final", "undolive", "unenterlive"}
  \/ t \in Workers /\ pc[t] \in WorkerPCs \ {"none", "wdone", "wexit", "gone"}

HoldsForWorker(t) ==
  \/ Spawning(t) /\ pc[t] \in {"recheck", "shut", "create"}
  \/ Spawning(t) /\ pc[t] = "leave"
  \/ pc[t] = "leave" /\ ret[t] = "run"

(* In every interleaving of entrants, spawners, failed starts and exits,      *)
(* mt_entering and mt_live count exactly the threads on their way in and the  *)
(* threads in the world, with those whose start is still under way.           *)
CountsExact ==
  /\ entering = Cardinality({t \in Threads : HoldsEntering(t)})
  /\ live = Cardinality({t \in Others : HoldsLive(t)})
             + Cardinality({t \in Threads : HoldsForWorker(t)})

Admitted(t) ==
  \/ pc[t] \in {"run", "final", "wready", "wwait", "wshut"} \/ Spawning(t)

(* While Main works behind the string reclaimer's gate or the exclusive gate  *)
(* of the sweep and of setlocale, no other thread has been admitted: the      *)
(* entrant's second look at these gates closes the race with the reads of     *)
(* live and entering, which are not taken at one instant.                     *)
GateExclusive ==
  pc[Main] = "held" /\ gate \in {"gc", "str"} => \A t \in Others : ~Admitted(t)

(* pthread_join is called once at the most for each OS thread, by a joiner,   *)
(* the spawner of an aborted start or lua_close, and when g is freed every    *)
(* OS thread that was created has been joined.                                *)
JoinedOnce ==
  \A w \in Workers :
    /\ joins[w] <= 1
    /\ freed /\ pc[w] # "none" => pc[w] = "gone" /\ joins[w] = 1

(* A worker enters its function only after its spawner has released it: not   *)
(* while the start may still be aborted, and never after an abort.            *)
AbortedNeverRuns ==
  \A w \in Workers :
    pc[w] = "run" \/ ready[w] = 2 => thState[w] \in {"running", "done"}

(* Once lua_close has sent the stop handshake, whoever still runs Lua has been *)
(* told; and when it walks the list of nodes, all others have left, are about  *)
(* to be refused, or have only the steps after their last count to go.         *)
WorldStops ==
  /\ pc[Main] \in {"drain", "nodes", "closewait", "closeremove"}
       => \A t \in Others : pc[t] = "run" => Stopped(t)
  /\ pc[Main] \in {"nodes", "closewait", "closeremove"}
       => \A t \in Others :
            pc[t] \in {"out", "none", "gate", "touch", "wdone", "wexit", "gone"}

(* lua_close comes to its end: no thread it waits for waits for it, and no    *)
(* node is left whose thread will never be done.                              *)
CloseCompletes == shutdown ~> freed

-----------------------------------------------------------------------------
(* The comments' claims that the two counters do not keep.                    *)

(* lj_tg.c, tg_reclaim_writer_try: "the second full recheck closes both        *)
(* admission races": while dead TGs are unlinked and freed, no other thread    *)
(* has been admitted.                                                          *)
ReclaimAlone ==
  pc[Main] = "held" /\ gate = "tg" => \A t \in Others : ~Admitted(t)

(* lib_threading.c, threading_attach_cleanup: "the lifetime boundary observed  *)
(* by lua_close": when g is freed, no thread that was let in has a step in it  *)
(* left to do.  (One that is refused at once came too late; that is for the    *)
(* program to rule out.)                                                       *)
GlobalOutlives ==
  freed => \A t \in Others : pc[t] \in {"out", "none", "gate", "gone"}
=============================================================================
