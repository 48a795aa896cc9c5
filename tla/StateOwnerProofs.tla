-------------------------- MODULE StateOwnerProofs --------------------------
(***************************************************************************)
(* Theorems about the ownership of a lua_State (lj_thr.c, lj_state.c and   *)
(* the thread traversal of lj_gc2.c), for every finite set of mutators, any *)
(* set of workers and any number of cycles and claims.  The invariants are *)
(* layers, each inductive relative to the ones before it: AuthInv (who may *)
(* work on L), TokenInv (the NEEDSCAN token and its aggregate), ReclaimInv *)
(* (marking against preparation), ScanInv (hand-offs and scan stamps) and  *)
(* ValueInv (ranges).                                                      *)
(***************************************************************************)
EXTENDS StateOwner, FiniteSetTheorems, TLAPS

(* What the owner word and the places of the threads need of their types.   *)
AuthTypes ==
  /\ pc \in [Threads -> MutatorPCs \cup GcPCs]
  /\ \A m \in Mutators : pc[m] \in MutatorPCs
  /\ pc[Gc] \in GcPCs
  /\ gcprep \in {"none", "pending", "done"}
  /\ queued \in BOOLEAN

(* A preparation is published once: by its preparer, with the state still   *)
(* on no queue, and drained by whoever takes it off the queue.              *)
PrepPhase ==
  /\ pc[Gc] \in {"roots", "pinned"} => gcprep = "none"
  /\ pc[Gc] = "drain" => gcprep = "pending" /\ ~queued
  /\ queued => gcprep = "pending"

AuthInv == AuthTypes /\ PrepPhase /\ OneAuthority

(* Nobody holds a fresh state.                                              *)
LEMMA AuthInit == Init => AuthInv
<1> SUFFICES ASSUME Init PROVE AuthInv
  OBVIOUS
<1>1. owner = Free /\ gcprep = "none" /\ queued = FALSE
  BY DEF Init
<1>2. pc = [t \in Threads |-> "idle"]
  BY DEF Init
<1>3. /\ pc \in [Threads -> MutatorPCs \cup GcPCs]
      /\ \A t \in Threads : pc[t] = "idle"
  BY <1>2 DEF MutatorPCs, GcPCs
<1>4. AuthTypes
  <2>1. Gc \in Threads /\ Mutators \subseteq Threads
    BY DEF Threads
  <2>2. /\ \A m \in Mutators : pc[m] \in MutatorPCs
        /\ pc[Gc] \in GcPCs
    BY <1>3, <2>1 DEF MutatorPCs, GcPCs
  <2> QED
    BY <1>1, <1>3, <2>2 DEF AuthTypes
<1>5. OneAuthority
  BY <1>1, <1>3 DEF OneAuthority, Threads, Holds, Leaves, OwnerScanning,
       GcScans, GcPrepares, HandoffPCs, StampPCs
<1> QED
  BY <1>1, <1>3, <1>4, <1>5 DEF AuthInv, PrepPhase, Threads

(* No step gives a second thread authority over L: each CAS of the owner     *)
(* word starts from a word that says nobody else has it.                    *)
LEMMA AuthStep == AuthInv /\ [Next]_vars => AuthInv'
<1> SUFFICES ASSUME AuthInv, [Next]_vars PROVE AuthInv'
  OBVIOUS
<1> USE OwnerAssumption
    DEF AuthInv, AuthTypes, PrepPhase, OneAuthority, Free, Word,
      Threads, MutatorPCs, GcPCs, HandoffPCs, StampPCs, Holds, Leaves,
      OwnerScanning, GcScans, GcHolds, GcPrepares, At, Goto, Step, claimVars,
      prepVars, cycleVars, localVars, tokenVars, scanVars
<1>1. ASSUME NEW m \in Mutators, Enter(m) PROVE AuthInv'
  BY <1>1 DEF Enter
<1>2. ASSUME NEW m \in Mutators, Release(m) PROVE AuthInv'
  BY <1>2 DEF Release, ToSentinel
<1>3. ASSUME NEW m \in Mutators, OwnerScanBegin(m) PROVE AuthInv'
  BY <1>3 DEF OwnerScanBegin
<1>4. ASSUME NEW m \in Mutators, SameOwnerTraverse(m) PROVE AuthInv'
  BY <1>4 DEF SameOwnerTraverse
<1>5. ASSUME NEW m \in Mutators, ClaimCheck(m) PROVE AuthInv'
  BY <1>5 DEF ClaimCheck
<1>6. ASSUME NEW m \in Mutators, ClaimCas(m) PROVE AuthInv'
  BY <1>6 DEF ClaimCas
<1>7. ASSUME NEW m \in Mutators, ClaimConfirm(m) PROVE AuthInv'
  BY <1>7 DEF ClaimConfirm, ToSentinel
<1>8. ASSUME NEW m \in Mutators, ReleaseHook(m) PROVE AuthInv'
  BY <1>8 DEF ReleaseHook
<1>9. ASSUME NEW m \in Mutators, ReleaseWake(m) PROVE AuthInv'
  BY <1>9 DEF ReleaseWake
<1>10. ASSUME NEW m \in Mutators, ReleaseZero(m) PROVE AuthInv'
  BY <1>10 DEF ReleaseZero
<1>11. ASSUME NEW t \in Threads, ScanOk(t) PROVE AuthInv'
  BY <1>11 DEF ScanOk
<1>12. ASSUME NEW t \in Threads, ScanRetry(t) PROVE AuthInv'
  BY <1>12 DEF ScanRetry
<1>13. ASSUME NEW t \in Threads, Install(t) PROVE AuthInv'
  BY <1>13 DEF Install
<1>14. ASSUME NEW t \in Threads, InstallCount(t) PROVE AuthInv'
  BY <1>14 DEF InstallCount
<1>15. ASSUME NEW t \in Threads, InstallPublish(t) PROVE AuthInv'
  BY <1>15 DEF InstallPublish
<1>16. ASSUME NEW t \in Threads, EdgeLoad(t) PROVE AuthInv'
  BY <1>16 DEF EdgeLoad
<1>17. ASSUME NEW t \in Threads, EdgeCas(t) PROVE AuthInv'
  BY <1>17 DEF EdgeCas
<1>18. ASSUME NEW t \in Threads, ScanStamp(t) PROVE AuthInv'
  BY <1>18 DEF ScanStamp
<1>19. ASSUME NEW t \in Threads, ClearToken(t) PROVE AuthInv'
  BY <1>19 DEF ClearToken, Cleared, NotCleared
<1>20. ASSUME NEW t \in Threads, ClearCount(t) PROVE AuthInv'
  BY <1>20 DEF ClearCount, Cleared, NotCleared
<1>21. ASSUME Take PROVE AuthInv'
  BY <1>21 DEF Take
<1>22. ASSUME GcClaim PROVE AuthInv'
  BY <1>22 DEF GcClaim, ScanClaim
<1>23. ASSUME GcBusy PROVE AuthInv'
  BY <1>23 DEF GcBusy, ScanClaim, HasLiveOwner
<1>24. ASSUME GcRecheck PROVE AuthInv'
  BY <1>24 DEF GcRecheck, HasLiveOwner
<1>25. ASSUME GcDrop PROVE AuthInv'
  BY <1>25 DEF GcDrop, DropClaim
<1>26. ASSUME GcRequeue PROVE AuthInv'
  BY <1>26 DEF GcRequeue, DropClaim
<1>27. ASSUME Activated PROVE AuthInv'
  BY <1>27 DEF Activated
<1>28. ASSUME PrepRoots PROVE AuthInv'
  BY <1>28 DEF PrepRoots
<1>29. ASSUME PrepCancel PROVE AuthInv'
  BY <1>29 DEF PrepCancel
<1>30. ASSUME PrepPublish PROVE AuthInv'
  BY <1>30 DEF PrepPublish
<1>31. ASSUME PrepDone PROVE AuthInv'
  BY <1>31 DEF PrepDone
<1>32. ASSUME PrepClaim PROVE AuthInv'
  BY <1>32 DEF PrepClaim
<1>33. ASSUME PrepDrain PROVE AuthInv'
  <2>1. AuthTypes'
    BY <1>33 DEF PrepDrain
  <2>2. PrepPhase'
    BY <1>33 DEF PrepDrain
  <2>3. gcprep = "pending" /\ owner.tid = Prep /\ pc[Gc] = "idle"
    BY <1>33 DEF PrepDrain
  <2>4. \A m \in Mutators : ~Holds(m) /\ ~Leaves(m)
    BY <2>3
  <2>5. \A m \in Mutators : ~Holds(m)' /\ ~Leaves(m)'
    BY <1>33, <2>4 DEF PrepDrain
  <2>6. ~GcScans' /\ owner'.tid = Prep
    BY <1>33 DEF PrepDrain
  <2>7. OneAuthority'
    BY <2>5, <2>6
  <2> QED
    BY <2>1, <2>2, <2>7
<1>34. ASSUME Discover PROVE AuthInv'
  BY <1>34 DEF Discover
<1>35. ASSUME Rediscover PROVE AuthInv'
  BY <1>35 DEF Rediscover
<1>36. ASSUME CloseMark PROVE AuthInv'
  BY <1>36 DEF CloseMark
<1>37. ASSUME NewCycle PROVE AuthInv'
  BY <1>37 DEF NewCycle
<1>38. ASSUME Unreference PROVE AuthInv'
  BY <1>38 DEF Unreference
<1>39. CASE UNCHANGED vars
  BY <1>39 DEF vars
<1> HIDE DEF AuthInv, AuthTypes, PrepPhase, OneAuthority, Free, Word,
      Threads, MutatorPCs, GcPCs, HandoffPCs, StampPCs, Holds, Leaves,
      OwnerScanning, GcScans, GcHolds, GcPrepares, At, Goto, Step, claimVars,
      prepVars, cycleVars, localVars, tokenVars, scanVars
<1>40. ASSUME NEW t \in Threads, Handoff(t) \/ Certify(t) PROVE AuthInv'
  BY <1>13, <1>14, <1>15, <1>16, <1>17, <1>18, <1>19, <1>20, <1>40 DEF Handoff,
     Certify
<1>41. ASSUME NEW m \in Mutators, MutatorSteps(m) PROVE AuthInv'
  BY <1>5, <1>6, <1>7, <1>8, <1>9, <1>10, <1>40, <1>41 DEF MutatorSteps,
     Threads
<1>42. ASSUME GcSteps PROVE AuthInv'
  BY <1>21, <1>22, <1>23, <1>24, <1>25, <1>26, <1>27, <1>28, <1>29, <1>30,
     <1>31, <1>40, <1>42 DEF GcSteps, Threads
<1> QED
  BY <1>1, <1>2, <1>3, <1>4, <1>11, <1>12, <1>32, <1>33, <1>34, <1>35, <1>36,
     <1>37, <1>38, <1>39, <1>41, <1>42 DEF Next

(* At most one thread runs on, scans, releases or destroys L, and the owner  *)
(* word names it.                                                           *)
THEOREM OwnerAuthority == Spec => []OneAuthority
<1>1. AuthInv => OneAuthority
  BY DEF AuthInv
<1> QED
  BY <1>1, AuthInit, AuthStep, PTL DEF Spec

-----------------------------------------------------------------------------
(* The token: whoever installs it is alone, and the aggregate counts it      *)
(* from the publication until its clearing is accounted.                     *)
Installing == {t \in Threads : pc[t] \in {"count", "publish"}}
Counting == {t \in Threads : pc[t] \in {"publish", "uncount"}}

TokenOwned ==
  /\ token \in {"none", "installing", "counted"}
  /\ \A t \in Installing : token = "installing"
  /\ \A t, u \in Installing : t = u
  /\ token = "installing" => Installing # {}

TokenInv == TokenOwned /\ PendingExact

(* Sets of threads are finite.                                              *)
LEMMA CountingFinite ==
  ASSUME NEW S \in SUBSET Threads
  PROVE  IsFiniteSet(S) /\ Cardinality(S) \in Nat
<1>1. IsFiniteSet(Threads)
  BY OwnerAssumption, FS_AddElement DEF Threads
<1> QED
  BY <1>1, FS_Subset, FS_CardinalityType

(* A fresh state has no token.                                              *)
LEMMA TokenInit == Init => TokenInv
<1> SUFFICES ASSUME Init PROVE TokenInv
  OBVIOUS
<1>1. \A t \in Threads : pc[t] = "idle"
  BY DEF Init
<1>2. Installing = {} /\ Counting = {}
  BY <1>1 DEF Installing, Counting
<1>3. Cardinality({}) = 0
  BY FS_EmptySet
<1>4. token = "none" /\ pending = 0
  BY DEF Init
<1>5. Cardinality(Counting) = 0
  BY <1>2, <1>3
<1>6. PendingExact
  BY <1>4, <1>5 DEF PendingExact, Counting
<1> QED
  BY <1>2, <1>4, <1>6 DEF TokenInv, TokenOwned

(* A step that moves no thread into or out of the places that count.        *)
LEMMA TokenFrame ==
  ASSUME TokenInv, UNCHANGED <<token, pending>>,
         Installing' = Installing, Counting' = Counting
  PROVE  TokenInv'
<1>1. TokenOwned'
  BY DEF TokenInv, TokenOwned
<1>2. PendingExact'
  BY DEF TokenInv, PendingExact, Counting
<1> QED
  BY <1>1, <1>2 DEF TokenInv

(* A thread goes from one place to another: what the two sets become.       *)
LEMMA Moves ==
  ASSUME AuthInv, NEW t \in Threads, NEW from, NEW to, Step(t, from, to)
  PROVE  /\ Installing' = IF to \in {"count", "publish"}
                          THEN Installing \cup {t} ELSE Installing \ {t}
         /\ Counting' = IF to \in {"publish", "uncount"}
                        THEN Counting \cup {t} ELSE Counting \ {t}
<1>1. \A u \in Threads : pc'[u] = IF u = t THEN to ELSE pc[u]
  BY DEF AuthInv, AuthTypes, Step, Goto
<1>2. Installing' = IF to \in {"count", "publish"}
                    THEN Installing \cup {t} ELSE Installing \ {t}
  <2>1. CASE to \in {"count", "publish"}
    BY <1>1, <2>1 DEF Installing
  <2>2. CASE to \notin {"count", "publish"}
    BY <1>1, <2>2 DEF Installing
  <2> QED
    BY <2>1, <2>2
<1>3. Counting' = IF to \in {"publish", "uncount"}
                  THEN Counting \cup {t} ELSE Counting \ {t}
  <2>1. CASE to \in {"publish", "uncount"}
    BY <1>1, <2>1 DEF Counting
  <2>2. CASE to \notin {"publish", "uncount"}
    BY <1>1, <2>2 DEF Counting
  <2> QED
    BY <2>1, <2>2
<1> QED
  BY <1>2, <1>3

(* No step loses or doubles a token.  An owner that traverses its own stack  *)
(* may reset the aggregate because it alone has authority over L.           *)
LEMMA TokenStep == AuthInv /\ TokenInv /\ [Next]_vars => TokenInv'
<1> SUFFICES ASSUME AuthInv, TokenInv, [Next]_vars PROVE TokenInv'
  OBVIOUS
<1> DEFINE Elsewhere(s) == s \notin {"count", "publish", "uncount"}
<1>1. ASSUME NEW t \in Threads, NEW to, pc' = [pc EXCEPT ![t] = to],
             Elsewhere(pc[t]), Elsewhere(to), UNCHANGED <<token, pending>>
      PROVE  TokenInv'
  <2>1. Step(t, pc[t], to) /\ t \notin Installing /\ t \notin Counting
    BY <1>1 DEF Step, At, Goto, Installing, Counting
  <2>2. Installing' = Installing /\ Counting' = Counting
    BY <1>1, <2>1, Moves
  <2> QED
    BY <1>1, <2>2, TokenFrame
<1>2. ASSUME UNCHANGED <<pc, token, pending>> PROVE TokenInv'
  BY <1>2, TokenFrame DEF Installing, Counting
<1>3. ASSUME NEW m \in Mutators, Enter(m) \/ ClaimCheck(m) \/ ClaimCas(m)
      PROVE  TokenInv'
  BY <1>1, <1>2, <1>3 DEF At, Goto, Step, Elsewhere, Threads, tokenVars,
       Enter, ClaimCheck, ClaimCas
<1>4. ASSUME NEW m \in Mutators, ClaimConfirm(m) \/ Release(m) PROVE TokenInv'
  BY <1>1, <1>2, <1>4 DEF At, Goto, Step, Elsewhere, Threads, tokenVars,
       ClaimConfirm, Release, ToSentinel
<1>5. ASSUME NEW m \in Mutators, ReleaseHook(m) \/ ReleaseWake(m)
                                 \/ ReleaseZero(m)
      PROVE  TokenInv'
  BY <1>1, <1>2, <1>5 DEF At, Goto, Step, Elsewhere, Threads, tokenVars,
       ReleaseHook, ReleaseWake, ReleaseZero
<1>6. ASSUME NEW m \in Mutators, OwnerScanBegin(m) PROVE TokenInv'
  BY <1>1, <1>2, <1>6 DEF At, Goto, Step, Elsewhere, Threads, tokenVars,
       OwnerScanBegin
<1>7. ASSUME NEW t \in Threads, ScanOk(t) \/ ScanRetry(t) \/ ScanStamp(t)
      PROVE  TokenInv'
  BY <1>1, <1>2, <1>7 DEF At, Goto, Step, Elsewhere, Threads, tokenVars,
       ScanOk, ScanRetry, ScanStamp
<1>8. ASSUME NEW t \in Threads, EdgeLoad(t) \/ EdgeCas(t) PROVE TokenInv'
  BY <1>1, <1>2, <1>8 DEF At, Goto, Step, Elsewhere, Threads, tokenVars,
       EdgeLoad, EdgeCas
<1>9. ASSUME Take \/ GcRecheck \/ GcDrop \/ Activated \/ NewCycle
      PROVE  TokenInv'
  BY <1>1, <1>2, <1>9 DEF At, Goto, Step, Elsewhere, Threads, tokenVars,
       Take, GcRecheck, GcDrop, Activated, NewCycle, cycleVars
<1>10. ASSUME GcClaim \/ GcBusy \/ GcRequeue PROVE TokenInv'
  BY <1>1, <1>2, <1>10 DEF At, Goto, Step, Elsewhere, Threads, tokenVars,
       GcClaim, GcBusy, GcRequeue, ScanClaim
<1>11. ASSUME PrepClaim \/ PrepRoots \/ PrepCancel \/ PrepPublish
              \/ PrepDrain \/ PrepDone
       PROVE  TokenInv'
  BY <1>1, <1>2, <1>11 DEF At, Goto, Step, Elsewhere, Threads, tokenVars,
       PrepClaim, PrepRoots, PrepCancel, PrepPublish, PrepDrain, PrepDone
<1>12. ASSUME Discover \/ Rediscover \/ CloseMark \/ Unreference
       PROVE  TokenInv'
  BY <1>1, <1>2, <1>12 DEF At, Goto, Step, Elsewhere, Threads, tokenVars,
       Discover, Rediscover, CloseMark, Unreference
<1>13. ASSUME NEW t \in Threads, Install(t) PROVE TokenInv'
  <2>1. CASE /\ token = "none" /\ token' = "installing"
             /\ Step(t, "install", "count")
    <3>1. Installing = {}
      BY <2>1 DEF TokenInv, TokenOwned
    <3>2. Installing' = {t} /\ Counting' = Counting \ {t} /\ t \notin Counting
      BY <2>1, <3>1, Moves DEF Counting, Step, At
    <3>3. Counting' = Counting /\ pending' = pending
      BY <1>13, <3>2 DEF Install
    <3>4. PendingExact'
      BY <2>1, <3>3 DEF TokenInv, PendingExact, Counting
    <3> QED
      BY <2>1, <3>2, <3>4 DEF TokenInv, TokenOwned
  <2>2. CASE UNCHANGED token /\ Step(t, "install", "edge")
    BY <1>1, <1>13, <2>2 DEF Install, Step, At, Goto, Elsewhere
  <2> QED
    BY <1>13, <2>1, <2>2 DEF Install, Step
<1>14. ASSUME NEW t \in Threads, InstallCount(t) PROVE TokenInv'
  <2>1. /\ Step(t, "count", "publish")
        /\ pending' = pending + 1 /\ UNCHANGED token
    BY <1>14 DEF InstallCount
  <2>2. t \in Installing /\ t \notin Counting
    BY <2>1 DEF Step, At, Installing, Counting
  <2>3. Installing' = Installing \cup {t} /\ Counting' = Counting \cup {t}
    BY <2>1, Moves
  <2>4. Cardinality(Counting') = Cardinality(Counting) + 1
    BY <2>2, <2>3, CountingFinite, FS_AddElement DEF Counting
  <2>5. PendingExact'
    BY <2>1, <2>4, CountingFinite DEF TokenInv, PendingExact, Counting
  <2> QED
    BY <2>1, <2>2, <2>3, <2>5 DEF TokenInv, TokenOwned
<1>15. ASSUME NEW t \in Threads, InstallPublish(t) PROVE TokenInv'
  <2>1. /\ Step(t, "publish", "edge")
        /\ token' = "counted" /\ UNCHANGED pending
    BY <1>15 DEF InstallPublish
  <2>2. t \in Installing /\ t \in Counting
    BY <2>1 DEF Step, At, Installing, Counting
  <2>3. Installing' = Installing \ {t} /\ Counting' = Counting \ {t}
    BY <2>1, Moves
  <2>4. token = "installing" /\ Installing' = {}
    BY <2>2, <2>3 DEF TokenInv, TokenOwned
  <2>5. Cardinality(Counting') = Cardinality(Counting) - 1
    BY <2>2, <2>3, CountingFinite, FS_RemoveElement DEF Counting
  <2>6. PendingExact'
    BY <2>1, <2>4, <2>5, CountingFinite DEF TokenInv, PendingExact, Counting
  <2> QED
    BY <2>1, <2>4, <2>6 DEF TokenInv, TokenOwned
<1>16. ASSUME NEW t \in Threads, ClearToken(t) PROVE TokenInv'
  <2>1. CASE /\ token = "counted" /\ token' = "none"
             /\ Step(t, "clear", "uncount")
    <3>1. Installing = {} /\ t \notin Counting
      BY <2>1 DEF TokenInv, TokenOwned, Counting, Step, At
    <3>2. Installing' = {} /\ Counting' = Counting \cup {t}
      BY <2>1, <3>1, Moves
    <3>3. Cardinality(Counting') = Cardinality(Counting) + 1
      BY <3>1, <3>2, CountingFinite, FS_AddElement DEF Counting
    <3>4. UNCHANGED pending
      BY <1>16 DEF ClearToken
    <3>5. PendingExact'
      BY <2>1, <3>3, <3>4, CountingFinite DEF TokenInv, PendingExact, Counting
    <3> QED
      BY <2>1, <3>2, <3>5 DEF TokenInv, TokenOwned
  <2>2. CASE /\ UNCHANGED token
             /\ \E to \in {"drop", "requeue", "run"} : Step(t, "clear", to)
    BY <1>1, <1>16, <2>2 DEF ClearToken, Step, At, Goto, Elsewhere
  <2> QED
    BY <1>16, <2>1, <2>2 DEF ClearToken, Step, Cleared, NotCleared
<1>17. ASSUME NEW t \in Threads, ClearCount(t) PROVE TokenInv'
  <2>1. PICK to \in {"drop", "run"} : Step(t, "uncount", to)
    BY <1>17 DEF ClearCount, Cleared
  <2>2. pending' = pending - 1 /\ UNCHANGED token
    BY <1>17 DEF ClearCount
  <2>3. t \notin Installing /\ t \in Counting
    BY <2>1 DEF Step, At, Installing, Counting
  <2>4. Installing' = Installing /\ Counting' = Counting \ {t}
    BY <2>1, <2>3, Moves
  <2>5. Cardinality(Counting') = Cardinality(Counting) - 1
    BY <2>3, <2>4, CountingFinite, FS_RemoveElement DEF Counting
  <2>6. PendingExact'
    BY <2>2, <2>5, CountingFinite DEF TokenInv, PendingExact, Counting
  <2> QED
    BY <2>2, <2>4, <2>6 DEF TokenInv, TokenOwned
<1>18. ASSUME NEW m \in Mutators, SameOwnerTraverse(m) PROVE TokenInv'
  <2>1. /\ pc[Gc] = "idle" /\ pc[m] = "run"
        /\ pending' = 0 /\ token' = "none" /\ UNCHANGED pc
    BY <1>18 DEF SameOwnerTraverse, At
  <2>2. \A u \in Mutators : Holds(u) => u = m
    BY <2>1 DEF AuthInv, OneAuthority, Holds, Word
  <2>3. Installing = {} /\ Counting = {}
    BY <2>1, <2>2 DEF Installing, Counting, Threads, Holds, OwnerScanning,
       HandoffPCs, StampPCs
  <2>4. Installing' = {} /\ Counting' = {}
    BY <2>1, <2>3 DEF Installing, Counting
  <2> QED
    BY <2>1, <2>4, FS_EmptySet DEF TokenInv, TokenOwned, PendingExact, Counting
<1>19. CASE UNCHANGED vars
  BY <1>2, <1>19 DEF vars, tokenVars
<1>20. ASSUME NEW t \in Threads, Handoff(t) \/ Certify(t) PROVE TokenInv'
  BY <1>7, <1>8, <1>13, <1>14, <1>15, <1>16, <1>17, <1>20 DEF Handoff, Certify
<1>21. ASSUME NEW m \in Mutators, MutatorSteps(m) PROVE TokenInv'
  BY <1>3, <1>4, <1>5, <1>20, <1>21 DEF MutatorSteps, Threads
<1>22. ASSUME GcSteps PROVE TokenInv'
  BY <1>9, <1>10, <1>11, <1>20, <1>22 DEF GcSteps, Threads
<1> QED
  BY <1>3, <1>4, <1>6, <1>7, <1>9, <1>11, <1>12, <1>18, <1>19, <1>21, <1>22 DEF
     Next

(* The aggregate that holds the phase back is exact: nobody who installs,    *)
(* publishes or clears the token of L can lose or double a pending scan.     *)
THEOREM PendingCounted == Spec => []PendingExact
<1>1. TokenInv => PendingExact
  BY DEF TokenInv
<1> QED
  BY <1>1, AuthInit, AuthStep, TokenInit, TokenStep, PTL DEF Spec

-----------------------------------------------------------------------------
(* No scan is pending and nobody is about to publish one: there is no token. *)
LEMMA NoToken ==
  ASSUME TokenInv, pending = 0, At(Gc, "idle"),
         \A m \in Mutators : ~OwnerScanning(m)
  PROVE  token = "none"
<1>1. token # "counted"
  BY CountingFinite DEF TokenInv, PendingExact, Counting
<1>2. Installing = {}
  BY DEF Installing, Threads, At, OwnerScanning, HandoffPCs
<1> QED
  BY <1>1, <1>2 DEF TokenInv, TokenOwned

(* The collector marks L before anybody scans it for a cycle that is active, *)
(* and an unmarked state in SWEEP is in nobody's hands but a preparer's.     *)
MarkPhase ==
  /\ work \in BOOLEAN /\ marked \in BOOLEAN /\ sweeping \in BOOLEAN
  /\ \A m \in Mutators : OwnerScanning(m) /\ pc[Gc] # "activate" => marked
  /\ pc[Gc] = "activate" => ~sweeping
  /\ sweeping /\ ~marked =>
       /\ ~work /\ token = "none"
       /\ pc[Gc] \in {"idle", "roots", "pinned", "drain"}
  /\ pc[Gc] \in {"roots", "pinned"} => sweeping /\ ~marked

(* A preparer that found no root, or a preparation that was published: only  *)
(* the preparation touches L from here on.                                   *)
Doomed == pc[Gc] = "pinned" \/ gcprep # "none"

DeathPhase ==
  /\ reference = "none" =>
       \A m \in Mutators : pc[m] \in {"idle", "hook", "wake", "zero"}
  /\ gcprep # "none" => owner.tid = Prep
  /\ Doomed => /\ reference = "none" /\ ~work /\ token = "none"
               /\ \A m \in Mutators : pc[m] = "idle"
               /\ pc[Gc] \in {"idle", "activate", "pinned", "drain"}
  /\ freed \in BOOLEAN /\ (freed => gcprep = "done")

ReclaimInv == MarkPhase /\ DeathPhase

(* A fresh state is referenced and not prepared.                            *)
LEMMA ReclaimInit == Init => ReclaimInv
<1> SUFFICES ASSUME Init PROVE ReclaimInv
  OBVIOUS
<1>1. \A t \in Threads : pc[t] = "idle"
  BY DEF Init
<1>2. MarkPhase
  BY <1>1 DEF Init, MarkPhase, Threads, OwnerScanning, HandoffPCs, StampPCs
<1> QED
  BY <1>1, <1>2 DEF Init, ReclaimInv, DeathPhase, Doomed, Threads

(* Preparation starts in SWEEP from a state that is unmarked, so that no      *)
(* item, token or scan of it is left, and from a free owner word.           *)
LEMMA ReclaimStep ==
  AuthInv /\ TokenInv /\ ReclaimInv /\ [Next]_vars => ReclaimInv'
<1> SUFFICES ASSUME AuthInv, TokenInv, ReclaimInv, [Next]_vars
             PROVE  ReclaimInv'
  OBVIOUS
<1> USE OwnerAssumption
    DEF AuthInv, AuthTypes, PrepPhase, OneAuthority, Free, Word,
      Threads, MutatorPCs, GcPCs, HandoffPCs, StampPCs, Holds, Leaves,
      OwnerScanning, GcScans, GcHolds, GcPrepares, At, Goto, Step, claimVars,
      prepVars, cycleVars, localVars, tokenVars, scanVars,
      ReclaimInv, MarkPhase, DeathPhase, Doomed, HasLiveOwner, IsOwner
<1>1. ASSUME NEW m \in Mutators, Enter(m) \/ ClaimCheck(m) \/ ClaimCas(m)
      PROVE  ReclaimInv'
  BY <1>1 DEF Enter, ClaimCheck, ClaimCas
<1>2. ASSUME NEW m \in Mutators, ClaimConfirm(m) PROVE ReclaimInv'
  BY <1>2 DEF ClaimConfirm, ToSentinel
<1>3. ASSUME NEW m \in Mutators, Release(m) PROVE ReclaimInv'
  BY <1>3 DEF Release, ToSentinel
<1>4. ASSUME NEW m \in Mutators, ReleaseHook(m) \/ ReleaseWake(m)
                                 \/ ReleaseZero(m)
      PROVE  ReclaimInv'
  <2>1. CASE ReleaseHook(m)
    BY <2>1, <1>4 DEF ReleaseHook
  <2>2. CASE ReleaseWake(m)
    BY <2>2, <1>4 DEF ReleaseWake
  <2>3. CASE ReleaseZero(m)
    BY <2>3, <1>4 DEF ReleaseZero
  <2> QED
    BY <2>1, <2>2, <2>3, <1>4
<1>5. ASSUME NEW m \in Mutators, OwnerScanBegin(m) PROVE ReclaimInv'
  BY <1>5 DEF OwnerScanBegin
<1>6. ASSUME NEW t \in Threads, ScanOk(t) \/ ScanRetry(t) \/ ScanStamp(t)
      PROVE  ReclaimInv'
  BY <1>6 DEF ScanOk, ScanRetry, ScanStamp
<1>7. ASSUME NEW t \in Threads, Install(t) PROVE ReclaimInv'
  BY <1>7 DEF Install
<1>8. ASSUME NEW t \in Threads, InstallCount(t) \/ InstallPublish(t)
      PROVE  ReclaimInv'
  BY <1>8 DEF InstallCount, InstallPublish
<1>9. ASSUME NEW t \in Threads, EdgeLoad(t) \/ EdgeCas(t) PROVE ReclaimInv'
  <2>1. CASE EdgeLoad(t)
    BY <2>1, <1>9 DEF EdgeLoad
  <2>2. CASE EdgeCas(t)
    BY <2>2, <1>9 DEF EdgeCas
  <2> QED
    BY <2>1, <2>2, <1>9
<1>10. ASSUME NEW t \in Threads, ClearToken(t) \/ ClearCount(t)
       PROVE  ReclaimInv'
  BY <1>10 DEF ClearToken, ClearCount, Cleared, NotCleared
<1>11. ASSUME NEW m \in Mutators, SameOwnerTraverse(m) PROVE ReclaimInv'
  BY <1>11 DEF SameOwnerTraverse
<1>12. ASSUME Take \/ GcClaim PROVE ReclaimInv'
  <2>1. CASE Take
    BY <2>1 DEF Take, ScanClaim
  <2>2. CASE GcClaim
    BY <2>2 DEF GcClaim, ScanClaim
  <2> QED
    BY <2>1, <2>2, <1>12
<1>13. ASSUME GcBusy PROVE ReclaimInv'
  BY <1>13 DEF GcBusy, ScanClaim
<1>14. ASSUME GcRecheck \/ GcDrop \/ GcRequeue PROVE ReclaimInv'
  <2>1. CASE GcRecheck
    BY <2>1 DEF GcRecheck, DropClaim
  <2>2. CASE GcDrop
    BY <2>2 DEF GcDrop, DropClaim
  <2>3. CASE GcRequeue
    BY <2>3 DEF GcRequeue, DropClaim
  <2> QED
    BY <2>1, <2>2, <2>3, <1>14
<1>15. ASSUME PrepClaim \/ PrepRoots PROVE ReclaimInv'
  BY <1>15 DEF PrepClaim, PrepRoots
<1>16. ASSUME PrepCancel \/ PrepPublish PROVE ReclaimInv'
  BY <1>16 DEF PrepCancel, PrepPublish
<1>17. ASSUME PrepDrain \/ PrepDone PROVE ReclaimInv'
  <2>1. CASE PrepDrain
    BY <2>1 DEF PrepDrain
  <2>2. CASE PrepDone
    BY <2>2 DEF PrepDone
  <2> QED
    BY <2>1, <2>2, <1>17
<1>18. ASSUME Discover \/ Rediscover PROVE ReclaimInv'
  <2>1. CASE Discover
    BY <2>1 DEF Discover
  <2>2. CASE Rediscover
    BY <2>2 DEF Rediscover
  <2> QED
    BY <2>1, <2>2, <1>18
<1>19. ASSUME CloseMark PROVE ReclaimInv'
  BY <1>19, NoToken DEF CloseMark
<1>20. ASSUME NewCycle \/ Activated PROVE ReclaimInv'
  <2>1. CASE NewCycle
    BY <2>1 DEF NewCycle
  <2>2. CASE Activated
    BY <2>2 DEF Activated
  <2> QED
    BY <2>1, <2>2, <1>20
<1>21. ASSUME Unreference PROVE ReclaimInv'
  BY <1>21 DEF Unreference
<1>22. CASE UNCHANGED vars
  BY <1>22 DEF vars
<1> HIDE DEF AuthInv, AuthTypes, PrepPhase, OneAuthority, Free, Word,
      Threads, MutatorPCs, GcPCs, HandoffPCs, StampPCs, Holds, Leaves,
      OwnerScanning, GcScans, GcHolds, GcPrepares, At, Goto, Step, claimVars,
      prepVars, cycleVars, localVars, tokenVars, scanVars,
      ReclaimInv, MarkPhase, DeathPhase, Doomed, HasLiveOwner, IsOwner
<1>23. ASSUME NEW t \in Threads, Handoff(t) \/ Certify(t) PROVE ReclaimInv'
  BY <1>6, <1>7, <1>8, <1>9, <1>10, <1>23 DEF Handoff, Certify
<1>24. ASSUME NEW m \in Mutators, MutatorSteps(m) PROVE ReclaimInv'
  BY <1>1, <1>2, <1>4, <1>23, <1>24 DEF MutatorSteps, Threads
<1>25. ASSUME GcSteps PROVE ReclaimInv'
  BY <1>12, <1>13, <1>14, <1>15, <1>16, <1>17, <1>20, <1>23, <1>25
     DEF GcSteps, Threads
<1> QED
  BY <1>1, <1>3, <1>5, <1>6, <1>11, <1>15, <1>17, <1>18, <1>19, <1>20, <1>21,
     <1>22, <1>24, <1>25 DEF Next

(* What is freed was nobody's: nobody will touch L, nothing leads to it and  *)
(* no queue holds it.                                                        *)
THEOREM ReclaimSafe == Spec => []FreedUntouched
<1>1. AuthInv /\ ReclaimInv => FreedUntouched
  BY DEF AuthInv, PrepPhase, ReclaimInv, DeathPhase, Doomed, FreedUntouched, At
<1> QED
  BY <1>1, AuthInit, AuthStep, TokenInit, TokenStep, ReclaimInit, ReclaimStep,
     PTL DEF Spec

-----------------------------------------------------------------------------
(* A scan that is handed over is kept: while L is being let go, or is free,  *)
(* its counted token is backed by a work item or by the collector.           *)
Kept ==
  /\ pc[Gc] \in {"uncount", "drop"} => token = "none"
  /\ token = "counted"
       /\ (owner = Free \/ \E m \in Mutators : pc[m] \in {"wake", "zero"})
       => \/ work
          \/ pc[Gc] \in {"claim", "busy", "edge", "rmw", "recheck", "requeue"}

(* L was reached: it is scanned for this cycle, or somebody still has to.    *)
Scanned ==
  /\ marked => \A m \in Mutators :
       /\ pc[m] \in {"payload", "stamp"} => sample[m] = cycle
       /\ pc[m] \in {"clear", "uncount"} => scanEpoch = cycle
  /\ pc[Gc] \in {"clear", "uncount"} => scanEpoch = cycle
  /\ marked /\ scanEpoch # cycle =>
       \/ work \/ token # "none"
       \/ pc[Gc] \in {"claim", "busy", "payload", "stamp", "requeue", "install"}
       \/ \E m \in Mutators : pc[m] \in {"payload", "stamp", "install"}

ScanInv == cycle \in Nat /\ sample \in [Mutators -> Nat] /\ Kept /\ Scanned

(* A fresh state is neither marked nor handed over.                         *)
LEMMA ScanInit == Init => ScanInv
<1> SUFFICES ASSUME Init PROVE ScanInv
  OBVIOUS
<1>1. \A t \in Threads : pc[t] = "idle"
  BY DEF Init
<1>2. cycle \in Nat /\ sample \in [Mutators -> Nat]
  BY DEF Init
<1>3. marked = FALSE /\ token = "none"
  BY DEF Init
<1> QED
  BY <1>1, <1>2, <1>3 DEF ScanInv, Kept, Scanned, Threads

(* No step forgets a hand-off or the scan of a marked state.                *)
LEMMA ScanStep ==
  AuthInv /\ TokenInv /\ ReclaimInv /\ ScanInv /\ [Next]_vars => ScanInv'
<1> SUFFICES ASSUME AuthInv, TokenInv, ReclaimInv, ScanInv, [Next]_vars
             PROVE  ScanInv'
  OBVIOUS
<1> USE OwnerAssumption
    DEF AuthInv, AuthTypes, PrepPhase, OneAuthority, Free, Word,
      Threads, MutatorPCs, GcPCs, HandoffPCs, StampPCs, Holds, Leaves,
      OwnerScanning, GcScans, GcHolds, GcPrepares, At, Goto, Step, claimVars,
      prepVars, cycleVars, localVars, tokenVars, scanVars,
      ReclaimInv, MarkPhase, DeathPhase, Doomed, HasLiveOwner, IsOwner,
      ScanInv, Kept, Scanned
<1>1. ASSUME NEW m \in Mutators, Enter(m) \/ ClaimCheck(m) \/ ClaimCas(m)
      PROVE  ScanInv'
  BY <1>1 DEF Enter, ClaimCheck, ClaimCas
<1>2. ASSUME NEW m \in Mutators, ClaimConfirm(m) PROVE ScanInv'
  BY <1>2 DEF ClaimConfirm, ToSentinel
<1>3. ASSUME NEW m \in Mutators, Release(m) PROVE ScanInv'
  BY <1>3 DEF Release, ToSentinel
<1>4. ASSUME NEW m \in Mutators, ReleaseHook(m) \/ ReleaseWake(m)
                                 \/ ReleaseZero(m)
      PROVE  ScanInv'
  <2>1. CASE ReleaseHook(m)
    BY <2>1, <1>4 DEF ReleaseHook
  <2>2. CASE ReleaseWake(m)
    BY <2>2, <1>4 DEF ReleaseWake
  <2>3. CASE ReleaseZero(m)
    BY <2>3, <1>4 DEF ReleaseZero
  <2> QED
    BY <2>1, <2>2, <2>3, <1>4
<1>5. ASSUME NEW m \in Mutators, OwnerScanBegin(m) PROVE ScanInv'
  BY <1>5 DEF OwnerScanBegin
<1>6. ASSUME NEW t \in Threads, ScanOk(t) \/ ScanRetry(t) \/ ScanStamp(t)
      PROVE  ScanInv'
  BY <1>6 DEF ScanOk, ScanRetry, ScanStamp
<1>7. ASSUME NEW t \in Threads, Install(t) PROVE ScanInv'
  BY <1>7 DEF Install
<1>8. ASSUME NEW t \in Threads, InstallCount(t) \/ InstallPublish(t)
      PROVE  ScanInv'
  BY <1>8 DEF InstallCount, InstallPublish
<1>9. ASSUME NEW t \in Threads, EdgeLoad(t) \/ EdgeCas(t) PROVE ScanInv'
  BY <1>9 DEF EdgeLoad, EdgeCas
<1>10. ASSUME NEW t \in Threads, ClearToken(t) \/ ClearCount(t) PROVE ScanInv'
  BY <1>10 DEF ClearToken, ClearCount, Cleared, NotCleared
<1>11. ASSUME NEW m \in Mutators, SameOwnerTraverse(m) PROVE ScanInv'
  BY <1>11 DEF SameOwnerTraverse
<1>12. ASSUME Take \/ GcClaim PROVE ScanInv'
  BY <1>12 DEF Take, GcClaim, ScanClaim
<1>13. ASSUME GcBusy PROVE ScanInv'
  BY <1>13 DEF GcBusy, ScanClaim, OwnerScans
<1>14. ASSUME GcRecheck \/ GcDrop \/ GcRequeue PROVE ScanInv'
  BY <1>14 DEF GcRecheck, GcDrop, GcRequeue, DropClaim
<1>15. ASSUME PrepClaim \/ PrepRoots PROVE ScanInv'
  BY <1>15 DEF PrepClaim, PrepRoots
<1>16. ASSUME PrepCancel \/ PrepPublish PROVE ScanInv'
  BY <1>16 DEF PrepCancel, PrepPublish
<1>17. ASSUME PrepDrain \/ PrepDone PROVE ScanInv'
  BY <1>17 DEF PrepDrain, PrepDone
<1>18. ASSUME Discover \/ Rediscover PROVE ScanInv'
  <2>1. CASE Discover
    BY <2>1 DEF Discover
  <2>2. CASE Rediscover
    BY <2>2 DEF Rediscover
  <2> QED
    BY <2>1, <2>2, <1>18
<1>19. ASSUME CloseMark PROVE ScanInv'
  BY <1>19, NoToken DEF CloseMark
<1>20. ASSUME NewCycle \/ Activated PROVE ScanInv'
  BY <1>20 DEF NewCycle, Activated
<1>21. ASSUME Unreference PROVE ScanInv'
  BY <1>21 DEF Unreference
<1>22. CASE UNCHANGED vars
  BY <1>22 DEF vars
<1> HIDE DEF AuthInv, AuthTypes, PrepPhase, OneAuthority, Free, Word,
      Threads, MutatorPCs, GcPCs, HandoffPCs, StampPCs, Holds, Leaves,
      OwnerScanning, GcScans, GcHolds, GcPrepares, At, Goto, Step, claimVars,
      prepVars, cycleVars, localVars, tokenVars, scanVars,
      ReclaimInv, MarkPhase, DeathPhase, Doomed, HasLiveOwner, IsOwner,
      ScanInv, Kept, Scanned
<1>23. ASSUME NEW t \in Threads, Handoff(t) \/ Certify(t) PROVE ScanInv'
  BY <1>6, <1>7, <1>8, <1>9, <1>10, <1>23 DEF Handoff, Certify
<1>24. ASSUME NEW m \in Mutators, MutatorSteps(m) PROVE ScanInv'
  BY <1>1, <1>2, <1>4, <1>23, <1>24 DEF MutatorSteps, Threads
<1>25. ASSUME GcSteps PROVE ScanInv'
  BY <1>12, <1>13, <1>14, <1>15, <1>16, <1>17, <1>20, <1>23, <1>25
     DEF GcSteps, Threads
<1> QED
  BY <1>1, <1>3, <1>5, <1>6, <1>11, <1>15, <1>17, <1>18, <1>19, <1>20, <1>21,
     <1>22, <1>24, <1>25 DEF Next

(* A hand-off never outlives its owner.                                      *)
THEOREM HandoffBacked == Spec => []HandoffKept
<1>1. ScanInv => HandoffKept
  BY DEF ScanInv, Kept, HandoffKept
<1> QED
  BY <1>1, AuthInit, AuthStep, TokenInit, TokenStep, ReclaimInit, ReclaimStep,
     ScanInit, ScanStep, PTL DEF Spec

(* SWEEP is entered by the closure of marking only.                          *)
LEMMA OnlyCloseMark == [Next]_vars /\ ~sweeping /\ sweeping' => CloseMark
<1> SUFFICES ASSUME [Next]_vars, ~sweeping, sweeping', ~CloseMark PROVE FALSE
  OBVIOUS
<1> USE DEF cycleVars
<1>1. ASSUME NEW t \in Threads, Handoff(t) \/ Certify(t) PROVE FALSE
  BY <1>1 DEF Handoff, Certify, Install, InstallCount, InstallPublish,
     EdgeLoad,
     EdgeCas, ScanStamp, ClearToken, ClearCount
<1>2. ASSUME NEW m \in Mutators, MutatorSteps(m) PROVE FALSE
  BY <1>1, <1>2 DEF MutatorSteps, ClaimCheck, ClaimCas, ClaimConfirm,
     ReleaseHook,
     ReleaseWake, ReleaseZero, Threads
<1>3. ASSUME NEW m \in Mutators,
             Enter(m) \/ Release(m) \/ OwnerScanBegin(m) \/ SameOwnerTraverse(m)
      PROVE  FALSE
  BY <1>3 DEF Enter, Release, OwnerScanBegin, SameOwnerTraverse
<1>4. ASSUME NEW t \in Threads, ScanOk(t) \/ ScanRetry(t) PROVE FALSE
  BY <1>4 DEF ScanOk, ScanRetry
<1>5. ASSUME GcSteps PROVE FALSE
  BY <1>1, <1>5 DEF GcSteps, Take, GcClaim, GcBusy, GcRecheck, GcDrop,
     GcRequeue,
     Activated, PrepRoots, PrepCancel, PrepPublish, PrepDone, Threads
<1>6. ASSUME PrepClaim \/ PrepDrain \/ Discover \/ Rediscover \/ NewCycle
             \/ Unreference
      PROVE  FALSE
  BY <1>6 DEF PrepClaim, PrepDrain, Discover, Rediscover, NewCycle, Unreference
<1>7. ~UNCHANGED vars
  BY DEF vars
<1> QED
  BY <1>2, <1>3, <1>4, <1>5, <1>6, <1>7 DEF Next

(* Marking does not close over a stack of L that was reached and not scanned *)
(* in this cycle: no item, no token and no scan is left to do it.            *)
THEOREM MarkingScans == Spec => ClosureScanned
<1>1. ASSUME AuthInv, TokenInv, ReclaimInv, ScanInv, [Next]_vars,
             ~sweeping, sweeping', marked
      PROVE  scanEpoch = cycle
  <2>1. /\ At(Gc, "idle") /\ ~work /\ pending = 0
        /\ \A m \in Mutators : ~OwnerScanning(m)
    BY <1>1, OnlyCloseMark DEF CloseMark
  <2>2. token = "none"
    BY <1>1, <2>1, NoToken
  <2> QED
    BY <1>1, <2>1, <2>2 DEF ScanInv, Scanned, At, OwnerScanning, HandoffPCs,
       StampPCs
<1>2. AuthInv /\ TokenInv /\ ReclaimInv /\ ScanInv /\ [Next]_vars
        => [~sweeping /\ sweeping' /\ marked => scanEpoch = cycle]_vars
  BY <1>1
<1> QED
  BY <1>2, AuthInit, AuthStep, TokenInit, TokenStep, ReclaimInit, ReclaimStep,
     ScanInit, ScanStep, PTL DEF Spec, ClosureScanned

-----------------------------------------------------------------------------
(* The owner words the code writes.                                          *)
LEMMA WordsWritten ==
  /\ Free \in Words
  /\ \A m \in Mutators : Word(m, m) \in Words
  /\ \A s \in {Scan, Prep}, a \in Mutators \cup Workers : Word(s, a) \in Words
BY DEF Words, Free

(* The words, the stamps and the counters stay in range; a mutator that is   *)
(* to release L once more has not used up its claims.                        *)
ValueInv ==
  /\ owner \in Words /\ seen \in [Threads -> Words]
  /\ pins \in 0..1 /\ reference \in {"root", "named", "none"}
  /\ cycle \in 1..MaxCycle /\ sample \in [Mutators -> 1..cycle]
  /\ scanEpoch \in 0..cycle /\ handoffEpoch \in 0..cycle
  /\ scanDirty \in Nat /\ stackDirty \in [Mutators -> Nat]
  /\ \A m \in Mutators :
       IF pc[m] \in {"idle", "hook", "wake", "zero"}
       THEN stackDirty[m] <= MaxRelease[m] ELSE stackDirty[m] < MaxRelease[m]

(* The initial values are in range.                                         *)
LEMMA ValueInit == Init => ValueInv
<1> SUFFICES ASSUME Init PROVE ValueInv
  OBVIOUS
<1>1. \A m \in Mutators :
        pc[m] = "idle" /\ stackDirty[m] = 0 /\ MaxRelease[m] \in Nat
  BY OwnerAssumption DEF Init, Threads
<1>2. owner \in Words /\ seen \in [Threads -> Words]
  BY WordsWritten DEF Init
<1>3. cycle = 1 /\ 1 \in 1..MaxCycle /\ sample \in [Mutators -> 1..cycle]
  BY OwnerAssumption DEF Init
<1>4. stackDirty \in [Mutators -> Nat]
  BY DEF Init
<1> QED
  BY <1>1, <1>2, <1>3, <1>4 DEF Init, ValueInv

(* Every step keeps the ranges.                                             *)
LEMMA ValueStep == AuthInv /\ ValueInv /\ [Next]_vars => ValueInv'
<1> SUFFICES ASSUME AuthInv, ValueInv, [Next]_vars PROVE ValueInv'
  OBVIOUS
<1> USE OwnerAssumption, WordsWritten
    DEF AuthInv, AuthTypes, Threads, MutatorPCs, HandoffPCs, StampPCs,
      At, Goto, Step, claimVars, prepVars, cycleVars, localVars, tokenVars,
      scanVars, ValueInv, OwnerDirty, HasLiveOwner, IsOwner
<1>1. ASSUME NEW m \in Mutators, Enter(m) \/ ClaimCheck(m) \/ ClaimCas(m)
      PROVE  ValueInv'
  BY <1>1 DEF Enter, ClaimCheck, ClaimCas
<1>2. ASSUME NEW m \in Mutators, ClaimConfirm(m) PROVE ValueInv'
  BY <1>2 DEF ClaimConfirm, ToSentinel
<1>3. ASSUME NEW m \in Mutators, Release(m) PROVE ValueInv'
  BY <1>3 DEF Release, ToSentinel
<1>4. ASSUME NEW m \in Mutators, ReleaseHook(m) \/ ReleaseWake(m)
                                 \/ ReleaseZero(m)
      PROVE  ValueInv'
  BY <1>4 DEF ReleaseHook, ReleaseWake, ReleaseZero
<1>5. ASSUME NEW m \in Mutators, OwnerScanBegin(m) PROVE ValueInv'
  BY <1>5 DEF OwnerScanBegin
<1>6. ASSUME NEW t \in Threads, ScanOk(t) \/ ScanRetry(t) \/ ScanStamp(t)
      PROVE  ValueInv'
  BY <1>6 DEF ScanOk, ScanRetry, ScanStamp
<1>7. ASSUME NEW t \in Threads, Install(t) PROVE ValueInv'
  BY <1>7 DEF Install
<1>8. ASSUME NEW t \in Threads, InstallCount(t) \/ InstallPublish(t)
      PROVE  ValueInv'
  BY <1>8 DEF InstallCount, InstallPublish
<1>9. ASSUME NEW t \in Threads, EdgeLoad(t) \/ EdgeCas(t) PROVE ValueInv'
  BY <1>9 DEF EdgeLoad, EdgeCas
<1>10. ASSUME NEW t \in Threads, ClearToken(t) \/ ClearCount(t) PROVE ValueInv'
  BY <1>10 DEF ClearToken, ClearCount, Cleared, NotCleared
<1>11. ASSUME NEW m \in Mutators, SameOwnerTraverse(m) PROVE ValueInv'
  BY <1>11 DEF SameOwnerTraverse
<1>12. ASSUME Take \/ GcClaim PROVE ValueInv'
  BY <1>12 DEF Take, GcClaim, ScanClaim
<1>13. ASSUME GcBusy PROVE ValueInv'
  BY <1>13 DEF GcBusy, ScanClaim
<1>14. ASSUME GcRecheck \/ GcDrop \/ GcRequeue PROVE ValueInv'
  BY <1>14 DEF GcRecheck, GcDrop, GcRequeue, DropClaim
<1>15. ASSUME PrepClaim \/ PrepRoots PROVE ValueInv'
  BY <1>15 DEF PrepClaim, PrepRoots
<1>16. ASSUME PrepCancel \/ PrepPublish PROVE ValueInv'
  BY <1>16 DEF PrepCancel, PrepPublish
<1>17. ASSUME PrepDrain \/ PrepDone PROVE ValueInv'
  BY <1>17 DEF PrepDrain, PrepDone
<1>18. ASSUME Discover \/ Rediscover PROVE ValueInv'
  BY <1>18 DEF Discover, Rediscover
<1>19. ASSUME CloseMark PROVE ValueInv'
  BY <1>19 DEF CloseMark
<1>20. ASSUME NewCycle \/ Activated PROVE ValueInv'
  BY <1>20 DEF NewCycle, Activated
<1>21. ASSUME Unreference PROVE ValueInv'
  BY <1>21 DEF Unreference
<1>22. CASE UNCHANGED vars
  BY <1>22 DEF vars
<1> HIDE DEF AuthInv, AuthTypes, Threads, MutatorPCs, HandoffPCs, StampPCs,
      At, Goto, Step, claimVars, prepVars, cycleVars, localVars, tokenVars,
      scanVars, ValueInv, OwnerDirty, HasLiveOwner, IsOwner
<1>23. ASSUME NEW t \in Threads, Handoff(t) \/ Certify(t) PROVE ValueInv'
  BY <1>6, <1>7, <1>8, <1>9, <1>10, <1>23 DEF Handoff, Certify
<1>24. ASSUME NEW m \in Mutators, MutatorSteps(m) PROVE ValueInv'
  BY <1>1, <1>2, <1>4, <1>23, <1>24 DEF MutatorSteps, Threads
<1>25. ASSUME GcSteps PROVE ValueInv'
  BY <1>12, <1>13, <1>14, <1>15, <1>16, <1>17, <1>20, <1>23, <1>25
     DEF GcSteps, Threads
<1> QED
  BY <1>1, <1>3, <1>5, <1>6, <1>11, <1>15, <1>17, <1>18, <1>19, <1>20, <1>21,
     <1>22, <1>24, <1>25 DEF Next

(* Every variable keeps its type, and the aggregate never exceeds the number *)
(* of threads: of the collector and the mutators only mutators can be        *)
(* between a token and its count while another token is counted.             *)
THEOREM TypeCorrect == Spec => []TypeOK
<1>1. ASSUME AuthInv, TokenInv, ReclaimInv, ScanInv, ValueInv PROVE TypeOK
  <2>1. pending \in 0..Cardinality(Threads)
    <3>1. Counting \subseteq Threads /\ IsFiniteSet(Threads)
      BY CountingFinite DEF Counting
    <3>2. Cardinality(Counting) <= Cardinality(Threads)
      BY <3>1, FS_Subset
    <3>3. CASE token = "counted"
      <4>1. Gc \notin Counting
        BY <1>1, <3>3 DEF Counting, Installing, TokenInv, TokenOwned, ScanInv,
           Kept
      <4>2. Counting # Threads
        BY <4>1 DEF Threads
      <4>3. Cardinality(Counting) # Cardinality(Threads)
        BY <3>1, <4>2, FS_Subset
      <4> QED
        BY <1>1, <3>1, <3>2, <3>3, <4>3, CountingFinite
           DEF TokenInv, PendingExact, Counting
    <3>4. CASE token # "counted"
      BY <1>1, <3>1, <3>2, <3>4, CountingFinite DEF TokenInv, PendingExact,
         Counting
    <3> QED
      BY <3>3, <3>4
  <2>2. sample \in [Mutators -> 1..MaxCycle]
    BY <1>1, OwnerAssumption DEF ValueInv
  <2>3. \A m \in Mutators : stackDirty[m] \in 0..MaxRelease[m]
    BY <1>1, OwnerAssumption DEF ValueInv
  <2>4. {work, marked, sweeping, queued, freed} \subseteq BOOLEAN
    BY <1>1 DEF AuthInv, AuthTypes, ReclaimInv, MarkPhase, DeathPhase
  <2>5. {scanEpoch, handoffEpoch} \subseteq 0..cycle /\ scanDirty \in Nat
    BY <1>1 DEF ValueInv
  <2>6. /\ owner \in Words /\ seen \in [Threads -> Words]
        /\ pins \in 0..1 /\ reference \in {"root", "named", "none"}
        /\ cycle \in 1..MaxCycle
    BY <1>1 DEF ValueInv
  <2>7. /\ gcprep \in {"none", "pending", "done"}
        /\ token \in {"none", "installing", "counted"}
    BY <1>1 DEF AuthInv, AuthTypes, TokenInv, TokenOwned
  <2>8. /\ pc \in [Threads -> MutatorPCs \cup GcPCs]
        /\ \A m \in Mutators : pc[m] \in MutatorPCs
        /\ pc[Gc] \in GcPCs
    BY <1>1 DEF AuthInv, AuthTypes
  <2> QED
    BY <2>1, <2>2, <2>3, <2>4, <2>5, <2>6, <2>7, <2>8 DEF TypeOK
<1> QED
  BY <1>1, AuthInit, AuthStep, TokenInit, TokenStep, ReclaimInit, ReclaimStep,
     ScanInit, ScanStep, ValueInit, ValueStep, PTL DEF Spec
=============================================================================
