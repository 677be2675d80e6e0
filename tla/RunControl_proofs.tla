------------------------- MODULE RunControl_proofs -------------------------
(* What RunControl guarantees for every tree of runs, every set of branches *)
(* and every set of threads.                                                *)
EXTENDS RunControl, FiniteSetTheorems, TLAPS

\* Where branches and threads belong.
LEMMA OwnerRun ==
  /\ \A b \in Branches : RunOf[b] \in Runs
  /\ \A t \in Threads : BranchOf[t] \in Branches /\ ThreadRun(t) \in Runs
BY OwnerAssumption DEF ThreadRun

\* A poke moves pcs to pcs.
LEMMA PokeType ==
  ASSUME TypeOK, NEW r \in Runs
  PROVE  /\ PokedBranches(r) \in [Branches -> BranchPcs]
         /\ PokedThreads(r) \in [Threads -> ThreadPcs]
BY DEF TypeOK, PokedBranches, PokedThreads, BranchPcs, ThreadPcs

LEMMA TypeNext == TypeOK /\ [Next]_vars => TypeOK'
<1> SUFFICES ASSUME TypeOK, [Next]_vars PROVE TypeOK'
  OBVIOUS
<1>1. ASSUME NEW r \in Runs, Launch(r) PROVE TypeOK'
  BY <1>1 DEF TypeOK, BranchPcs, Launch, Start
<1>2. ASSUME NEW r \in Runs, Untrack(r) PROVE TypeOK'
  BY <1>2 DEF TypeOK, Untrack
<1>3. ASSUME NEW r \in Runs, Cancel(r) PROVE TypeOK'
  BY <1>3, PokeType DEF TypeOK, Cancel
<1>4. ASSUME NEW r \in Runs, ForceCancel(r) PROVE TypeOK'
  <2>1. PokedBranches(r) \in [Branches -> BranchPcs] /\ PokedThreads(r) \in [Threads -> ThreadPcs]
    BY PokeType
  <2>2. bpc' \in [Branches -> BranchPcs]
    BY <1>4, <2>1 DEF ForceCancel, BranchPcs
  <2>3. forced' \in [Runs -> BOOLEAN]
    BY <1>4 DEF ForceCancel, TypeOK
  <2>4. own' \in [Runs -> {"running", "pausing", "cancelling"}]
    BY <1>4 DEF ForceCancel, TypeOK
  <2>5. zombies' \subseteq Threads
    BY <1>4 DEF ForceCancel, TypeOK
  <2> QED BY <1>4, <2>1, <2>2, <2>3, <2>4, <2>5 DEF TypeOK, ForceCancel
<1>5. ASSUME NEW r \in Runs, Pause(r) PROVE TypeOK'
  BY <1>5, PokeType DEF TypeOK, Pause
<1>6. ASSUME NEW r \in Runs, Resume(r) PROVE TypeOK'
  BY <1>6, PokeType DEF TypeOK, Resume
<1>7. ASSUME NEW b \in Branches, Boundary(b) PROVE TypeOK'
  BY <1>7 DEF TypeOK, BranchPcs, Boundary, Verdict
<1>8. ASSUME NEW b \in Branches, BodySettles(b) PROVE TypeOK'
  BY <1>8 DEF TypeOK, BranchPcs, BodySettles
<1>9. ASSUME NEW b \in Branches, Escape(b) PROVE TypeOK'
  BY <1>9 DEF TypeOK, BranchPcs, Escape, Body
<1>10. ASSUME NEW b \in Branches, EndUnit(b) PROVE TypeOK'
  <2>1. busy' \in [Runs -> Int]
    BY <1>10, OwnerRun DEF TypeOK, EndUnit
  <2>2. bpc' \in [Branches -> BranchPcs]
    BY <1>10 DEF TypeOK, BranchPcs, EndUnit
  <2> QED BY <1>10, <2>1, <2>2 DEF TypeOK, EndUnit
<1>11. ASSUME NEW b \in Branches, Journaled(b) PROVE TypeOK'
  BY <1>11 DEF TypeOK, BranchPcs, Journaled
<1>12. ASSUME NEW b \in Branches, NEW t \in Threads, BeginUnit(b, t) PROVE TypeOK'
  <2>1. busy' \in [Runs -> Int]
    BY <1>12, OwnerRun DEF TypeOK, BeginUnit
  <2>2. bpc' \in [Branches -> BranchPcs] /\ tpc' \in [Threads -> ThreadPcs]
    BY <1>12 DEF TypeOK, BranchPcs, ThreadPcs, BeginUnit
  <2> QED BY <1>12, <2>1, <2>2 DEF TypeOK, BeginUnit
<1>13. ASSUME NEW t \in Threads, NEW c \in Runs, LaunchNested(t, c) PROVE TypeOK'
  BY <1>13 DEF TypeOK, BranchPcs, ThreadPcs, LaunchNested, Start
<1>14. ASSUME NEW t \in Threads, NEW S \in SUBSET Threads, Fork(t, S) PROVE TypeOK'
  BY <1>14 DEF TypeOK, ThreadPcs, Fork
<1>15. ASSUME NEW t \in Threads,
              NestedReturns(t) \/ Join(t) \/ Release(t) \/ Recheck(t) \/ Reacquire(t) \/ Finish(t)
       PROVE TypeOK'
  <2>1. CASE NestedReturns(t) BY <2>1 DEF TypeOK, ThreadPcs, NestedReturns
  <2>2. CASE Join(t) BY <2>2 DEF TypeOK, ThreadPcs, Join
  <2>3. CASE Release(t)
    <3>1. busy' \in [Runs -> Int]
      BY <2>3, OwnerRun DEF TypeOK, Release
    <3>2. tpc' \in [Threads -> ThreadPcs]
      BY <2>3 DEF TypeOK, ThreadPcs, Release, Verdict
    <3> QED BY <2>3, <3>1, <3>2 DEF TypeOK, Release
  <2>4. CASE Recheck(t) BY <2>4 DEF TypeOK, ThreadPcs, Recheck, Verdict
  <2>5. CASE Reacquire(t)
    <3>1. busy' \in [Runs -> Int]
      BY <2>5, OwnerRun DEF TypeOK, Reacquire
    <3>2. tpc' \in [Threads -> ThreadPcs]
      BY <2>5 DEF TypeOK, ThreadPcs, Reacquire
    <3> QED BY <2>5, <3>1, <3>2 DEF TypeOK, Reacquire
  <2>6. CASE Finish(t) BY <2>6 DEF TypeOK, ThreadPcs, Finish
  <2> QED BY <1>15, <2>1, <2>2, <2>3, <2>4, <2>5, <2>6
<1>16. CASE UNCHANGED vars
  BY <1>16 DEF TypeOK, vars
<1> QED
  BY <1>1, <1>2, <1>3, <1>4, <1>5, <1>6, <1>7, <1>8, <1>9, <1>10, <1>11, <1>12, <1>13, <1>14,
     <1>15, <1>16 DEF Next, ControlCall

\* Every variable keeps its type, whatever the tree, the branches and the
\* bodies: no controller (run-control.ts) ever stores the derived "paused".
THEOREM TypeCorrect == Spec => []TypeOK
<1>1. Init => TypeOK
  BY DEF Init, TypeOK, BranchPcs, ThreadPcs
<1> QED BY <1>1, TypeNext, PTL DEF Spec

-----------------------------------------------------------------------------
(* Units stay balanced.  A step either leaves alone who holds a unit and who *)
(* handed one back, or moves one branch or thread in or out with the         *)
(* counter.                                                                  *)

\* Branches of a run that has not started are idle, those of one that is
\* gone are out: only a run in the controllers map moves.
StageInv ==
  \A b \in Branches :
    /\ stage[RunOf[b]] = "new" => bpc[b] = "idle"
    /\ stage[RunOf[b]] = "gone" => bpc[b] = "out"

\* A step of a run that goes on moves no idle branch and none that is out.
LEMMA SameStage ==
  ASSUME StageInv, stage' = stage,
         \A b \in Branches : bpc[b] \in {"idle", "out"} => bpc'[b] = bpc[b]
  PROVE  StageInv'
BY DEF StageInv

LEMMA StageInit == Init => StageInv
BY OwnerRun DEF Init, StageInv

LEMMA StageNext == TypeOK /\ StageInv /\ [Next]_vars => StageInv'
<1> SUFFICES ASSUME TypeOK, StageInv, [Next]_vars PROVE StageInv'
  OBVIOUS
<1>1. ASSUME NEW r \in Runs, Start(r) PROVE StageInv'
  BY <1>1, OwnerRun DEF Start, StageInv, TypeOK
<1>2. ASSUME NEW r \in Runs, Launch(r) PROVE StageInv'
  BY <1>1, <1>2 DEF Launch
<1>3. ASSUME NEW r \in Runs, Untrack(r) PROVE StageInv'
  BY <1>3, OwnerRun DEF Untrack, StageInv, TypeOK
<1>4. ASSUME NEW r \in Runs, ControlCall(r) PROVE StageInv'
  <2>1. \A b \in Branches : bpc[b] \in {"idle", "out"} => PokedBranches(r)[b] = bpc[b]
    BY DEF PokedBranches
  <2>2. CASE Cancel(r) BY <2>1, <2>2, SameStage DEF Cancel
  <2>3. CASE ForceCancel(r) BY <2>1, <2>3, SameStage DEF ForceCancel
  <2>4. CASE Pause(r) BY <2>1, <2>4, SameStage DEF Pause
  <2>5. CASE Resume(r) BY <2>1, <2>5, SameStage DEF Resume
  <2> QED BY <1>4, <2>2, <2>3, <2>4, <2>5 DEF ControlCall
<1>5. ASSUME NEW b \in Branches,
             Boundary(b) \/ BodySettles(b) \/ Escape(b) \/ EndUnit(b) \/ Journaled(b)
      PROVE  StageInv'
  <2>1. stage' = stage /\ \A e \in Branches \ {b} : bpc'[e] = bpc[e]
    BY <1>5 DEF TypeOK, Boundary, BodySettles, Escape, EndUnit, Journaled
  <2>2. bpc[b] \notin {"idle", "out"}
    BY <1>5 DEF Boundary, BodySettles, Escape, EndUnit, Journaled
  <2> QED BY <2>1, <2>2, SameStage
<1>6. ASSUME NEW b \in Branches, NEW t \in Threads, BeginUnit(b, t) PROVE StageInv'
  BY <1>6, SameStage DEF BeginUnit, TypeOK
<1>7. ASSUME NEW t \in Threads, NEW c \in Runs, LaunchNested(t, c) PROVE StageInv'
  BY <1>1, <1>7 DEF LaunchNested
<1>8. ASSUME NEW t \in Threads, NEW S \in SUBSET Threads, Fork(t, S) PROVE StageInv'
  BY <1>8, SameStage DEF Fork
<1>9. ASSUME NEW t \in Threads,
             NestedReturns(t) \/ Join(t) \/ Release(t) \/ Recheck(t) \/ Reacquire(t) \/ Finish(t)
      PROVE  StageInv'
  BY <1>9, SameStage DEF NestedReturns, Join, Release, Recheck, Reacquire, Finish
<1>10. CASE UNCHANGED vars
  BY <1>10, SameStage DEF vars
<1> QED BY <1>2, <1>3, <1>4, <1>5, <1>6, <1>7, <1>8, <1>9, <1>10 DEF Next

LEMMA FiniteUnits ==
  ASSUME NEW r
  PROVE  /\ IsFiniteSet(Holding(r)) /\ Cardinality(Holding(r)) \in Nat
         /\ IsFiniteSet(Released(r)) /\ Cardinality(Released(r)) \in Nat
<1>1. Holding(r) \subseteq Branches /\ Released(r) \subseteq Threads
  BY DEF Holding, Released
<1> QED BY <1>1, OwnerAssumption, FS_Subset, FS_CardinalityType

LEMMA SameUnits ==
  ASSUME BusyBalance, busy' = busy,
         \A b \in Branches : bpc'[b] \in UnitPcs <=> bpc[b] \in UnitPcs,
         \A t \in Threads : tpc'[t] \in AwayPcs <=> tpc[t] \in AwayPcs
  PROVE  BusyBalance'
<1>1. \A r \in Runs : Holding(r)' = Holding(r) /\ Released(r)' = Released(r)
  BY DEF Holding, Released, ThreadRun
<1> QED BY <1>1 DEF BusyBalance

\* One branch begins a unit.
LEMMA BranchBegins ==
  ASSUME TypeOK, BusyBalance, NEW b \in Branches,
         busy' = [busy EXCEPT ![RunOf[b]] = @ + 1],
         bpc[b] \notin UnitPcs, bpc'[b] \in UnitPcs,
         \A e \in Branches \ {b} : bpc'[e] = bpc[e],
         \A t \in Threads : tpc'[t] \in AwayPcs <=> tpc[t] \in AwayPcs
  PROVE  BusyBalance'
<1> SUFFICES ASSUME NEW r \in Runs
             PROVE  busy'[r] = Cardinality(Holding(r)') - Cardinality(Released(r)')
  BY DEF BusyBalance
<1>1. Released(r)' = Released(r)
  BY DEF Released, ThreadRun
<1>2. busy[r] = Cardinality(Holding(r)) - Cardinality(Released(r))
  BY DEF BusyBalance
<1>3. CASE r # RunOf[b]
  <2>1. Holding(r)' = Holding(r) /\ busy'[r] = busy[r]
    BY <1>3 DEF Holding, TypeOK
  <2> QED BY <2>1, <1>1, <1>2
<1>4. CASE r = RunOf[b]
  <2>1. Holding(r)' = Holding(r) \cup {b} /\ b \notin Holding(r)
    BY <1>4 DEF Holding
  <2>2. Cardinality(Holding(r)') = Cardinality(Holding(r)) + 1
    BY <2>1, FiniteUnits, FS_AddElement
  <2>3. busy'[r] = busy[r] + 1
    BY <1>4 DEF TypeOK
  <2> QED BY <2>2, <2>3, <1>1, <1>2, FiniteUnits
<1> QED BY <1>3, <1>4

\* One branch ends its unit.
LEMMA BranchEnds ==
  ASSUME TypeOK, BusyBalance, NEW b \in Branches,
         busy' = [busy EXCEPT ![RunOf[b]] = @ - 1],
         bpc[b] \in UnitPcs, bpc'[b] \notin UnitPcs,
         \A e \in Branches \ {b} : bpc'[e] = bpc[e],
         \A t \in Threads : tpc'[t] \in AwayPcs <=> tpc[t] \in AwayPcs
  PROVE  BusyBalance'
<1> SUFFICES ASSUME NEW r \in Runs
             PROVE  busy'[r] = Cardinality(Holding(r)') - Cardinality(Released(r)')
  BY DEF BusyBalance
<1>1. Released(r)' = Released(r)
  BY DEF Released, ThreadRun
<1>2. busy[r] = Cardinality(Holding(r)) - Cardinality(Released(r))
  BY DEF BusyBalance
<1>3. CASE r # RunOf[b]
  <2>1. Holding(r)' = Holding(r) /\ busy'[r] = busy[r]
    BY <1>3 DEF Holding, TypeOK
  <2> QED BY <2>1, <1>1, <1>2
<1>4. CASE r = RunOf[b]
  <2>1. Holding(r)' = Holding(r) \ {b} /\ b \in Holding(r)
    BY <1>4 DEF Holding
  <2>2. Cardinality(Holding(r)') = Cardinality(Holding(r)) - 1
    BY <2>1, FiniteUnits, FS_RemoveElement
  <2>3. busy'[r] = busy[r] - 1
    BY <1>4 DEF TypeOK
  <2> QED BY <2>2, <2>3, <1>1, <1>2, FiniteUnits
<1> QED BY <1>3, <1>4

\* One thread hands its unit back.
LEMMA ThreadHandsBack ==
  ASSUME TypeOK, BusyBalance, NEW t \in Threads,
         busy' = [busy EXCEPT ![ThreadRun(t)] = @ - 1],
         tpc[t] \notin AwayPcs, tpc'[t] \in AwayPcs,
         \A u \in Threads \ {t} : tpc'[u] = tpc[u],
         bpc' = bpc
  PROVE  BusyBalance'
<1> SUFFICES ASSUME NEW r \in Runs
             PROVE  busy'[r] = Cardinality(Holding(r)') - Cardinality(Released(r)')
  BY DEF BusyBalance
<1>1. Holding(r)' = Holding(r)
  BY DEF Holding
<1>2. busy[r] = Cardinality(Holding(r)) - Cardinality(Released(r))
  BY DEF BusyBalance
<1>3. CASE r # ThreadRun(t)
  <2>1. Released(r)' = Released(r) /\ busy'[r] = busy[r]
    BY <1>3 DEF Released, ThreadRun, TypeOK
  <2> QED BY <2>1, <1>1, <1>2
<1>4. CASE r = ThreadRun(t)
  <2>1. Released(r)' = Released(r) \cup {t} /\ t \notin Released(r)
    BY <1>4 DEF Released, ThreadRun
  <2>2. Cardinality(Released(r)') = Cardinality(Released(r)) + 1
    BY <2>1, FiniteUnits, FS_AddElement
  <2>3. busy'[r] = busy[r] - 1
    BY <1>4 DEF TypeOK
  <2> QED BY <2>2, <2>3, <1>1, <1>2, FiniteUnits
<1> QED BY <1>3, <1>4

\* One thread takes its unit again.
LEMMA ThreadTakesAgain ==
  ASSUME TypeOK, BusyBalance, NEW t \in Threads,
         busy' = [busy EXCEPT ![ThreadRun(t)] = @ + 1],
         tpc[t] \in AwayPcs, tpc'[t] \notin AwayPcs,
         \A u \in Threads \ {t} : tpc'[u] = tpc[u],
         bpc' = bpc
  PROVE  BusyBalance'
<1> SUFFICES ASSUME NEW r \in Runs
             PROVE  busy'[r] = Cardinality(Holding(r)') - Cardinality(Released(r)')
  BY DEF BusyBalance
<1>1. Holding(r)' = Holding(r)
  BY DEF Holding
<1>2. busy[r] = Cardinality(Holding(r)) - Cardinality(Released(r))
  BY DEF BusyBalance
<1>3. CASE r # ThreadRun(t)
  <2>1. Released(r)' = Released(r) /\ busy'[r] = busy[r]
    BY <1>3 DEF Released, ThreadRun, TypeOK
  <2> QED BY <2>1, <1>1, <1>2
<1>4. CASE r = ThreadRun(t)
  <2>1. Released(r)' = Released(r) \ {t} /\ t \in Released(r)
    BY <1>4 DEF Released, ThreadRun
  <2>2. Cardinality(Released(r)') = Cardinality(Released(r)) - 1
    BY <2>1, FiniteUnits, FS_RemoveElement
  <2>3. busy'[r] = busy[r] + 1
    BY <1>4 DEF TypeOK
  <2> QED BY <2>2, <2>3, <1>1, <1>2, FiniteUnits
<1> QED BY <1>3, <1>4

\* While a unit is being taken or handed back the counter follows, whatever
\* runs beside it: the counter beginUnit and endUnit keep in run-control.ts is
\* at all times the units held less those handed back at a checkpoint.
THEOREM UnitsBalanced == Spec => []BusyBalance
<1>1. Init => BusyBalance
  <2> SUFFICES ASSUME Init, NEW r \in Runs
               PROVE  busy[r] = Cardinality(Holding(r)) - Cardinality(Released(r))
    BY DEF BusyBalance
  <2>1. Holding(r) = {} /\ Released(r) = {}
    BY DEF Init, Holding, Released, UnitPcs, AwayPcs
  <2> QED BY <2>1, FS_EmptySet DEF Init
<1>2. TypeOK /\ StageInv /\ BusyBalance /\ [Next]_vars => BusyBalance'
  <2> SUFFICES ASSUME TypeOK, StageInv, BusyBalance, [Next]_vars PROVE BusyBalance'
    OBVIOUS
  <2>1. ASSUME NEW r \in Runs, Start(r)
        PROVE  \A b \in Branches : bpc'[b] \in UnitPcs <=> bpc[b] \in UnitPcs
    BY <2>1 DEF Start, StageInv, TypeOK, UnitPcs
  <2>2. ASSUME NEW r \in Runs, Launch(r) \/ Untrack(r) PROVE BusyBalance'
    BY <2>1, <2>2, SameUnits DEF Launch, Untrack
  <2>3. ASSUME NEW r \in Runs, ControlCall(r) PROVE BusyBalance'
    <3>1. \A b \in Branches : PokedBranches(r)[b] \in UnitPcs <=> bpc[b] \in UnitPcs
      BY DEF PokedBranches, UnitPcs
    <3>2. \A t \in Threads : PokedThreads(r)[t] \in AwayPcs <=> tpc[t] \in AwayPcs
      BY DEF PokedThreads, AwayPcs
    <3>3. CASE Cancel(r) BY <3>1, <3>2, <3>3, SameUnits DEF Cancel
    <3>4. CASE ForceCancel(r)
      <4>1. \A b \in Branches : bpc'[b] \in UnitPcs <=> bpc[b] \in UnitPcs
        BY <3>1, <3>4 DEF ForceCancel, UnitPcs
      <4> QED BY <3>2, <3>4, <4>1, SameUnits DEF ForceCancel
    <3>5. CASE Pause(r) BY <3>1, <3>2, <3>5, SameUnits DEF Pause
    <3>6. CASE Resume(r) BY <3>1, <3>2, <3>6, SameUnits DEF Resume
    <3> QED BY <2>3, <3>3, <3>4, <3>5, <3>6 DEF ControlCall
  <2>4. ASSUME NEW b \in Branches, Boundary(b) \/ BodySettles(b) \/ Escape(b) \/ Journaled(b)
        PROVE  BusyBalance'
    <3>1. \A e \in Branches : bpc'[e] \in UnitPcs <=> bpc[e] \in UnitPcs
      <4>1. CASE Boundary(b) BY <4>1 DEF Boundary, Verdict, TypeOK, UnitPcs
      <4>2. CASE BodySettles(b) BY <4>2 DEF BodySettles, TypeOK, UnitPcs
      <4>3. CASE Escape(b) BY <4>3 DEF Escape, TypeOK, UnitPcs
      <4>4. CASE Journaled(b) BY <4>4 DEF Journaled, TypeOK, UnitPcs
      <4> QED BY <2>4, <4>1, <4>2, <4>3, <4>4
    <3> QED BY <2>4, <3>1, SameUnits DEF Boundary, BodySettles, Escape, Journaled
  <2>5. ASSUME NEW b \in Branches, EndUnit(b) PROVE BusyBalance'
    <3>1. busy' = [busy EXCEPT ![RunOf[b]] = @ - 1] /\ tpc' = tpc
      BY <2>5 DEF EndUnit
    <3>2. bpc[b] \in UnitPcs /\ bpc'[b] \notin UnitPcs
      BY <2>5 DEF EndUnit, TypeOK, UnitPcs
    <3>3. \A e \in Branches \ {b} : bpc'[e] = bpc[e]
      BY <2>5 DEF EndUnit, TypeOK
    <3> QED BY <3>1, <3>2, <3>3, BranchEnds
  <2>6. ASSUME NEW b \in Branches, NEW t \in Threads, BeginUnit(b, t) PROVE BusyBalance'
    <3>1. bpc[b] \notin UnitPcs /\ bpc'[b] \in UnitPcs
      BY <2>6 DEF BeginUnit, TypeOK, UnitPcs
    <3>2. \A e \in Branches \ {b} : bpc'[e] = bpc[e]
      BY <2>6 DEF BeginUnit, TypeOK
    <3>3. \A u \in Threads : tpc'[u] \in AwayPcs <=> tpc[u] \in AwayPcs
      BY <2>6 DEF BeginUnit, TypeOK, AwayPcs
    <3>4. busy' = [busy EXCEPT ![RunOf[b]] = @ + 1]
      BY <2>6 DEF BeginUnit
    <3> QED BY <3>1, <3>2, <3>3, <3>4, BranchBegins
  <2>7. ASSUME NEW t \in Threads, NEW c \in Runs, LaunchNested(t, c) PROVE BusyBalance'
    <3>1. \A u \in Threads : tpc'[u] \in AwayPcs <=> tpc[u] \in AwayPcs
      BY <2>7 DEF LaunchNested, TypeOK, AwayPcs
    <3> QED BY <2>1, <2>7, <3>1, SameUnits DEF LaunchNested
  <2>8. ASSUME NEW t \in Threads, NEW S \in SUBSET Threads, Fork(t, S) PROVE BusyBalance'
    <3>1. \A u \in Threads : tpc'[u] \in AwayPcs <=> tpc[u] \in AwayPcs
      BY <2>8 DEF Fork, TypeOK, AwayPcs
    <3> QED BY <2>8, <3>1, SameUnits DEF Fork
  <2>9. ASSUME NEW t \in Threads, NestedReturns(t) \/ Join(t) \/ Recheck(t) \/ Finish(t)
        PROVE  BusyBalance'
    <3>1. \A u \in Threads : tpc'[u] \in AwayPcs <=> tpc[u] \in AwayPcs
      <4>1. CASE NestedReturns(t) BY <4>1 DEF NestedReturns, TypeOK, AwayPcs
      <4>2. CASE Join(t) BY <4>2 DEF Join, TypeOK, AwayPcs
      <4>3. CASE Recheck(t) BY <4>3 DEF Recheck, Verdict, TypeOK, AwayPcs
      <4>4. CASE Finish(t) BY <4>4 DEF Finish, TypeOK, AwayPcs
      <4> QED BY <2>9, <4>1, <4>2, <4>3, <4>4
    <3> QED BY <2>9, <3>1, SameUnits DEF NestedReturns, Join, Recheck, Finish
  <2>10. ASSUME NEW t \in Threads, Release(t) PROVE BusyBalance'
    <3>1. busy' = [busy EXCEPT ![ThreadRun(t)] = @ - 1] /\ bpc' = bpc
      BY <2>10 DEF Release
    <3>2. tpc[t] \notin AwayPcs /\ tpc'[t] \in AwayPcs
      BY <2>10 DEF Release, Verdict, TypeOK, AwayPcs
    <3>3. \A u \in Threads \ {t} : tpc'[u] = tpc[u]
      BY <2>10 DEF Release, TypeOK
    <3> QED BY <3>1, <3>2, <3>3, ThreadHandsBack
  <2>11. ASSUME NEW t \in Threads, Reacquire(t) PROVE BusyBalance'
    <3>1. tpc[t] \in AwayPcs /\ tpc'[t] \notin AwayPcs
      BY <2>11 DEF Reacquire, TypeOK, AwayPcs
    <3>2. \A u \in Threads \ {t} : tpc'[u] = tpc[u]
      BY <2>11 DEF Reacquire, TypeOK
    <3>3. busy' = [busy EXCEPT ![ThreadRun(t)] = @ + 1] /\ bpc' = bpc
      BY <2>11 DEF Reacquire
    <3> QED BY <3>1, <3>2, <3>3, ThreadTakesAgain
  <2>12. CASE UNCHANGED vars
    BY <2>12, SameUnits DEF vars
  <2> QED
    BY <2>2, <2>3, <2>4, <2>5, <2>6, <2>7, <2>8, <2>9, <2>10, <2>11, <2>12 DEF Next
<1> QED BY <1>1, <1>2, StageInit, StageNext, TypeCorrect, PTL DEF Spec

-----------------------------------------------------------------------------
(* RunControl implements RunConsent *)

LEMMA AskedInit == Init => AskedOf = [r \in Runs |-> "go"]
<1> SUFFICES ASSUME Init PROVE \A r \in Runs : Effective(r) = "running"
  BY DEF AskedOf
<1> QED BY TreeAssumption DEF Init, Effective

\* What is asked depends on the controllers' own states alone.
LEMMA AskedSame == ASSUME own' = own PROVE AskedOf' = AskedOf
BY DEF AskedOf, Effective

\* A call that undoes no cancel is, to RunConsent, someone asking.
LEMMA CallAsks ==
  ASSUME TypeOK, StageInv,
         \A r \in Runs : own[r] = "cancelling" => own'[r] = "cancelling",
         Consented' = Consented, Gone' = Gone
  PROVE  Consents!CNext
<1>1. \A r \in Runs : AskedOf[r] = "stop" => AskedOf'[r] = "stop"
  <2> SUFFICES ASSUME NEW r \in Runs, AskedOf[r] = "stop" PROVE AskedOf'[r] = "stop"
    OBVIOUS
  <2>1. \E a \in Line[r] : own[a] = "cancelling"
    BY DEF AskedOf, Effective
  <2>2. \E a \in Line[r] : own'[a] = "cancelling"
    BY <2>1, TreeAssumption
  <2>3. Effective(r)' = "cancelling"
    BY <2>2 DEF Effective
  <2> QED BY <2>3 DEF AskedOf
<1>2. AskedOf' \in [Runs -> {"go", "hold", "stop"}]
  BY DEF AskedOf
<1>3. Consents!Ask(AskedOf')
  BY <1>1 DEF Consents!Ask
<1> QED BY <1>2, <1>3 DEF Consents!CNext

LEMMA Stutters ==
  ASSUME own' = own, Consented' = Consented, Gone' = Gone
  PROVE  UNCHANGED Consents!cvars
BY AskedSame DEF Consents!cvars

\* A branch gets through a boundary only with a consent that RunConsent gives
\* there and then, ends one unit with it, and no call takes a cancel back: what
\* boundaries, units and control calls do is what RunConsent allows.
THEOREM ConsentGiven == Spec => ImplementsConsent
<1>1. Init => Consents!CInit
  <2> SUFFICES ASSUME Init PROVE Consents!CInit
    OBVIOUS
  <2>1. Consented = {} /\ Gone = {}
    BY DEF Init, Consented, Gone, UnitPcs
  <2> QED BY <2>1, AskedInit DEF Consents!CInit
<1>2. TypeOK /\ StageInv /\ [Next]_vars => [Consents!CNext]_(Consents!cvars)
  <2> SUFFICES ASSUME TypeOK, StageInv, [Next]_vars
               PROVE  Consents!CNext \/ UNCHANGED Consents!cvars
    OBVIOUS
  <2>1. ASSUME NEW r \in Runs, Start(r) PROVE Consented' = Consented /\ Gone' = Gone
    <3>1. Gone' = Gone
      BY <2>1 DEF Start, Gone, TypeOK
    <3>2. \A b \in Branches : bpc'[b] \in {"passed"} \cup UnitPcs <=> bpc[b] \in {"passed"} \cup UnitPcs
      BY <2>1 DEF Start, StageInv, UnitPcs
    <3> QED BY <3>1, <3>2 DEF Consented
  <2>2. ASSUME NEW r \in Runs, Launch(r) PROVE UNCHANGED Consents!cvars
    BY <2>1, <2>2, Stutters DEF Launch
  <2>3. ASSUME NEW r \in Runs, Untrack(r) PROVE Consents!CNext
    <3>1. Gone' = Gone \cup {r} /\ Consented' = Consented /\ AskedOf' = AskedOf
      BY <2>3, AskedSame DEF Untrack, Gone, Consented, TypeOK
    <3>2. \A b \in Consented : RunOf[b] # r
      BY <2>3 DEF Untrack, Consented, UnitPcs
    <3>3. Consents!Over(r)
      BY <3>1, <3>2 DEF Consents!Over
    <3> QED BY <3>3 DEF Consents!CNext
  <2>4. ASSUME NEW r \in Runs, ControlCall(r) PROVE Consents!CNext
    <3>1. \A q \in Runs : own[q] = "cancelling" => own'[q] = "cancelling"
      BY <2>4 DEF ControlCall, Cancel, ForceCancel, Pause, Resume, TypeOK
    <3>2. Gone' = Gone
      BY <2>4 DEF ControlCall, Cancel, ForceCancel, Pause, Resume, Gone
    <3>3. \A b \in Branches : PokedBranches(r)[b] \in {"passed"} \cup UnitPcs
                                 <=> bpc[b] \in {"passed"} \cup UnitPcs
      BY DEF PokedBranches, UnitPcs
    <3>4. \A b \in Branches : bpc'[b] \in {"passed"} \cup UnitPcs <=> bpc[b] \in {"passed"} \cup UnitPcs
      <4>1. CASE ForceCancel(r) BY <3>3, <4>1 DEF ForceCancel, UnitPcs
      <4>2. CASE Cancel(r) \/ Pause(r) \/ Resume(r) BY <3>3, <4>2 DEF Cancel, Pause, Resume
      <4> QED BY <2>4, <4>1, <4>2 DEF ControlCall
    <3> QED BY <3>1, <3>2, <3>4, CallAsks DEF Consented
  <2>5. ASSUME NEW b \in Branches, Boundary(b) PROVE Consents!CNext \/ UNCHANGED Consents!cvars
    <3>1. AskedOf' = AskedOf /\ Gone' = Gone
      BY <2>5, AskedSame DEF Boundary, Gone
    <3>2. b \notin Consented
      BY <2>5 DEF Boundary, Consented, UnitPcs
    <3>3. CASE Effective(RunOf[b]) = "running"
      <4>1. bpc'[b] = "passed" /\ \A e \in Branches \ {b} : bpc'[e] = bpc[e]
        BY <2>5, <3>3 DEF Boundary, Verdict, TypeOK
      <4>2. Consented' = Consented \cup {b}
        BY <4>1 DEF Consented
      <4>3. RunOf[b] \notin Gone
        BY <2>5 DEF Boundary, StageInv, Gone
      <4>4. AskedOf[RunOf[b]] = "go"
        BY <3>3, OwnerRun DEF AskedOf
      <4>5. Consents!Consent(b)
        BY <3>1, <3>2, <4>2, <4>3, <4>4 DEF Consents!Consent
      <4> QED BY <4>5 DEF Consents!CNext
    <3>4. CASE Effective(RunOf[b]) # "running"
      <4>1. bpc'[b] \in {"parked", "out"} /\ \A e \in Branches \ {b} : bpc'[e] = bpc[e]
        BY <2>5, <3>4 DEF Boundary, Verdict, Effective, TypeOK
      <4>2. Consented' = Consented
        BY <2>5, <4>1 DEF Boundary, Consented, UnitPcs
      <4> QED BY <3>1, <4>2 DEF Consents!cvars
    <3> QED BY <3>3, <3>4
  <2>6. ASSUME NEW b \in Branches, EndUnit(b) PROVE Consents!CNext
    <3>1. bpc[b] \in UnitPcs /\ bpc'[b] \in {"journaling", "boundary", "out"}
      BY <2>6 DEF EndUnit, UnitPcs, TypeOK
    <3>2. \A e \in Branches \ {b} : bpc'[e] = bpc[e]
      BY <2>6 DEF EndUnit, TypeOK
    <3>3. b \in Consented /\ Consented' = Consented \ {b}
      BY <3>1, <3>2 DEF Consented, UnitPcs
    <3>4. AskedOf' = AskedOf /\ Gone' = Gone
      BY <2>6, AskedSame DEF EndUnit, Gone
    <3>5. Consents!UsedUp(b)
      BY <3>3, <3>4 DEF Consents!UsedUp
    <3> QED BY <3>5 DEF Consents!CNext
  <2>7. ASSUME NEW b \in Branches, BodySettles(b) \/ Escape(b) \/ Journaled(b)
        PROVE  UNCHANGED Consents!cvars
    <3>1. \A e \in Branches : bpc'[e] \in {"passed"} \cup UnitPcs <=> bpc[e] \in {"passed"} \cup UnitPcs
      <4>1. CASE BodySettles(b) BY <4>1 DEF BodySettles, TypeOK, UnitPcs
      <4>2. CASE Escape(b) BY <4>2 DEF Escape, TypeOK, UnitPcs
      <4>3. CASE Journaled(b) BY <4>3 DEF Journaled, TypeOK, UnitPcs
      <4> QED BY <2>7, <4>1, <4>2, <4>3
    <3>2. own' = own /\ stage' = stage
      BY <2>7 DEF BodySettles, Escape, Journaled
    <3> QED BY <3>1, <3>2, Stutters DEF Consented, Gone
  <2>8. ASSUME NEW b \in Branches, NEW t \in Threads, BeginUnit(b, t) PROVE UNCHANGED Consents!cvars
    <3>1. \A e \in Branches : bpc'[e] \in {"passed"} \cup UnitPcs <=> bpc[e] \in {"passed"} \cup UnitPcs
      BY <2>8 DEF BeginUnit, TypeOK, UnitPcs
    <3> QED BY <2>8, <3>1, Stutters DEF BeginUnit, Consented, Gone
  <2>9. ASSUME NEW t \in Threads, NEW c \in Runs, LaunchNested(t, c) PROVE UNCHANGED Consents!cvars
    BY <2>1, <2>9, Stutters DEF LaunchNested
  <2>10. ASSUME own' = own, bpc' = bpc, stage' = stage PROVE UNCHANGED Consents!cvars
    BY <2>10, Stutters DEF Consented, Gone
  <2>11. ASSUME NEW t \in Threads, NEW S \in SUBSET Threads, Fork(t, S) PROVE UNCHANGED Consents!cvars
    BY <2>10, <2>11 DEF Fork
  <2>12. ASSUME NEW t \in Threads,
                NestedReturns(t) \/ Join(t) \/ Release(t) \/ Recheck(t) \/ Reacquire(t) \/ Finish(t)
         PROVE  UNCHANGED Consents!cvars
    BY <2>10, <2>12 DEF NestedReturns, Join, Release, Recheck, Reacquire, Finish
  <2>13. CASE UNCHANGED vars
    BY <2>10, <2>13 DEF vars
  <2> QED
    BY <2>2, <2>3, <2>4, <2>5, <2>6, <2>7, <2>8, <2>9, <2>11, <2>12, <2>13 DEF Next
<1> QED BY <1>1, <1>2, StageInit, StageNext, TypeCorrect, PTL DEF Spec, ImplementsConsent, Consents!CSpec

-----------------------------------------------------------------------------
(* Paused is idle                                                           *)

\* The body a branch waits for has its branch in its unit.
BodyInv == \A t \in Threads : t \notin zombies /\ tpc[t] # "off" => bpc[BranchOf[t]] = "unit"

LEMMA BodyInit == Init => BodyInv
BY DEF Init, BodyInv

LEMMA BodyNext == TypeOK /\ StageInv /\ BodyInv /\ [Next]_vars => BodyInv'
<1> SUFFICES ASSUME TypeOK, StageInv, BodyInv, [Next]_vars,
                    NEW t \in Threads, t \notin zombies', tpc'[t] # "off"
             PROVE  bpc'[BranchOf[t]] = "unit"
  BY DEF BodyInv
<1> DEFINE b == BranchOf[t]
<1>0. b \in Branches
  BY OwnerRun
<1> HIDE DEF b
<1>1. t \notin zombies /\ tpc[t] # "off" => bpc[b] = "unit"
  BY DEF BodyInv, b
<1>2. ASSUME NEW r \in Runs, Start(r), bpc[b] = "unit" PROVE bpc'[b] = "unit"
  BY <1>0, <1>2 DEF Start, StageInv, TypeOK
<1>3. ASSUME NEW r \in Runs, Launch(r) \/ Untrack(r) PROVE bpc'[b] = "unit"
  BY <1>1, <1>2, <1>3 DEF Launch, Untrack
<1>4. ASSUME NEW r \in Runs, ControlCall(r) PROVE bpc'[b] = "unit"
  <2>1. PokedBranches(r)[b] = "unit" <=> bpc[b] = "unit"
    BY <1>0 DEF PokedBranches
  <2>2. PokedThreads(r)[t] = "off" <=> tpc[t] = "off"
    BY DEF PokedThreads
  <2>3. CASE Cancel(r) \/ Pause(r) \/ Resume(r)
    BY <1>1, <2>1, <2>2, <2>3 DEF Cancel, Pause, Resume
  <2>4. CASE ForceCancel(r)
    <3>1. t \notin zombies /\ tpc[t] # "off" /\ ~(bpc[b] = "unit" /\ RunOf[b] \in Reached(r))
      BY <1>0, <2>2, <2>4 DEF ForceCancel, b
    <3> QED BY <1>0, <1>1, <2>1, <2>4, <3>1 DEF ForceCancel
  <2> QED BY <1>4, <2>3, <2>4 DEF ControlCall
<1>5. ASSUME NEW e \in Branches,
             Boundary(e) \/ BodySettles(e) \/ Escape(e) \/ EndUnit(e) \/ Journaled(e)
      PROVE  bpc'[b] = "unit"
  <2>1. tpc' = tpc /\ t \notin zombies
    BY <1>5 DEF Boundary, BodySettles, Escape, EndUnit, Journaled
  <2>2. bpc[b] = "unit"
    BY <1>1, <2>1
  <2>3. e # b
    <3>1. t \in Body(b)
      BY <2>1 DEF Body, b
    <3>2. ~(e = b /\ BodySettles(e)) /\ ~(e = b /\ Escape(e))
      BY <3>1 DEF BodySettles, Escape
    <3> QED BY <1>5, <2>2, <3>2 DEF Boundary, EndUnit, Journaled
  <2> QED BY <1>0, <1>5, <2>2, <2>3
          DEF TypeOK, Boundary, BodySettles, Escape, EndUnit, Journaled
<1>6. ASSUME NEW e \in Branches, NEW u \in Threads, BeginUnit(e, u) PROVE bpc'[b] = "unit"
  <2>1. t \notin zombies
    BY <1>6 DEF BeginUnit
  <2>2. CASE t = u
    BY <1>0, <1>6, <2>2 DEF BeginUnit, TypeOK, b
  <2>3. CASE t # u
    <3>1. bpc[b] = "unit"
      BY <1>1, <1>6, <2>1, <2>3 DEF BeginUnit, TypeOK
    <3> QED BY <1>0, <1>6, <3>1 DEF BeginUnit, TypeOK
  <2> QED BY <2>2, <2>3
<1>7. ASSUME NEW u \in Threads, NEW c \in Runs, LaunchNested(u, c) PROVE bpc'[b] = "unit"
  <2>1. bpc[b] = "unit"
    BY <1>1, <1>7 DEF LaunchNested, TypeOK
  <2> QED BY <1>2, <1>7, <2>1 DEF LaunchNested
<1>8. ASSUME NEW u \in Threads, NEW S \in SUBSET Threads, Fork(u, S) PROVE bpc'[b] = "unit"
  <2>1. bpc' = bpc
    BY <1>8 DEF Fork
  <2>2. CASE t \in S
    <3>1. u \notin zombies /\ tpc[u] # "off" /\ BranchOf[u] = b
      BY <1>8, <2>2 DEF Fork, b
    <3> QED BY <2>1, <3>1 DEF BodyInv
  <2>3. CASE t \notin S
    BY <1>1, <1>8, <2>1, <2>3 DEF Fork
  <2> QED BY <2>2, <2>3
<1>9. ASSUME NEW u \in Threads,
             NestedReturns(u) \/ Join(u) \/ Release(u) \/ Recheck(u) \/ Reacquire(u) \/ Finish(u)
      PROVE  bpc'[b] = "unit"
  <2>1. bpc' = bpc
    BY <1>9 DEF NestedReturns, Join, Release, Recheck, Reacquire, Finish
  <2>2. t \notin zombies /\ tpc[t] # "off"
    <3>1. CASE NestedReturns(u) BY <3>1 DEF NestedReturns, TypeOK
    <3>2. CASE Join(u) BY <3>2 DEF Join, TypeOK
    <3>3. CASE Release(u) BY <3>3 DEF Release, TypeOK
    <3>4. CASE Recheck(u) BY <3>4 DEF Recheck, TypeOK
    <3>5. CASE Reacquire(u) BY <3>5 DEF Reacquire, TypeOK
    <3>6. CASE Finish(u) BY <3>6 DEF Finish, TypeOK
    <3> QED BY <1>9, <3>1, <3>2, <3>3, <3>4, <3>5, <3>6
  <2> QED BY <1>1, <2>1, <2>2
<1>10. ASSUME UNCHANGED vars PROVE bpc'[b] = "unit"
  BY <1>1, <1>10 DEF vars
<1>11. bpc'[b] = "unit"
  BY <1>3, <1>4, <1>5, <1>6, <1>7, <1>8, <1>9, <1>10 DEF Next
<1> QED BY <1>11 DEF b

\* A run whose bodies are plain and one of which is at work holds more units
\* than were handed back: the threads that handed one back have each a branch
\* of their own, and none of them has this one.
LEMMA PlainCounts ==
  ASSUME BodyInv, BusyBalance, NEW r \in Runs, Plain(r),
         NEW t \in Threads, ThreadRun(t) = r, tpc[t] \in {"work", "join", "await"}
  PROVE  busy[r] > 0
<1> DEFINE b == BranchOf[t]
           others == Holding(r) \ {b}
           f == [u \in Released(r) |-> BranchOf[u]]
<1>1. t \notin zombies
  BY DEF Plain
<1>2. b \in Holding(r)
  BY <1>1, OwnerRun DEF BodyInv, Holding, ThreadRun, UnitPcs
<1>3. \A u \in Released(r) : BranchOf[u] \in others
  <2> SUFFICES ASSUME NEW u \in Released(r) PROVE BranchOf[u] \in others
    OBVIOUS
  <2>1. u \in Threads /\ ThreadRun(u) = r /\ tpc[u] # "off" /\ u # t
    BY DEF Released, AwayPcs
  <2>2. u \notin zombies /\ BranchOf[u] # b
    BY <2>1 DEF Plain
  <2> QED BY <2>1, <2>2, OwnerRun DEF BodyInv, Holding, ThreadRun, UnitPcs
<1>4. \A u, v \in Released(r) : BranchOf[u] = BranchOf[v] => u = v
  BY DEF Released, AwayPcs, Plain
<1>5. f \in Injection(Released(r), others)
  BY <1>3, <1>4 DEF Injection, IsInjective
<1>6. IsFiniteSet(others) /\ Cardinality(others) = Cardinality(Holding(r)) - 1
  BY <1>2, FiniteUnits, FS_RemoveElement
<1>7. Cardinality(Released(r)) <= Cardinality(others)
  BY <1>5, <1>6, FS_Injection
<1> QED BY <1>6, <1>7, FiniteUnits DEF BusyBalance

\* While the units below a run are plain, the run reads "paused" only when
\* nobody is at work in a body below it, whatever was paused, resumed, launched
\* or left behind: what quiesced() in run-control.ts promises.
THEOREM PausedMeansIdle == Spec => []PausedIsIdle
<1>1. BodyInv /\ BusyBalance => PausedIsIdle
  <2> SUFFICES ASSUME BodyInv, BusyBalance, NEW r \in Runs, State(r) = "paused",
                      \A d \in Reached(r) : Plain(d),
                      NEW t \in Threads, ThreadRun(t) \in Reached(r),
                      tpc[t] \in {"work", "join", "await"}
               PROVE  FALSE
    BY DEF PausedIsIdle
  <2>1. busy[ThreadRun(t)] <= 0
    BY DEF State, Quiesced, Effective
  <2>2. ThreadRun(t) \in Runs
    BY OwnerRun
  <2>3. busy[ThreadRun(t)] > 0
    BY <2>2, PlainCounts
  <2>4. busy[ThreadRun(t)] \in Int
    BY <2>2, FiniteUnits DEF BusyBalance
  <2> QED BY <2>1, <2>3, <2>4
<1> QED BY <1>1, BodyInit, BodyNext, StageInit, StageNext, TypeCorrect, UnitsBalanced, PTL DEF Spec
=============================================================================
