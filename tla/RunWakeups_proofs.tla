------------------------- MODULE RunWakeups_proofs -------------------------
(* No wakeup is lost in any tree of runs, provided no error escapes a body:  *)
(* then a run that is live and not cancelled has only live ancestors, since  *)
(* the body that launched it still waits for it, and a poke of any of them   *)
(* reaches it.                                                               *)
EXTENDS RunControl_proofs

-----------------------------------------------------------------------------
(* The effective state *)

LEMMA CancelDown ==
  ASSUME NEW a \in Runs, NEW r \in Runs, a \in Line[r], Effective(a) = "cancelling"
  PROVE  Effective(r) = "cancelling"
<1>1. \E x \in Line[a] : own[x] = "cancelling"
  BY DEF Effective
<1>2. Line[a] \subseteq Line[r]
  BY TreeAssumption
<1> QED BY <1>1, <1>2 DEF Effective

LEMMA EffectiveSame == ASSUME own' = own, NEW r \in Runs PROVE Effective(r)' = Effective(r)
BY DEF Effective

\* No step takes a cancel back.
LEMMA CancelStays ==
  ASSUME TypeOK, [Next]_vars, NEW r \in Runs, Effective(r) = "cancelling"
  PROVE  Effective(r)' = "cancelling"
<1>1. PICK a \in Line[r] : own[a] = "cancelling"
  BY DEF Effective
<1>2. a \in Runs
  BY TreeAssumption
<1>3. ASSUME NEW q \in Runs, ControlCall(q) PROVE own'[a] = "cancelling"
  BY <1>1, <1>2, <1>3 DEF ControlCall, Cancel, ForceCancel, Pause, Resume, TypeOK
<1>4. CASE own' = own
  BY <1>1, <1>4 DEF Effective
<1>5. CASE \E q \in Runs : ControlCall(q)
  BY <1>1, <1>3, <1>5 DEF Effective
<1>6. own' = own \/ \E q \in Runs : ControlCall(q)
  BY DEF Next, vars, Launch, LaunchNested, Start, NestedReturns, Untrack, Boundary, BeginUnit,
         BodySettles, Escape, EndUnit, Journaled, Fork, Join, Release, Recheck, Reacquire, Finish
<1> QED BY <1>4, <1>5, <1>6

-----------------------------------------------------------------------------
(* Whatever is forced or left behind is cancelled *)

ForcedInv == \A r \in Runs : forced[r] => Effective(r) = "cancelling"
ZombieInv == \A t \in zombies : Effective(ThreadRun(t)) = "cancelling"

LEMMA ForcedNext ==
  ASSUME TypeOK, ForcedInv, [Next]_vars PROVE ForcedInv'
<1> SUFFICES ASSUME NEW d \in Runs, forced'[d] PROVE Effective(d)' = "cancelling"
  BY DEF ForcedInv
<1>1. CASE forced[d]
  BY <1>1, CancelStays DEF ForcedInv
<1>2. ASSUME NEW r \in Runs, ForceCancel(r), ~forced[d] PROVE Effective(d)' = "cancelling"
  <2>1. r \in Line[d]
    BY <1>2 DEF ForceCancel, TypeOK, Reached
  <2>2. own'[r] = "cancelling"
    BY <1>2 DEF ForceCancel, TypeOK
  <2> QED BY <2>1, <2>2 DEF Effective
<1>3. forced' = forced \/ \E r \in Runs : ForceCancel(r)
  BY DEF Next, ControlCall, Cancel, Pause, Resume, vars, Launch, LaunchNested, Start, NestedReturns,
         Untrack, Boundary, BeginUnit, BodySettles, Escape, EndUnit, Journaled, Fork, Join, Release,
         Recheck, Reacquire, Finish
<1> QED BY <1>1, <1>2, <1>3

LEMMA ZombieNext ==
  ASSUME Escaping = {}, TypeOK, ForcedInv, ZombieInv, [Next]_vars PROVE ZombieInv'
<1> SUFFICES ASSUME NEW t \in zombies' PROVE Effective(ThreadRun(t))' = "cancelling"
  BY DEF ZombieInv
<1>0. t \in Threads /\ ThreadRun(t) \in Runs
  <2>1. TypeOK'
    BY TypeNext
  <2> QED BY <2>1, OwnerRun DEF TypeOK
<1> SUFFICES ASSUME t \notin zombies PROVE Effective(ThreadRun(t))' = "cancelling"
  BY <1>0, CancelStays DEF ZombieInv
<1>1. ASSUME NEW r \in Runs, ForceCancel(r) PROVE Effective(ThreadRun(t))' = "cancelling"
  <2>1. r \in Line[ThreadRun(t)]
    BY <1>1 DEF ForceCancel, Reached, ThreadRun
  <2>2. own'[r] = "cancelling"
    BY <1>1 DEF ForceCancel, TypeOK
  <2> QED BY <2>1, <2>2 DEF Effective
<1>2. ASSUME NEW b \in Branches, NEW u \in Threads, BeginUnit(b, u)
      PROVE  Effective(ThreadRun(t))' = "cancelling"
  <2>1. t = u /\ Forced(ThreadRun(t)) /\ own' = own
    BY <1>2 DEF BeginUnit, ThreadRun
  <2>2. PICK a \in Line[ThreadRun(t)] : forced[a]
    BY <2>1 DEF Forced
  <2>3. a \in Runs /\ Effective(a) = "cancelling"
    BY <1>0, <2>2, TreeAssumption DEF ForcedInv
  <2> QED BY <1>0, <2>2, <2>3, CancelDown, CancelStays
<1>3. ASSUME NEW u \in Threads, NEW S \in SUBSET Threads, Fork(u, S)
      PROVE  Effective(ThreadRun(t))' = "cancelling"
  <2>1. u \in zombies /\ BranchOf[t] = BranchOf[u]
    BY <1>3 DEF Fork
  <2>2. Effective(ThreadRun(t)) = "cancelling"
    BY <2>1 DEF ZombieInv, ThreadRun
  <2> QED BY <1>0, <2>2, CancelStays
<1>4. \/ \E r \in Runs : ForceCancel(r)
      \/ \E b \in Branches, u \in Threads : BeginUnit(b, u)
      \/ \E u \in Threads, S \in SUBSET Threads : Fork(u, S)
      \/ zombies' \subseteq zombies
  BY DEF Next, ControlCall, Cancel, Pause, Resume, vars, Launch, LaunchNested, NestedReturns,
         Untrack, Boundary, BodySettles, Escape, EndUnit, Journaled, Join, Release,
         Recheck, Reacquire, Finish
<1> QED BY <1>1, <1>2, <1>3, <1>4

-----------------------------------------------------------------------------
(* The ancestors of a run that goes on are live                             *)

\* A nested run that is live and not cancelled is waited for by a body of its
\* parent that nobody left behind.
WaitedFor ==
  \A c \in Runs :
    (stage[c] = "live" /\ Parent[c] # NoRun /\ Effective(c) # "cancelling") =>
      \E t \in Threads \ zombies : tpc[t] = "await" /\ awaits[t] = c /\ ThreadRun(t) = Parent[c]

LineLive ==
  \A r \in Runs :
    (stage[r] = "live" /\ Effective(r) # "cancelling") => \A a \in Line[r] : stage[a] = "live"

\* While a body of a run is waited for, the run does not end.
LEMMA WaitedInUnit ==
  ASSUME BodyInv, NEW t \in Threads \ zombies, tpc[t] = "await"
  PROVE  bpc[BranchOf[t]] = "unit"
BY DEF BodyInv

LEMMA WaitedNext ==
  ASSUME Escaping = {}, TypeOK, StageInv, BodyInv, ForcedInv, ZombieInv, WaitedFor, [Next]_vars
  PROVE  WaitedFor'
<1> SUFFICES ASSUME NEW c \in Runs, stage'[c] = "live", Parent[c] # NoRun,
                    Effective(c)' # "cancelling"
             PROVE  \E t \in Threads \ zombies' :
                      tpc'[t] = "await" /\ awaits'[t] = c /\ ThreadRun(t) = Parent[c]
  BY DEF WaitedFor, ThreadRun
<1>0. Effective(c) # "cancelling"
  BY CancelStays
<1>1. CASE stage[c] # "live"
  <2>1. PICK t \in Threads : LaunchNested(t, c)
    BY <1>1 DEF Next, ControlCall, Cancel, ForceCancel, Pause, Resume, vars, Launch, LaunchNested,
                Start, NestedReturns, Untrack, Boundary, BeginUnit, BodySettles, Escape, EndUnit,
                Journaled, Fork, Join, Release, Recheck, Reacquire, Finish, TypeOK
  <2>2. ThreadRun(t) = Parent[c] /\ Parent[c] \in Runs /\ Parent[c] \in Line[c]
    BY <2>1, OwnerRun, TreeAssumption DEF LaunchNested
  <2>3. t \notin zombies
    BY <1>0, <2>2, CancelDown DEF ZombieInv
  <2> QED BY <2>1, <2>2, <2>3 DEF LaunchNested, TypeOK
<1>2. CASE stage[c] = "live"
  <2>1. PICK t \in Threads \ zombies : tpc[t] = "await" /\ awaits[t] = c /\ ThreadRun(t) = Parent[c]
    BY <1>0, <1>2 DEF WaitedFor
  <2>2. tpc'[t] = "await" /\ awaits'[t] = c
    <3>1. ~NestedReturns(t)
      BY <1>2, <2>1 DEF NestedReturns
    <3>2. ASSUME NEW r \in Runs, ControlCall(r) PROVE tpc'[t] = "await" /\ awaits'[t] = c
      BY <2>1, <3>2 DEF ControlCall, Cancel, ForceCancel, Pause, Resume, PokedThreads
    <3>3. ASSUME NEW r \in Runs, Launch(r) \/ Untrack(r)
          PROVE  tpc'[t] = "await" /\ awaits'[t] = c
      BY <2>1, <3>3 DEF Launch, Untrack
    <3>4. ASSUME NEW b \in Branches,
                 Boundary(b) \/ BodySettles(b) \/ Escape(b) \/ EndUnit(b) \/ Journaled(b)
          PROVE  tpc'[t] = "await" /\ awaits'[t] = c
      BY <2>1, <3>4 DEF Boundary, BodySettles, Escape, EndUnit, Journaled
    <3>5. ASSUME NEW b \in Branches, NEW u \in Threads, BeginUnit(b, u)
          PROVE  tpc'[t] = "await" /\ awaits'[t] = c
      BY <2>1, <3>5 DEF BeginUnit, TypeOK
    <3>6. ASSUME NEW u \in Threads, NEW d \in Runs, LaunchNested(u, d)
          PROVE  tpc'[t] = "await" /\ awaits'[t] = c
      BY <2>1, <3>6 DEF LaunchNested, TypeOK
    <3>7. ASSUME NEW u \in Threads, NEW S \in SUBSET Threads, Fork(u, S)
          PROVE  tpc'[t] = "await" /\ awaits'[t] = c
      BY <2>1, <3>7 DEF Fork, TypeOK
    <3>8. ASSUME NEW u \in Threads,
                 NestedReturns(u) \/ Join(u) \/ Release(u) \/ Recheck(u) \/ Reacquire(u) \/ Finish(u)
          PROVE  tpc'[t] = "await" /\ awaits'[t] = c
      <4>1. t # u
        BY <2>1, <3>1, <3>8 DEF Join, Release, Recheck, Reacquire, Finish
      <4>2. CASE NestedReturns(u) BY <2>1, <4>1, <4>2 DEF NestedReturns, TypeOK
      <4>3. CASE Join(u) BY <2>1, <4>1, <4>3 DEF Join, TypeOK
      <4>4. CASE Release(u) BY <2>1, <4>1, <4>4 DEF Release, TypeOK
      <4>5. CASE Recheck(u) BY <2>1, <4>1, <4>5 DEF Recheck, TypeOK
      <4>6. CASE Reacquire(u) BY <2>1, <4>1, <4>6 DEF Reacquire, TypeOK
      <4>7. CASE Finish(u) BY <2>1, <4>1, <4>7 DEF Finish, TypeOK
      <4> QED BY <3>8, <4>2, <4>3, <4>4, <4>5, <4>6, <4>7
    <3>9. CASE UNCHANGED vars
      BY <2>1, <3>9 DEF vars
    <3> QED BY <3>2, <3>3, <3>4, <3>5, <3>6, <3>7, <3>8, <3>9 DEF Next
  <2>3. t \notin zombies'
    <3>1. SUFFICES ASSUME t \in zombies' PROVE FALSE
      OBVIOUS
    <3>2. ZombieInv'
      BY ZombieNext
    <3>3. Effective(ThreadRun(t))' = "cancelling"
      BY <3>1, <3>2 DEF ZombieInv, ThreadRun
    <3>4. Parent[c] \in Runs /\ Parent[c] \in Line[c] /\ Line[Parent[c]] \subseteq Line[c]
      BY <2>1, OwnerRun, TreeAssumption
    <3>5. Effective(c)' = "cancelling"
      BY <2>1, <3>3, <3>4 DEF Effective
    <3> QED BY <3>5
  <2> QED BY <2>1, <2>2, <2>3
<1> QED BY <1>1, <1>2

LEMMA LineNext ==
  ASSUME TypeOK, StageInv, BodyInv, WaitedFor, LineLive, [Next]_vars PROVE LineLive'
<1> SUFFICES ASSUME NEW r \in Runs, stage'[r] = "live", Effective(r)' # "cancelling",
                    NEW a \in Line[r]
             PROVE  stage'[a] = "live"
  BY DEF LineLive
<1>0. a \in Runs /\ Effective(r) # "cancelling"
  BY TreeAssumption, CancelStays
<1>1. ASSUME NEW d \in Runs, Launch(d) PROVE stage'[a] = "live"
  <2>1. stage[d] = "new" /\ stage' = [stage EXCEPT ![d] = "live"] /\ Line[d] = {d}
    BY <1>1, TreeAssumption DEF Launch, Start
  <2> QED BY <1>0, <2>1 DEF LineLive, TypeOK
<1>2. ASSUME NEW t \in Threads, NEW c \in Runs, LaunchNested(t, c) PROVE stage'[a] = "live"
  <2>1. /\ stage[c] = "new" /\ stage' = [stage EXCEPT ![c] = "live"]
        /\ stage[Parent[c]] = "live" /\ Parent[c] = ThreadRun(t)
    BY <1>2 DEF LaunchNested, Start
  <2>2. Parent[c] \in Runs /\ Line[c] = {c} \cup Line[Parent[c]] /\ Parent[c] \in Line[c]
    BY <2>1, OwnerRun, TreeAssumption
  <2>3. CASE r = c
    <3>1. Effective(Parent[c]) # "cancelling"
      BY <1>0, <2>2, <2>3, CancelDown
    <3> QED BY <1>0, <2>1, <2>2, <2>3, <3>1 DEF LineLive, TypeOK
  <2>4. CASE r # c
    BY <1>0, <2>1, <2>4 DEF LineLive, TypeOK
  <2> QED BY <2>3, <2>4
<1>3. ASSUME NEW d \in Runs, Untrack(d) PROVE stage'[a] = "live"
  <2>1. stage' = [stage EXCEPT ![d] = "gone"] /\ r # d /\ stage[r] = "live"
    BY <1>3 DEF Untrack, TypeOK
  <2>2. a # d
    <3>1. SUFFICES ASSUME d \in Line[r] PROVE FALSE
      OBVIOUS
    <3>2. PICK c \in Line[r] : Parent[c] = d
      BY <2>1, <3>1, TreeAssumption
    <3>3. c \in Runs /\ stage[c] = "live" /\ Effective(c) # "cancelling" /\ Parent[c] # NoRun
      BY <1>0, <2>1, <3>2, CancelDown, TreeAssumption DEF LineLive
    <3>4. PICK t \in Threads \ zombies : tpc[t] = "await" /\ ThreadRun(t) = d
      BY <3>2, <3>3 DEF WaitedFor
    <3>5. bpc[BranchOf[t]] = "unit" /\ RunOf[BranchOf[t]] = d /\ BranchOf[t] \in Branches
      BY <3>4, WaitedInUnit, OwnerRun DEF ThreadRun
    <3> QED BY <1>3, <3>5 DEF Untrack
  <2> QED BY <1>0, <2>1, <2>2 DEF LineLive, TypeOK
<1>4. CASE stage' = stage
  BY <1>0, <1>4 DEF LineLive
<1>5. \/ \E d \in Runs : Launch(d) \/ Untrack(d)
      \/ \E t \in Threads, c \in Runs : LaunchNested(t, c)
      \/ stage' = stage
  BY DEF Next, ControlCall, Cancel, ForceCancel, Pause, Resume, vars, NestedReturns, Boundary,
         BeginUnit, BodySettles, Escape, EndUnit, Journaled, Fork, Join, Release, Recheck,
         Reacquire, Finish
<1> QED BY <1>1, <1>2, <1>3, <1>4, <1>5

-----------------------------------------------------------------------------
(* No wakeup is lost                                                        *)

WakeInv ==
  /\ StageInv
  /\ BodyInv
  /\ ForcedInv
  /\ ZombieInv
  /\ WaitedFor
  /\ LineLive

LEMMA WakeInit == Init => WakeInv
<1> SUFFICES ASSUME Init PROVE WakeInv
  OBVIOUS
<1>1. ForcedInv /\ ZombieInv /\ WaitedFor /\ LineLive
  BY DEF Init, ForcedInv, ZombieInv, WaitedFor, LineLive
<1> QED BY <1>1, StageInit, BodyInit DEF WakeInv

LEMMA WakeNext ==
  ASSUME Escaping = {}, TypeOK, WakeInv, [Next]_vars PROVE WakeInv'
BY StageNext, BodyNext, ForcedNext, ZombieNext, WaitedNext, LineNext DEF WakeInv

\* Whoever is parked belongs to a run that is registered.
LEMMA ParkedIsLive ==
  ASSUME TypeOK, WakeInv, NoLostWakeup
  PROVE  /\ \A b \in Branches : bpc[b] = "parked" => stage[RunOf[b]] = "live"
         /\ \A t \in Threads : tpc[t] = "parked" => stage[ThreadRun(t)] = "live"
<1>1. \A b \in Branches : bpc[b] \in {"parked", "unit"} => stage[RunOf[b]] = "live"
  BY OwnerRun DEF WakeInv, StageInv, TypeOK
<1>2. ASSUME NEW t \in Threads, tpc[t] = "parked" PROVE stage[ThreadRun(t)] = "live"
  <2>1. t \notin zombies
    BY <1>2 DEF NoLostWakeup, WakeInv, ZombieInv
  <2> QED BY <1>1, <1>2, <2>1, OwnerRun DEF WakeInv, BodyInv, ThreadRun
<1> QED BY <1>1, <1>2

\* A poke of a run reaches every run below it that pauses.
LEMMA PokeReaches ==
  ASSUME WakeInv, NEW r \in Runs, NEW s \in Runs,
         r \in Line[s], stage[s] = "live", Effective(s) = "pausing"
  PROVE  s \in Reached(r)
BY DEF WakeInv, LineLive, Reached

LEMMA CallKeepsWakeups ==
  ASSUME TypeOK, WakeInv, NoLostWakeup, NEW r \in Runs, ControlCall(r) PROVE NoLostWakeup'
<1>1. \A a \in Runs \ {r} : own'[a] = own[a]
  BY DEF ControlCall, Cancel, ForceCancel, Pause, Resume, TypeOK
<1>2. ASSUME NEW s \in Runs, s \notin Reached(r), stage[s] = "live", Effective(s) = "pausing"
      PROVE  Effective(s)' = "pausing"
  <2>1. r \notin Line[s]
    BY <1>2, PokeReaches
  <2>2. \A a \in Line[s] : own'[a] = own[a]
    BY <1>1, <2>1, TreeAssumption
  <2> QED BY <1>2, <2>2 DEF Effective
<1>3. ASSUME NEW b \in Branches, bpc'[b] = "parked" PROVE Effective(RunOf[b])' = "pausing"
  <2>1. bpc[b] = "parked" /\ RunOf[b] \notin Reached(r)
    BY <1>3 DEF ControlCall, Cancel, ForceCancel, Pause, Resume, PokedBranches
  <2> QED BY <1>2, <2>1, ParkedIsLive, OwnerRun DEF NoLostWakeup
<1>4. ASSUME NEW t \in Threads, tpc'[t] = "parked" PROVE Effective(ThreadRun(t))' = "pausing"
  <2>1. tpc[t] = "parked" /\ ThreadRun(t) \notin Reached(r)
    BY <1>4 DEF ControlCall, Cancel, ForceCancel, Pause, Resume, PokedThreads
  <2> QED BY <1>2, <2>1, ParkedIsLive, OwnerRun DEF NoLostWakeup
<1> QED BY <1>3, <1>4 DEF NoLostWakeup, ThreadRun

\* A step that asks for nothing parks only what the effective state holds.
LEMMA StepKeepsWakeups ==
  ASSUME NoLostWakeup, own' = own,
         \A b \in Branches : bpc'[b] = "parked" =>
            bpc[b] = "parked" \/ Effective(RunOf[b]) = "pausing",
         \A t \in Threads : tpc'[t] = "parked" =>
            tpc[t] = "parked" \/ Effective(ThreadRun(t)) = "pausing"
  PROVE  NoLostWakeup'
<1>1. \A b \in Branches : Effective(RunOf[b])' = Effective(RunOf[b])
  BY DEF Effective
<1>2. \A t \in Threads : Effective(ThreadRun(t))' = Effective(ThreadRun(t))
  BY DEF Effective, ThreadRun
<1> QED BY <1>1, <1>2 DEF NoLostWakeup

LEMMA VerdictParks ==
  ASSUME NEW r, NEW granted, granted # "parked", NEW refused, refused # "parked",
         Verdict(r, granted, "parked", refused) = "parked"
  PROVE  Effective(r) = "pausing"
BY DEF Verdict, Effective

LEMMA WakeupsNext ==
  ASSUME TypeOK, WakeInv, NoLostWakeup, [Next]_vars PROVE NoLostWakeup'
<1>1. ASSUME NEW r \in Runs, Launch(r) \/ Untrack(r) PROVE NoLostWakeup'
  BY <1>1, StepKeepsWakeups DEF Launch, Start, Untrack
<1>2. ASSUME NEW b \in Branches, Boundary(b) PROVE NoLostWakeup'
  <2>1. \A e \in Branches \ {b} : bpc'[e] = bpc[e]
    BY <1>2 DEF Boundary, TypeOK
  <2>2. bpc'[b] = "parked" => Effective(RunOf[b]) = "pausing"
    BY <1>2, VerdictParks DEF Boundary, TypeOK
  <2> QED BY <1>2, <2>1, <2>2, StepKeepsWakeups DEF Boundary
<1>3. ASSUME NEW b \in Branches, BodySettles(b) \/ Escape(b) \/ EndUnit(b) \/ Journaled(b)
      PROVE  NoLostWakeup'
  <2>1. \A e \in Branches \ {b} : bpc'[e] = bpc[e]
    BY <1>3 DEF BodySettles, Escape, EndUnit, Journaled, TypeOK
  <2>2. bpc'[b] # "parked"
    BY <1>3 DEF BodySettles, Escape, EndUnit, Journaled, TypeOK
  <2>3. own' = own /\ tpc' = tpc
    BY <1>3 DEF BodySettles, Escape, EndUnit, Journaled
  <2> QED BY <2>1, <2>2, <2>3, StepKeepsWakeups
<1>4. ASSUME NEW b \in Branches, NEW t \in Threads, BeginUnit(b, t) PROVE NoLostWakeup'
  <2>1. \A e \in Branches : bpc'[e] = "parked" => bpc[e] = "parked"
    BY <1>4 DEF BeginUnit, TypeOK
  <2>2. \A u \in Threads : tpc'[u] = "parked" => tpc[u] = "parked"
    BY <1>4 DEF BeginUnit, TypeOK
  <2> QED BY <1>4, <2>1, <2>2, StepKeepsWakeups DEF BeginUnit
<1>5. ASSUME NEW t \in Threads, NEW c \in Runs, LaunchNested(t, c) PROVE NoLostWakeup'
  <2>1. \A e \in Branches : bpc'[e] = "parked" => bpc[e] = "parked"
    BY <1>5 DEF LaunchNested, Start
  <2>2. \A u \in Threads : tpc'[u] = "parked" => tpc[u] = "parked"
    BY <1>5 DEF LaunchNested, TypeOK
  <2> QED BY <1>5, <2>1, <2>2, StepKeepsWakeups DEF LaunchNested
<1>6. ASSUME NEW t \in Threads, NEW S \in SUBSET Threads, Fork(t, S) PROVE NoLostWakeup'
  BY <1>6, StepKeepsWakeups DEF Fork
<1>7. ASSUME NEW t \in Threads, Release(t) \/ Recheck(t) PROVE NoLostWakeup'
  <2>1. \A u \in Threads \ {t} : tpc'[u] = tpc[u]
    BY <1>7 DEF Release, Recheck, TypeOK
  <2>2. tpc'[t] = "parked" => Effective(ThreadRun(t)) = "pausing"
    BY <1>7, VerdictParks DEF Release, Recheck, TypeOK
  <2> QED BY <1>7, <2>1, <2>2, StepKeepsWakeups DEF Release, Recheck
<1>8. ASSUME NEW t \in Threads, NestedReturns(t) \/ Join(t) \/ Reacquire(t) \/ Finish(t)
      PROVE  NoLostWakeup'
  <2>1. \A u \in Threads : tpc'[u] = "parked" => tpc[u] = "parked"
    BY <1>8 DEF NestedReturns, Join, Reacquire, Finish, TypeOK
  <2> QED BY <1>8, <2>1, StepKeepsWakeups DEF NestedReturns, Join, Reacquire, Finish
<1>9. CASE UNCHANGED vars
  BY <1>9, StepKeepsWakeups DEF vars
<1> QED
  BY <1>1, <1>2, <1>3, <1>4, <1>5, <1>6, <1>7, <1>8, <1>9, CallKeepsWakeups DEF Next

LEMMA WakeInvariant == Escaping = {} => (Spec => [](TypeOK /\ WakeInv /\ NoLostWakeup))
<1> SUFFICES ASSUME Escaping = {} PROVE Spec => [](TypeOK /\ WakeInv /\ NoLostWakeup)
  OBVIOUS
<1>1. Init => NoLostWakeup
  BY DEF Init, NoLostWakeup
<1>2. TypeOK /\ WakeInv /\ [Next]_vars => WakeInv'
  BY WakeNext
<1>3. TypeOK /\ WakeInv /\ NoLostWakeup /\ [Next]_vars => NoLostWakeup'
  BY WakeupsNext
<1> QED BY <1>1, <1>2, <1>3, WakeInit, TypeCorrect, PTL DEF Spec

\* When no error escapes a body, whoever is parked at a checkpoint is held by
\* the effective state of that moment: poke() in run-control.ts, which walks
\* down the registered children only, misses nobody that a call released.
THEOREM WakeupsKept == Escaping = {} => (Spec => []NoLostWakeup)
BY WakeInvariant, PTL

\* And the run that holds a parked branch is registered, so that resumeRun in
\* run-control.ts finds a controller to release it with.
THEOREM HeldByLive == Escaping = {} => (Spec => []HeldByLiveRun)
<1>1. TypeOK /\ WakeInv /\ NoLostWakeup => HeldByLiveRun
  <2> SUFFICES ASSUME TypeOK, WakeInv, NoLostWakeup, NEW b \in Branches, bpc[b] = "parked"
               PROVE  \E a \in Line[RunOf[b]] : own[a] = "pausing" /\ stage[a] = "live"
    BY DEF HeldByLiveRun
  <2>1. Effective(RunOf[b]) = "pausing" /\ stage[RunOf[b]] = "live" /\ RunOf[b] \in Runs
    BY ParkedIsLive, OwnerRun DEF NoLostWakeup
  <2>2. \A a \in Line[RunOf[b]] : stage[a] = "live"
    BY <2>1 DEF WakeInv, LineLive
  <2>3. \E a \in Line[RunOf[b]] : own[a] = "pausing"
    BY <2>1 DEF Effective
  <2> QED BY <2>2, <2>3
<1> QED BY <1>1, WakeInvariant, PTL
=============================================================================
