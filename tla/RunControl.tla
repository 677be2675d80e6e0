---------------------------- MODULE RunControl ----------------------------
(***************************************************************************)
(* Cooperative run control: the tree of RunControllers (run-control.ts),   *)
(* the branches of the flows they control and the step bodies those        *)
(* branches run (runner.ts, dispatchStep).                                 *)
(*                                                                         *)
(* JavaScript runs one callback at a time, so every action below is one    *)
(* synchronous stretch of code: what happens between two `await`s.  The    *)
(* pc values "passed", "woken", "returned" and "rejected" are promises     *)
(* that have settled and whose continuation is still queued.               *)
(*                                                                         *)
(* A unit of work is one step body.  Its threads are the asynchronous      *)
(* activities that share the unit's ctx.control view: the step itself, or  *)
(* the sub-agents an agent step runs side by side as tools.  A thread is   *)
(* abandoned (in `zombies`) when the runner stopped waiting for its body   *)
(* while the body itself goes on.                                          *)
(***************************************************************************)
EXTENDS Integers, FiniteSets

CONSTANTS Runs,        \* run ids
          NoRun,       \* `undefined` where a controller is expected
          Parent,      \* the run a nested run is launched by, NoRun for a root
          Line,        \* a run and all its ancestors
          Branches,    \* what executeFlow / executeForeach run concurrently
          RunOf,       \* the run a branch belongs to
          Threads,     \* the concurrent activities inside step bodies
          BranchOf,    \* the branch whose bodies use a thread
          Escaping     \* branches whose bodies may let an error escape them

ASSUME TreeAssumption ==
  /\ NoRun \notin Runs
  /\ Parent \in [Runs -> Runs \cup {NoRun}]
  /\ Line \in [Runs -> SUBSET Runs]
  /\ \A r \in Runs : r \in Line[r]
  /\ \A r \in Runs : Parent[r] = NoRun => Line[r] = {r}
  /\ \A r \in Runs : Parent[r] # NoRun => Line[r] = {r} \cup Line[Parent[r]]
  /\ \A r, s \in Runs : r \in Line[s] /\ s \in Line[r] => r = s
  /\ \A r, s \in Runs : r \in Line[s] => Line[r] \subseteq Line[s]
  /\ \A r, s \in Runs : r \in Line[s] /\ r # s => \E c \in Line[s] : Parent[c] = r

ASSUME OwnerAssumption ==
  /\ IsFiniteSet(Branches) /\ IsFiniteSet(Threads)
  /\ RunOf \in [Branches -> Runs]
  /\ BranchOf \in [Threads -> Branches]
  /\ Escaping \subseteq Branches

VARIABLES stage,    \* "new" | "live": in the controllers map | "gone": untracked
          own,      \* a controller's own state
          forced,   \* ownForced
          busy,     \* the unit counter
          bpc,      \* where a branch is
          tpc,      \* where a body's thread is
          awaits,   \* the nested run a thread waits for
          zombies   \* threads of bodies the runner no longer waits for

vars == <<stage, own, forced, busy, bpc, tpc, awaits, zombies>>

BranchPcs == {"idle", "boundary", "parked", "woken", "passed", "unit",
              "returned", "rejected", "journaling", "out"}
ThreadPcs == {"off", "work", "join", "await", "parked", "woken", "passed", "thrown"}

ThreadRun(t) == RunOf[BranchOf[t]]

-----------------------------------------------------------------------------
(* Reading the tree *)

\* The effective state: the strictest of a run and its ancestors.
Effective(r) ==
  IF \E a \in Line[r] : own[a] = "cancelling" THEN "cancelling"
  ELSE IF \E a \in Line[r] : own[a] = "pausing" THEN "pausing"
  ELSE "running"

Forced(r) == \E a \in Line[r] : forced[a]

\* What a walk down the `children` sets of r visits: untrack detaches a run
\* from its parent's set, so nothing below a gone run is reached from above.
Reached(r) ==
  {d \in Runs : r \in Line[d] /\ \A a \in Line[d] : (r \in Line[a] /\ a # r) => stage[a] = "live"}

Quiesced(r) == \A d \in Reached(r) : busy[d] <= 0

\* The `state` getter.
State(r) == IF Effective(r) = "pausing" /\ Quiesced(r) THEN "paused" ELSE Effective(r)

\* What one evaluation of `checkpoint()` in run r leads to.
Verdict(r, granted, held, refused) ==
  CASE Effective(r) = "cancelling" -> refused
    [] Effective(r) = "pausing"    -> held
    [] OTHER                       -> granted

\* Mutant: a poke stops at the run's own checkpoints.
PokedOwnBranches(r) ==
  [b \in Branches |-> IF bpc[b] = "parked" /\ RunOf[b] = r THEN "woken" ELSE bpc[b]]

\* poke(): every parked checkpoint below r re-reads the state.
PokedBranches(r) ==
  [b \in Branches |-> IF bpc[b] = "parked" /\ RunOf[b] \in Reached(r) THEN "woken" ELSE bpc[b]]
PokedThreads(r) ==
  [t \in Threads |-> IF tpc[t] = "parked" /\ ThreadRun(t) \in Reached(r) THEN "woken" ELSE tpc[t]]

-----------------------------------------------------------------------------
(* Runs come and go *)

Init ==
  /\ stage = [r \in Runs |-> "new"]
  /\ own = [r \in Runs |-> "running"]
  /\ forced = [r \in Runs |-> FALSE]
  /\ busy = [r \in Runs |-> 0]
  /\ bpc = [b \in Branches |-> "idle"]
  /\ tpc = [t \in Threads |-> "off"]
  /\ awaits = [t \in Threads |-> NoRun]
  /\ zombies = {}

\* trackRun: register the controller; the flow's branches go to their first
\* boundary.
Start(r) ==
  /\ stage[r] = "new"
  /\ stage' = [stage EXCEPT ![r] = "live"]
  /\ bpc' = [b \in Branches |-> IF RunOf[b] = r THEN "boundary" ELSE bpc[b]]

Launch(r) ==
  /\ Parent[r] = NoRun
  /\ Start(r)
  /\ UNCHANGED <<own, forced, busy, tpc, awaits, zombies>>

\* meta/run-workflow: a body launches a nested run and waits for it, its own
\* unit still held.
LaunchNested(t, c) ==
  /\ tpc[t] = "work"
  /\ Parent[c] = ThreadRun(t)
  /\ stage[Parent[c]] = "live"
  /\ Start(c)
  /\ tpc' = [tpc EXCEPT ![t] = "await"]
  /\ awaits' = [awaits EXCEPT ![t] = c]
  /\ UNCHANGED <<own, forced, busy, zombies>>

NestedReturns(t) ==
  /\ tpc[t] = "await"
  /\ stage[awaits[t]] = "gone"
  /\ tpc' = [tpc EXCEPT ![t] = "work"]
  /\ awaits' = [awaits EXCEPT ![t] = NoRun]
  /\ UNCHANGED <<stage, own, forced, busy, bpc, zombies>>

\* untrack, once every branch has settled (executeFlow's allSettled).
Untrack(r) ==
  /\ stage[r] = "live"
  /\ \A b \in Branches : RunOf[b] = r => bpc[b] = "out"
  /\ stage' = [stage EXCEPT ![r] = "gone"]
  /\ UNCHANGED <<own, forced, busy, bpc, tpc, awaits, zombies>>

-----------------------------------------------------------------------------
(* Control calls, on a run whose controller is registered *)

\* Mutant: a cancel waits for the next boundary and pokes nobody.
CancelUnpoked(r) ==
  /\ stage[r] = "live"
  /\ own' = [own EXCEPT ![r] = "cancelling"]
  /\ UNCHANGED <<stage, forced, busy, bpc, tpc, awaits, zombies>>

Cancel(r) ==
  /\ stage[r] = "live"
  /\ own' = [own EXCEPT ![r] = "cancelling"]
  /\ bpc' = PokedBranches(r)
  /\ tpc' = PokedThreads(r)
  /\ UNCHANGED <<stage, forced, busy, awaits, zombies>>

\* Mutant: a force gives up on the run's own bodies only.
ForceOwn(r) ==
  LET struck == {b \in Branches : bpc[b] = "unit" /\ RunOf[b] = r}
  IN  /\ stage[r] = "live"
      /\ own' = [own EXCEPT ![r] = "cancelling"]
      /\ forced' = [d \in Runs |-> forced[d] \/ d \in Reached(r)]
      /\ bpc' = [b \in Branches |-> IF b \in struck THEN "rejected" ELSE PokedBranches(r)[b]]
      /\ tpc' = PokedThreads(r)
      /\ zombies' = zombies \cup {t \in Threads : BranchOf[t] \in struck /\ tpc[t] # "off"}
      /\ UNCHANGED <<stage, busy, awaits>>

\* force(): cancel, then reject every raceForce in the subtree; the bodies
\* raced against go on unwatched.
ForceCancel(r) ==
  LET struck == {b \in Branches : bpc[b] = "unit" /\ RunOf[b] \in Reached(r)}
  IN  /\ stage[r] = "live"
      /\ own' = [own EXCEPT ![r] = "cancelling"]
      /\ forced' = [d \in Runs |-> forced[d] \/ d \in Reached(r)]
      /\ bpc' = [b \in Branches |-> IF b \in struck THEN "rejected" ELSE PokedBranches(r)[b]]
      /\ tpc' = PokedThreads(r)
      /\ zombies' = zombies \cup {t \in Threads : BranchOf[t] \in struck /\ tpc[t] # "off"}
      /\ UNCHANGED <<stage, busy, awaits>>

\* Mutant: the state that is shown is stored.
PauseStoresPaused(r) ==
  /\ stage[r] = "live"
  /\ own' = [own EXCEPT ![r] = IF @ = "running" THEN "paused" ELSE @]
  /\ bpc' = PokedBranches(r)
  /\ tpc' = PokedThreads(r)
  /\ UNCHANGED <<stage, forced, busy, awaits, zombies>>

Pause(r) ==
  /\ stage[r] = "live"
  /\ own' = [own EXCEPT ![r] = IF @ = "running" THEN "pausing" ELSE @]
  /\ bpc' = PokedBranches(r)
  /\ tpc' = PokedThreads(r)
  /\ UNCHANGED <<stage, forced, busy, awaits, zombies>>

\* Mutant: a resume takes a cancel back.
ResumeUncancels(r) ==
  /\ stage[r] = "live"
  /\ own' = [own EXCEPT ![r] = "running"]
  /\ bpc' = PokedBranches(r)
  /\ tpc' = PokedThreads(r)
  /\ UNCHANGED <<stage, forced, busy, awaits, zombies>>

\* Mutant: a resume wakes nobody.
ResumeUnpoked(r) ==
  /\ stage[r] = "live"
  /\ own' = [own EXCEPT ![r] = IF @ = "cancelling" THEN @ ELSE "running"]
  /\ UNCHANGED <<stage, forced, busy, bpc, tpc, awaits, zombies>>

Resume(r) ==
  /\ stage[r] = "live"
  /\ own' = [own EXCEPT ![r] = IF @ = "cancelling" THEN @ ELSE "running"]
  /\ bpc' = PokedBranches(r)
  /\ tpc' = PokedThreads(r)
  /\ UNCHANGED <<stage, forced, busy, awaits, zombies>>

-----------------------------------------------------------------------------
(* A branch: boundary, unit, journal, next boundary *)

\* Mutant: a woken checkpoint lets its branch through without a second look.
BoundaryUnchecked(b) ==
  /\ bpc[b] \in {"boundary", "woken"}
  /\ bpc' = [bpc EXCEPT ![b] =
       IF bpc[b] = "woken" THEN "passed" ELSE Verdict(RunOf[b], "passed", "parked", "out")]
  /\ UNCHANGED <<stage, own, forced, busy, tpc, awaits, zombies>>

\* checkpoint() at a boundary, or re-evaluated after a poke.
Boundary(b) ==
  /\ bpc[b] \in {"boundary", "woken"}
  /\ bpc' = [bpc EXCEPT ![b] = Verdict(RunOf[b], "passed", "parked", "out")]
  /\ UNCHANGED <<stage, own, forced, busy, tpc, awaits, zombies>>

\* The continuation of dispatchStep's checkpoint: beginUnit, and the body is
\* started before raceForce looks whether the run was forced meanwhile.
BeginUnit(b, t) ==
  /\ bpc[b] = "passed"
  /\ BranchOf[t] = b /\ tpc[t] = "off"
  /\ busy' = [busy EXCEPT ![RunOf[b]] = @ + 1]
  /\ tpc' = [tpc EXCEPT ![t] = "work"]
  /\ bpc' = [bpc EXCEPT ![b] = IF Forced(RunOf[b]) THEN "rejected" ELSE "unit"]
  /\ zombies' = IF Forced(RunOf[b]) THEN zombies \cup {t} ELSE zombies
  /\ UNCHANGED <<stage, own, forced, awaits>>

\* The threads of the body the branch still waits for.
Body(b) == {t \in Threads : BranchOf[t] = b /\ tpc[t] # "off" /\ t \notin zombies}

\* The body's promise settles: all its threads are through.
BodySettles(b) ==
  /\ bpc[b] = "unit"
  /\ Body(b) = {}
  /\ \E outcome \in {"returned", "rejected"} : bpc' = [bpc EXCEPT ![b] = outcome]
  /\ UNCHANGED <<stage, own, forced, busy, tpc, awaits, zombies>>

\* guardEscapes: an error a callback throws fails the call that owns it; the
\* body itself is left to finish or not.
Escape(b) ==
  /\ b \in Escaping
  /\ bpc[b] = "unit"
  /\ bpc' = [bpc EXCEPT ![b] = "rejected"]
  /\ zombies' = zombies \cup Body(b)
  /\ UNCHANGED <<stage, own, forced, busy, tpc, awaits>>

\* Mutant: the unit is ended after the body, not in a finally.
EndUnitUnlessThrown(b) ==
  /\ bpc[b] \in {"returned", "rejected"}
  /\ busy' = IF bpc[b] = "returned" THEN [busy EXCEPT ![RunOf[b]] = @ - 1] ELSE busy
  /\ \E next \in IF bpc[b] = "returned" THEN {"journaling"} ELSE {"boundary", "out"} :
       bpc' = [bpc EXCEPT ![b] = next]
  /\ UNCHANGED <<stage, own, forced, tpc, awaits, zombies>>

\* dispatchStep's finally.  A step that returned still has its step.end to
\* append; one that threw ends the branch or is retried past a boundary.
EndUnit(b) ==
  /\ bpc[b] \in {"returned", "rejected"}
  /\ busy' = [busy EXCEPT ![RunOf[b]] = @ - 1]
  /\ \E next \in IF bpc[b] = "returned" THEN {"journaling"} ELSE {"boundary", "out"} :
       bpc' = [bpc EXCEPT ![b] = next]
  /\ UNCHANGED <<stage, own, forced, tpc, awaits, zombies>>

\* The step.end is in the log: on to the next step, or the branch is done.
Journaled(b) ==
  /\ bpc[b] = "journaling"
  /\ \E next \in {"boundary", "out"} : bpc' = [bpc EXCEPT ![b] = next]
  /\ UNCHANGED <<stage, own, forced, busy, tpc, awaits, zombies>>

-----------------------------------------------------------------------------
(* A thread of a body *)

\* The others at work in the same body, abandoned or not as t is.
Fellows(t) ==
  {u \in Threads \ {t} : BranchOf[u] = BranchOf[t] /\ tpc[u] # "off" /\ (u \in zombies <=> t \in zombies)}

\* An agent runs its tool calls side by side, sub-agents among them, and
\* waits for all of them.
Fork(t, S) ==
  /\ tpc[t] = "work" /\ Fellows(t) = {}
  /\ S # {} /\ \A u \in S : tpc[u] = "off" /\ BranchOf[u] = BranchOf[t]
  /\ tpc' = [u \in Threads |-> IF u = t THEN "join" ELSE IF u \in S THEN "work" ELSE tpc[u]]
  /\ zombies' = IF t \in zombies THEN zombies \cup S ELSE zombies
  /\ UNCHANGED <<stage, own, forced, busy, bpc, awaits>>

Join(t) ==
  /\ tpc[t] = "join" /\ Fellows(t) = {}
  /\ tpc' = [tpc EXCEPT ![t] = "work"]
  /\ UNCHANGED <<stage, own, forced, busy, bpc, awaits, zombies>>

\* ctx.control.checkpoint(): release the unit, then evaluate.
Release(t) ==
  /\ tpc[t] = "work"
  /\ busy' = [busy EXCEPT ![ThreadRun(t)] = @ - 1]
  /\ tpc' = [tpc EXCEPT ![t] = Verdict(ThreadRun(t), "passed", "parked", "thrown")]
  /\ UNCHANGED <<stage, own, forced, bpc, awaits, zombies>>

Recheck(t) ==
  /\ tpc[t] = "woken"
  /\ tpc' = [tpc EXCEPT ![t] = Verdict(ThreadRun(t), "passed", "parked", "thrown")]
  /\ UNCHANGED <<stage, own, forced, busy, bpc, awaits, zombies>>

\* Mutant: a thread goes on without taking its unit again.
ReacquireNothing(t) ==
  /\ tpc[t] \in {"passed", "thrown"}
  /\ tpc' = [tpc EXCEPT ![t] = IF tpc[t] = "passed" THEN "work" ELSE "off"]
  /\ zombies' = IF tpc[t] = "thrown" THEN zombies \ {t} ELSE zombies
  /\ UNCHANGED <<stage, own, forced, busy, bpc, awaits>>

\* The view's finally: the unit is taken again, and the thread goes on or
\* ends with the CancelledError.
Reacquire(t) ==
  /\ tpc[t] \in {"passed", "thrown"}
  /\ busy' = [busy EXCEPT ![ThreadRun(t)] = @ + 1]
  /\ tpc' = [tpc EXCEPT ![t] = IF tpc[t] = "passed" THEN "work" ELSE "off"]
  /\ zombies' = IF tpc[t] = "thrown" THEN zombies \ {t} ELSE zombies
  /\ UNCHANGED <<stage, own, forced, bpc, awaits>>

\* The thread is through with its work.
Finish(t) ==
  /\ tpc[t] = "work"
  /\ tpc' = [tpc EXCEPT ![t] = "off"]
  /\ zombies' = zombies \ {t}
  /\ UNCHANGED <<stage, own, forced, busy, bpc, awaits>>

-----------------------------------------------------------------------------
ControlCall(r) == Cancel(r) \/ ForceCancel(r) \/ Pause(r) \/ Resume(r)

Next ==
  \/ \E r \in Runs : Launch(r) \/ Untrack(r) \/ ControlCall(r)
  \/ \E b \in Branches : Boundary(b) \/ BodySettles(b) \/ Escape(b) \/ EndUnit(b) \/ Journaled(b)
  \/ \E b \in Branches, t \in Threads : BeginUnit(b, t)
  \/ \E t \in Threads, c \in Runs : LaunchNested(t, c)
  \/ \E t \in Threads, S \in SUBSET Threads : Fork(t, S)
  \/ \E t \in Threads :
       NestedReturns(t) \/ Join(t) \/ Release(t) \/ Recheck(t) \/ Reacquire(t) \/ Finish(t)

Spec == Init /\ [][Next]_vars

\* The event loop runs every queued continuation, and every append the
\* runner awaits settles.
RunnerFairness ==
  /\ \A b \in Branches :
       /\ WF_vars(Boundary(b)) /\ WF_vars(BodySettles(b))
       /\ WF_vars(EndUnit(b)) /\ WF_vars(Journaled(b))
       /\ WF_vars(\E t \in Threads : BeginUnit(b, t))
  /\ \A t \in Threads :
       /\ WF_vars(NestedReturns(t)) /\ WF_vars(Join(t))
       /\ WF_vars(Recheck(t)) /\ WF_vars(Reacquire(t))
  /\ \A r \in Runs : WF_vars(Untrack(r))

\* Bodies that never hang: one at work comes to its next boundary or returns.
BodyFairness == \A t \in Threads : SF_vars(Release(t) \/ Finish(t))

\* Under HangingSpec a body may hang for ever.
HangingSpec == Spec /\ RunnerFairness
FairSpec == HangingSpec /\ BodyFairness

-----------------------------------------------------------------------------
(* Properties *)

TypeOK ==
  /\ stage \in [Runs -> {"new", "live", "gone"}]
  /\ own \in [Runs -> {"running", "pausing", "cancelling"}]
  /\ forced \in [Runs -> BOOLEAN]
  /\ busy \in [Runs -> Int]
  /\ bpc \in [Branches -> BranchPcs]
  /\ tpc \in [Threads -> ThreadPcs]
  /\ awaits \in [Threads -> Runs \cup {NoRun}]
  /\ zombies \subseteq Threads

UnitPcs == {"unit", "returned", "rejected"}
AwayPcs == {"parked", "woken", "passed", "thrown"}
Holding(r) == {b \in Branches : RunOf[b] = r /\ bpc[b] \in UnitPcs}
Released(r) == {t \in Threads : ThreadRun(t) = r /\ tpc[t] \in AwayPcs}

\* beginUnit and endUnit stay paired across checkpoints inside bodies,
\* failures, forced cancels and abandoned bodies: the counter is the units
\* begun and not ended less the threads that handed theirs back.
BusyBalance == \A r \in Runs : busy[r] = Cardinality(Holding(r)) - Cardinality(Released(r))

\* No lost wakeup: a checkpoint is parked, with no poke on its way, only
\* while its run is effectively paused.  Every control call must reach every
\* waiter whose effective state it changes, whatever was attached or
\* detached meanwhile.
NoLostWakeup ==
  /\ \A b \in Branches : bpc[b] = "parked" => Effective(RunOf[b]) = "pausing"
  /\ \A t \in Threads : tpc[t] = "parked" => Effective(ThreadRun(t)) = "pausing"

\* Whoever is parked can be released: a run that is still registered is the
\* one holding it, so there is a controller to ask for the resume.
HeldByLiveRun ==
  \A b \in Branches :
    bpc[b] = "parked" => \E a \in Line[RunOf[b]] : own[a] = "pausing" /\ stage[a] = "live"

\* A unit runs one thread at a time and none was abandoned: no sub-agents in
\* flight, no body left behind.
Plain(r) ==
  \A t, u \in Threads :
    ThreadRun(t) = r /\ tpc[t] # "off" =>
      /\ t \notin zombies
      /\ BranchOf[u] = BranchOf[t] /\ tpc[u] # "off" => u = t

\* While every unit below r is plain, "paused" is the truth: nobody is at
\* work in a body, whatever the interleaving of pause, resume, nested
\* launches and steps that check in on their own.
PausedIsIdle ==
  \A r \in Runs :
    (stage[r] = "live" /\ State(r) = "paused" /\ \A d \in Reached(r) : Plain(d)) =>
      \A t \in Threads : ThreadRun(t) \in Reached(r) => tpc[t] \notin {"work", "join", "await"}

\* RunControl implements RunConsent: a boundary lets a branch through exactly
\* when nothing in its line is paused or cancelled at that moment, the consent
\* lasts until the unit is ended, and a cancel is never undone.
AskedOf == [r \in Runs |-> CASE Effective(r) = "running" -> "go"
                             [] Effective(r) = "pausing" -> "hold"
                             [] OTHER                    -> "stop"]
Consented == {b \in Branches : bpc[b] \in {"passed"} \cup UnitPcs}
Gone == {r \in Runs : stage[r] = "gone"}

Consents == INSTANCE RunConsent WITH ask <- AskedOf, consents <- Consented, over <- Gone

ImplementsConsent == Consents!CSpec

\* A cancelled run ends, with all its nested runs, if its bodies come to
\* their next boundary.
CancelEnds == \A r \in Runs : (stage[r] = "live" /\ Effective(r) = "cancelling") ~> (stage[r] = "gone")

\* A forced cancel ends the run and its nested runs even when bodies hang.
ForceEnds == \A r \in Runs : (stage[r] = "live" /\ Forced(r)) ~> (stage[r] = "gone")

\* A pause that is not taken back is reported as settled.
PauseSettles ==
  \A r \in Runs :
    (stage[r] = "live" /\ Effective(r) = "pausing") ~>
      (State(r) = "paused" \/ Effective(r) # "pausing" \/ stage[r] = "gone")

-----------------------------------------------------------------------------
(* What the code's comments and RUN_CONTROL_SPEC.md say, and the code does  *)
(* not quite do                                                             *)

\* run-control.ts, quiesced: nothing is mid-unit when the run reads "paused",
\* sub-agents of one body included.
PausedMeansParked ==
  \A t \in Threads : (tpc[t] = "work" /\ t \notin zombies) => State(ThreadRun(t)) # "paused"
=============================================================================
