-------------------------------- MODULE Flow --------------------------------
(***************************************************************************)
(* One level of a workflow (runner.ts, executeFlow and executeStep): its   *)
(* steps are launched together, wait for their dependencies, are gated,    *)
(* skipped, retried or rescued, and the flow reports how they settled.     *)
(* validate.ts:114 refuses cycles and unknown ids: `deps` has neither.     *)
(***************************************************************************)
EXTENDS Naturals, Sequences, FiniteSets

CONSTANTS N,        \* the steps are 1..N, in array order
          Graphs,   \* what the steps may depend on: a set of depMaps
          Shapes,   \* what a step may declare: its gate, its retries, its onError
          Outputs,  \* what a body may return, of {"true", "false", "value"}
          MaxRestarts, MaxAsks   \* bounds

Steps == 1..N

Acyclic(d) == \E rank \in [Steps -> Steps] : \A s \in Steps : \A t \in d[s] : rank[t] < rank[s]

ASSUME FlowAssumption ==
  /\ N \in Nat
  /\ Graphs \subseteq [Steps -> SUBSET Steps] /\ \A d \in Graphs : Acyclic(d)
  /\ Shapes \subseteq [when : {"none", "true", "false"}, retries : Nat, onError : BOOLEAN]
  /\ Outputs \subseteq {"true", "false", "value"}
  /\ MaxRestarts \in Nat /\ MaxAsks \in Nat

VARIABLES
  deps,      \* depMap
  shape,     \* what each step declares
  at,        \* how far runStep is with each step
  tries,     \* the attempts that failed
  got,       \* how each step's promise settled
  rejected,  \* the steps whose promises rejected, in that order
  did,       \* what each step's own execution came to
  journal,   \* the output of each step.end in the log
  rescues,   \* the output of each step.end of an onError step in the log
  ctl,       \* the run's controller
  outcome,   \* how the flow came out
  restarts, asks

static == <<deps, shape>>
log == <<journal, rescues>>
bounds == <<restarts, asks>>
vars == <<static, at, tries, got, rejected, did, log, ctl, outcome, bounds>>

Pending == [kind |-> "pending"]
Skip == [kind |-> "skip"]
Cancelled == [kind |-> "cancelled"]
Output(v) == [kind |-> "output", v |-> v]
Failure(s) == [kind |-> "error", of |-> s]
Rejections == {"error", "cancelled"}
NoOutcome == [kind |-> "none"]

\* A value for every step, as an attempt starts with.
Each(v) == [s \in Steps |-> v]

Init ==
  /\ deps \in Graphs
  /\ shape \in [Steps -> Shapes]
  /\ at = Each("deps") /\ tries = Each(0) /\ got = Each(Pending)
  /\ rejected = <<>> /\ did = Each("none")
  /\ journal = Each("none") /\ rescues = Each("none")
  /\ ctl = "running" /\ outcome = NoOutcome
  /\ restarts = 0 /\ asks = 0

-----------------------------------------------------------------------------
(* Dependencies and gates.                                                 *)

DepsMet(s) == \A d \in deps[s] : got[d].kind \in {"output", "skip"}

\* Mutant: one skipped dependency is enough.
SkippedByAny(s) ==
  IF shape[s].when = "none"
  THEN \E d \in deps[s] : got[d] = Skip
  ELSE \A d \in deps[s] : got[d] # Output(shape[s].when)

\* A step without a gate is skipped with all it depends on; a gated one unless
\* a dependency that ran came to the boolean it names.
Skipped(s) ==
  IF shape[s].when = "none"
  THEN deps[s] # {} /\ \A d \in deps[s] : got[d] = Skip
  ELSE \A d \in deps[s] : got[d] # Output(shape[s].when)

SkipStep(s) ==
  /\ at[s] = "deps" /\ DepsMet(s) /\ Skipped(s)
  /\ got' = [got EXCEPT ![s] = Skip]
  /\ at' = [at EXCEPT ![s] = "done"]
  /\ UNCHANGED <<static, tries, rejected, did, log, ctl, outcome, bounds>>

Reach(s) ==
  /\ at[s] = "deps" /\ DepsMet(s) /\ ~ Skipped(s)
  /\ at' = [at EXCEPT ![s] = "gate"]
  /\ UNCHANGED <<static, tries, got, rejected, did, log, ctl, outcome, bounds>>

\* Promise.all: the dependency that rejected first passes its reason on.
RejectedDep(s) ==
  /\ at[s] = "deps"
  /\ \E i \in 1..Len(rejected) :
       /\ rejected[i] \in deps[s]
       /\ \A j \in 1..(i - 1) : rejected[j] \notin deps[s]
       /\ got' = [got EXCEPT ![s] = got[rejected[i]]]
  /\ rejected' = Append(rejected, s)
  /\ at' = [at EXCEPT ![s] = "done"]
  /\ UNCHANGED <<static, tries, did, log, ctl, outcome, bounds>>

-----------------------------------------------------------------------------
(* A step's own execution: replay, attempts, retries, onError.             *)

Settle(s, v) ==
  /\ got' = [got EXCEPT ![s] = Output(v)]
  /\ did' = [did EXCEPT ![s] = v]
  /\ at' = [at EXCEPT ![s] = "done"]
  /\ UNCHANGED <<static, tries, rejected, ctl, outcome, bounds>>

Reject(s, reason) ==
  /\ got' = [got EXCEPT ![s] = reason]
  /\ rejected' = Append(rejected, s)
  /\ at' = [at EXCEPT ![s] = "done"]
  /\ UNCHANGED <<static, tries, log, ctl, outcome, bounds>>

\* The checkpoints before a step and before a retry park while paused; past
\* them a step whose output is in the log replays it.
Replay(s) ==
  /\ at[s] = "gate" /\ ctl = "running" /\ journal[s] # "none"
  /\ Settle(s, journal[s])
  /\ UNCHANGED log

\* Mutant: a step re-executes although the log has its output.
StartAlways(s) ==
  /\ at[s] \in {"gate", "retry"} /\ ctl = "running"
  /\ at' = [at EXCEPT ![s] = "body"]
  /\ UNCHANGED <<static, tries, got, rejected, did, log, ctl, outcome, bounds>>

Start(s) ==
  /\ at[s] \in {"gate", "retry"} /\ ctl = "running" /\ journal[s] = "none"
  /\ at' = [at EXCEPT ![s] = "body"]
  /\ UNCHANGED <<static, tries, got, rejected, did, log, ctl, outcome, bounds>>

Return(s) ==
  /\ at[s] = "body"
  /\ \E v \in Outputs : Settle(s, v) /\ journal' = [journal EXCEPT ![s] = v]
  /\ UNCHANGED rescues

\* Mutant: one retry more than declared.
RetryOnceMore(s) ==
  /\ at[s] = "body" /\ tries[s] <= shape[s].retries
  /\ tries' = [tries EXCEPT ![s] = @ + 1]
  /\ at' = [at EXCEPT ![s] = "retry"]
  /\ UNCHANGED <<static, got, rejected, did, log, ctl, outcome, bounds>>

ThrowAndRetry(s) ==
  /\ at[s] = "body" /\ tries[s] < shape[s].retries
  /\ tries' = [tries EXCEPT ![s] = @ + 1]
  /\ at' = [at EXCEPT ![s] = "retry"]
  /\ UNCHANGED <<static, got, rejected, did, log, ctl, outcome, bounds>>

ThrowAndRescue(s) ==
  /\ at[s] = "body" /\ tries[s] = shape[s].retries /\ shape[s].onError
  /\ at' = [at EXCEPT ![s] = "onError"]
  /\ UNCHANGED <<static, tries, got, rejected, did, log, ctl, outcome, bounds>>

Throw(s) ==
  /\ at[s] = "body" /\ tries[s] = shape[s].retries /\ ~ shape[s].onError
  /\ did' = [did EXCEPT ![s] = "fail"]
  /\ Reject(s, Failure(s))

\* The onError step, at its own path: replayed without a checkpoint, or run, for this step's output.
RescueReplays(s) ==
  /\ at[s] = "onError" /\ rescues[s] # "none"
  /\ Settle(s, rescues[s])
  /\ UNCHANGED log

Rescue(s) ==
  /\ at[s] = "onError" /\ ctl = "running" /\ rescues[s] = "none"
  /\ \E v \in Outputs : Settle(s, v) /\ rescues' = [rescues EXCEPT ![s] = v]
  /\ UNCHANGED journal

RescueFails(s) ==
  /\ at[s] = "onError" /\ ctl = "running" /\ rescues[s] = "none"
  /\ did' = [did EXCEPT ![s] = "fail"]
  /\ Reject(s, Failure(s))

\* A cancel stops a step at a boundary, or its body notices it: neither
\* retried nor rescued.
Cancel(s) ==
  /\ at[s] \in {"gate", "retry", "body", "onError"} /\ ctl = "cancelling"
  /\ at[s] = "onError" => rescues[s] = "none"
  /\ Reject(s, Cancelled)
  /\ UNCHANGED did

-----------------------------------------------------------------------------
(* The flow.                                                               *)

\* Mutant: the first rejection in array order is reported, cancelled or not.
ReportFirst ==
  LET failing == {s \in Steps : got[s].kind \in Rejections}
  IN  IF failing = {} THEN {[kind |-> "ok"]}
      ELSE {got[s] : s \in {t \in failing : \A u \in failing : t <= u}}

\* Mutant: the rejection that came first in time is reported.
ReportEarliest ==
  LET real == {i \in 1..Len(rejected) : got[rejected[i]].kind = "error"}
  IN  IF rejected = <<>> THEN {[kind |-> "ok"]}
      ELSE IF real = {} THEN {Cancelled}
      ELSE {got[rejected[i]] : i \in {j \in real : \A k \in real : j <= k}}

\* A real failure is preferred to a cancellation; of several, array order.
Report ==
  LET real == {s \in Steps : got[s].kind = "error"}
  IN  IF rejected = <<>> THEN {[kind |-> "ok"]}
      ELSE IF real = {} THEN {Cancelled}
      ELSE {got[s] : s \in {t \in real : \A u \in real : t <= u}}

\* Mutant: the flow reports as soon as one branch fails.
JoinEarly ==
  /\ outcome = NoOutcome
  /\ rejected # <<>> \/ \A s \in Steps : at[s] = "done"
  /\ outcome' \in Report
  /\ UNCHANGED <<static, at, tries, got, rejected, did, log, ctl, bounds>>

\* allSettled: every branch has settled.
Join ==
  /\ outcome = NoOutcome
  /\ \A s \in Steps : at[s] = "done"
  /\ outcome' \in Report
  /\ UNCHANGED <<static, at, tries, got, rejected, did, log, ctl, bounds>>

\* pause, resume and cancel of the run
Control ==
  /\ outcome = NoOutcome /\ asks < MaxAsks
  /\ ctl' \in CASE ctl = "running"    -> {"paused", "cancelling"}
                [] ctl = "paused"     -> {"running", "cancelling"}
                [] ctl = "cancelling" -> {"cancelling"}
  /\ asks' = asks + 1
  /\ UNCHANGED <<static, at, tries, got, rejected, did, log, outcome, restarts>>

\* A kill, or an end short of ok, and a durable resume: the log is what is left.
Restart ==
  /\ restarts < MaxRestarts /\ outcome.kind # "ok"
  /\ at' = Each("deps") /\ tries' = Each(0) /\ got' = Each(Pending)
  /\ rejected' = <<>> /\ did' = Each("none")
  /\ ctl' = "running" /\ outcome' = NoOutcome
  /\ restarts' = restarts + 1
  /\ UNCHANGED <<static, log, asks>>

StepAction(s) ==
  \/ SkipStep(s) \/ Reach(s) \/ RejectedDep(s)
  \/ Replay(s) \/ Start(s) \/ Return(s) \/ ThrowAndRetry(s) \/ ThrowAndRescue(s) \/ Throw(s)
  \/ RescueReplays(s) \/ Rescue(s) \/ RescueFails(s) \/ Cancel(s)

Next == (\E s \in Steps : StepAction(s)) \/ Join \/ Control \/ Restart

Spec == Init /\ [][Next]_vars

-----------------------------------------------------------------------------
\* The shape of the state: what each step's promise, journal and attempts may hold.
TypeOK ==
  /\ deps \in Graphs /\ shape \in [Steps -> Shapes]
  /\ at \in [Steps -> {"deps", "gate", "body", "retry", "onError", "done"}]
  /\ \A s \in Steps : tries[s] \in 0..shape[s].retries
  /\ got \in [Steps -> {Pending, Skip, Cancelled} \cup {Output(v) : v \in Outputs}
                        \cup {Failure(s) : s \in Steps}]
  /\ rejected \in Seq(Steps)
  /\ did \in [Steps -> Outputs \cup {"none", "fail"}]
  /\ journal \in [Steps -> Outputs \cup {"none"}]
  /\ rescues \in [Steps -> Outputs \cup {"none"}]
  /\ ctl \in {"running", "paused", "cancelling"}
  /\ outcome.kind \in {"none", "ok", "cancelled", "error"}

\* The flow run one step at a time, in the order of its dependencies, on what
\* the steps' own executions came to.
Reference[s \in Steps] ==
  LET before == {Reference[d] : d \in deps[s]}
      ran == {o \in before : o.kind = "output"}
  IN  IF \E o \in before : o.kind = "error" THEN [kind |-> "error"]
      ELSE IF \/ shape[s].when = "none" /\ deps[s] # {} /\ before = {Skip}
              \/ shape[s].when # "none" /\ ~ \E o \in ran : o.v = shape[s].when
      THEN Skip
      ELSE IF did[s] = "fail" THEN [kind |-> "error"]
      ELSE IF did[s] = "none" THEN Pending
      ELSE Output(did[s])

\* Whatever order the steps settled in, each came to what the sequential run
\* makes of it: which are skipped, which fail with their dependencies, which run.
AsReference ==
  ctl # "cancelling" =>
    \A s \in Steps : got[s] # Pending =>
      /\ got[s].kind = Reference[s].kind
      /\ got[s].kind = "output" => got[s].v = Reference[s].v

\* runner.ts:848: a genuine error is not masked by a cancel that raced it.  And when steps depend
\* on steps before them, the error reported is that of the first step in array order that failed,
\* whichever failed first in time, never one handed on to its dependents.
ReportsTheCause ==
  /\ outcome.kind = "cancelled" => \A s \in Steps : did[s] # "fail"
  /\ outcome.kind = "error" /\ (\A s \in Steps : \A d \in deps[s] : d < s) =>
       /\ did[outcome.of] = "fail"
       /\ \A s \in Steps : did[s] = "fail" => outcome.of <= s

\* runner.ts:744: no step event lands after the terminal one: from the report
\* on, no step moves and the log does not grow.
QuietAfterReport == [][outcome # NoOutcome => log' = log /\ (at' = at \/ restarts' # restarts)]_vars

Unrescued(s) == rescues[s] = "none"

\* A step that has ended in any attempt is never skipped in a later one, in a
\* flow none of whose steps was rescued by its onError.
EndedIsNotSkipped ==
  (\A s \in Steps : Unrescued(s)) => \A s \in Steps : journal[s] # "none" => got[s] # Skip

\* RUN_CONTROL_SPEC.md:243 as it stands: "Scope, templates, and skip/gate logic
\* are reconstructed naturally because they only ever consume step outputs."
GatesReconstructed == \A s \in Steps : journal[s] # "none" => got[s] # Skip
=============================================================================
