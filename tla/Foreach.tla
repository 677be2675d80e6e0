------------------------------ MODULE Foreach ------------------------------
(***************************************************************************)
(* The foreach step (runner.ts, executeForeach): a pool of workers pulls   *)
(* iterations off a shared cursor, beside pauses and cancels of the run,   *)
(* and, cut off, starts over on the iterations its log already has.        *)
(***************************************************************************)
EXTENDS Naturals, FiniteSets

CONSTANTS N,           \* the items are 0..N-1
          Workers,     \* as many as run at once; one is the sequential form
          MaxRestarts, MaxAsks   \* bounds

ASSUME ForeachAssumption ==
  /\ N \in Nat
  /\ IsFiniteSet(Workers) /\ Workers # {}
  /\ MaxRestarts \in Nat /\ MaxAsks \in Nat

Items == 0..(N - 1)

VARIABLES
  fate,      \* what the body makes of each item: "ok" or "fail"
  cursor,    \* the next index to pull
  worker,    \* where each worker is, and on which item
  failures,  \* the iterations that failed, and how
  results,   \* the indices of `results` that are filled
  journal,   \* the iterations whose step.end is in the log
  ctl,       \* the run's controller
  outcome,   \* how the step came out
  begun,     \* the iterations whose step.start this attempt wrote
  restarts, asks

bounds == <<restarts, asks>>
vars == <<fate, cursor, worker, failures, results, journal, ctl, outcome, begun, bounds>>

Idle == [at |-> "pull", i |-> 0]
Left == [at |-> "left", i |-> 0]
NoOutcome == [kind |-> "none"]
Failed(how) == {f.i : f \in {g \in failures : g.how = how}}

Init ==
  /\ fate \in [Items -> {"ok", "fail"}]
  /\ cursor = 0
  /\ worker = [w \in Workers |-> Idle]
  /\ failures = {} /\ results = {} /\ journal = {} /\ begun = {}
  /\ ctl = "running" /\ outcome = NoOutcome
  /\ restarts = 0 /\ asks = 0

\* Mutant: an off-by-one at the end of the items.
PullPastEnd(w) ==
  /\ worker[w].at = "pull"
  /\ IF failures # {} \/ cursor > N
     THEN worker' = [worker EXCEPT ![w] = Left] /\ UNCHANGED cursor
     ELSE worker' = [worker EXCEPT ![w] = [at |-> "gate", i |-> cursor]] /\ cursor' = cursor + 1
  /\ UNCHANGED <<fate, failures, results, journal, ctl, outcome, begun, bounds>>

\* Mutant: a worker takes the index another has just taken.
PullShared(w) ==
  /\ worker[w].at = "pull"
  /\ IF failures # {} \/ cursor >= N
     THEN worker' = [worker EXCEPT ![w] = Left] /\ UNCHANGED cursor
     ELSE /\ worker' = [worker EXCEPT ![w] = [at |-> "gate", i |-> cursor]]
          /\ cursor' \in {cursor, cursor + 1}
  /\ UNCHANGED <<fate, failures, results, journal, ctl, outcome, begun, bounds>>

\* The head of a worker's loop: leave once anything failed or nothing is left.
Pull(w) ==
  /\ worker[w].at = "pull"
  /\ IF failures # {} \/ cursor >= N
     THEN worker' = [worker EXCEPT ![w] = Left] /\ UNCHANGED cursor
     ELSE worker' = [worker EXCEPT ![w] = [at |-> "gate", i |-> cursor]] /\ cursor' = cursor + 1
  /\ UNCHANGED <<fate, failures, results, journal, ctl, outcome, begun, bounds>>

Fails(w, how) ==
  /\ failures' = failures \cup {[i |-> worker[w].i, how |-> how]}
  /\ worker' = [worker EXCEPT ![w] = Left]
  /\ UNCHANGED <<fate, cursor, results, journal, ctl, outcome, begun, bounds>>

\* The checkpoint before an iteration: it parks while the run is paused.
Begin(w) ==
  /\ worker[w].at = "gate" /\ ctl = "running" /\ worker[w].i \notin journal
  /\ begun' = begun \cup {worker[w].i}
  /\ worker' = [worker EXCEPT ![w].at = "body"]
  /\ UNCHANGED <<fate, cursor, failures, results, journal, ctl, outcome, bounds>>

Replay(w) ==
  /\ worker[w].at = "gate" /\ ctl = "running" /\ worker[w].i \in journal
  /\ results' = results \cup {worker[w].i}
  /\ worker' = [worker EXCEPT ![w] = Idle]
  /\ UNCHANGED <<fate, cursor, failures, journal, ctl, outcome, begun, bounds>>

\* Mutant: an iteration that fails leaves its slot empty and the pool goes on.
ThrowsForgotten(w) ==
  /\ worker[w].at = "body" /\ fate[worker[w].i] = "fail"
  /\ worker' = [worker EXCEPT ![w] = Idle]
  /\ UNCHANGED <<fate, cursor, failures, results, journal, ctl, outcome, begun, bounds>>

Throws(w) ==
  /\ worker[w].at = "body" /\ fate[worker[w].i] = "fail"
  /\ Fails(w, "error")

\* Mutant: a cancel does not wake a checkpoint that a pause has parked.
CancelledInBody(w) ==
  /\ worker[w].at = "body" /\ ctl = "cancelling"
  /\ Fails(w, "cancelled")

\* A cancel stops an iteration at its boundary, or its body notices it.
Cancelled(w) ==
  /\ worker[w].at \in {"gate", "body"} /\ ctl = "cancelling"
  /\ Fails(w, "cancelled")

Returns(w) ==
  /\ worker[w].at = "body" /\ fate[worker[w].i] = "ok"
  /\ journal' = journal \cup {worker[w].i}
  /\ results' = results \cup {worker[w].i}
  /\ worker' = [worker EXCEPT ![w] = Idle]
  /\ UNCHANGED <<fate, cursor, failures, ctl, outcome, begun, bounds>>

\* Mutant: any failure is reported, not the one the sequential form meets.
ReportAny ==
  IF failures = {} THEN {[kind |-> "ok"]}
  ELSE IF Failed("cancelled") # {} THEN {[kind |-> "cancelled"]}
  ELSE {[kind |-> "error", i |-> i] : i \in Failed("error")}

\* Mutant: an ordinary error wins over a cancellation.
ReportError ==
  IF failures = {} THEN {[kind |-> "ok"]}
  ELSE IF Failed("error") = {} THEN {[kind |-> "cancelled"]}
  ELSE {[kind |-> "error", i |-> i] : i \in {j \in Failed("error") : \A k \in Failed("error") : j <= k}}

\* A cancellation wins; of errors, the one with the lowest index.
Report ==
  IF failures = {} THEN {[kind |-> "ok"]}
  ELSE IF Failed("cancelled") # {} THEN {[kind |-> "cancelled"]}
  ELSE {[kind |-> "error", i |-> i] : i \in {j \in Failed("error") : \A k \in Failed("error") : j <= k}}

\* Every worker has left.
Join ==
  /\ outcome = NoOutcome
  /\ \A w \in Workers : worker[w] = Left
  /\ outcome' \in Report
  /\ UNCHANGED <<fate, cursor, worker, failures, results, journal, ctl, begun, bounds>>

\* pause, resume and cancel of the run
Control ==
  /\ outcome = NoOutcome /\ asks < MaxAsks
  /\ ctl' \in CASE ctl = "running"    -> {"paused", "cancelling"}
                [] ctl = "paused"     -> {"running", "cancelling"}
                [] ctl = "cancelling" -> {"cancelling"}
  /\ asks' = asks + 1
  /\ UNCHANGED <<fate, cursor, worker, failures, results, journal, outcome, begun, restarts>>

\* A kill, or an end in error, and a durable resume: the log is what is left,
\* and what failed before may come out otherwise.
Restart ==
  /\ restarts < MaxRestarts /\ outcome.kind # "ok"
  /\ fate' \in {f \in [Items -> {"ok", "fail"}] : \A i \in journal : f[i] = fate[i]}
  /\ cursor' = 0 /\ worker' = [w \in Workers |-> Idle]
  /\ failures' = {} /\ results' = {} /\ begun' = {}
  /\ ctl' = "running" /\ outcome' = NoOutcome
  /\ restarts' = restarts + 1
  /\ UNCHANGED <<journal, asks>>

WorkerStep(w) == Pull(w) \/ Begin(w) \/ Replay(w) \/ Throws(w) \/ Cancelled(w) \/ Returns(w)

Next == (\E w \in Workers : WorkerStep(w)) \/ Join \/ Control \/ Restart

\* The runtime serves every worker that is not parked.
Spec ==
  /\ Init /\ [][Next]_vars
  /\ \A w \in Workers : WF_vars(WorkerStep(w))
  /\ WF_vars(Join)

-----------------------------------------------------------------------------
\* The shape of the state; in particular the cursor never passes the end of the items.
TypeOK ==
  /\ fate \in [Items -> {"ok", "fail"}]
  /\ cursor \in 0..N
  /\ worker \in [Workers -> [at : {"pull", "gate", "body", "left"}, i : Nat]]
  /\ failures \subseteq [i : Items, how : {"error", "cancelled"}]
  /\ results \subseteq Items /\ journal \subseteq Items /\ begun \subseteq Items
  /\ ctl \in {"running", "paused", "cancelling"}
  /\ outcome \in [kind : {"none", "ok", "cancelled"}] \cup [kind : {"error"}, i : Items]
  /\ restarts \in Nat /\ asks \in Nat

\* The item a worker has in its hands, an item in two hands, and items nobody
\* has settled.
Busy(w) == worker[w].at \in {"gate", "body"}
InHand == {worker[w].i : w \in {v \in Workers : Busy(v)}}
Settled == results \cup {f.i : f \in failures}

\* Every index pulled is in exactly one place: in one worker's hands, or
\* settled one way.
OnePlace ==
  /\ \A v, w \in Workers : Busy(v) /\ Busy(w) /\ worker[v].i = worker[w].i => v = w
  /\ InHand \cap Settled = {}
  /\ InHand \cup Settled = 0..(cursor - 1)
  /\ results \cap {f.i : f \in failures} = {}

\* Whatever order the pool ran in, its error is the one the sequential form
\* would have met first; a pool that says ok filled every slot.
AsSequential ==
  /\ outcome.kind = "error" =>
       /\ fate[outcome.i] = "fail"
       /\ \A i \in Items : i < outcome.i => fate[i] = "ok"
  /\ outcome.kind = "ok" => results = Items /\ \A i \in Items : fate[i] = "ok"

\* RUN_CONTROL_SPEC 3: a run told to cancel comes out cancelled once anything
\* was cut short, never as an error.
CancelWins == [][outcome'.kind = "error" => \A f \in failures : f.how # "cancelled"]_vars

\* runner.ts:1344 as it stands: "On the first failure no NEW iterations start".
NoneStartsAfterFailure == [][failures # {} => begun' \subseteq begun]_vars

\* Unless a person leaves it paused, the step comes to an outcome.
ComesOut == []<>(outcome # NoOutcome \/ ctl = "paused")
=============================================================================
