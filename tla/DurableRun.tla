---------------------------- MODULE DurableRun ----------------------------
(***************************************************************************)
(* One root run across the life of several processes: its event log, the   *)
(* executor that appends to it (runner.ts), the control calls that leave   *)
(* markers in it, crashes, the boot scan (autoResumeStaleRuns) and durable *)
(* resumes that replay its journal (journal.ts, prepareDurableResume).     *)
(***************************************************************************)
EXTENDS Integers, Sequences, FiniteSets

CONSTANTS Steps,      \* the steps of the flow
          Deps,       \* the steps a step consumes the output of
          Below,      \* a step's transitive dependents
          Versions,   \* the stored versions of the workflow; a run starts on 1
          Def,        \* what a step is in a version
          Values,     \* what a step may return: no step is deterministic
          Fallible,   \* steps with an onError fallback
          FromSteps,  \* the steps a resume may be asked to start `from`
          Requests,   \* the control requests people make of a live run
          Early,      \* may a resume be asked for before the boot scan is done?
          Late,       \* may a request act on a run that ended since it was looked up?
          Overlap,    \* may a resume be asked for while another is being prepared?
          Skips,      \* what may keep the boot scan from resuming a run it finds cut off
          MaxResumes, \* the crash-loop guard's cap
          MaxCrashes, MaxAsks, MaxHttp   \* bounds on crashes, requests, resumes by hand

ASSUME FlowAssumption ==
  /\ Deps \in [Steps -> SUBSET Steps]
  /\ Below \in [Steps -> SUBSET Steps]
  /\ 1 \in Versions
  /\ Fallible \subseteq Steps /\ FromSteps \subseteq Steps
  /\ Requests \subseteq {"pause", "resume", "cancel"}
  /\ Early \in BOOLEAN /\ Late \in BOOLEAN /\ Overlap \in BOOLEAN
  /\ Skips \subseteq {"older", "big", "old", "refused"}
  /\ MaxResumes \in Nat /\ MaxCrashes \in Nat /\ MaxAsks \in Nat /\ MaxHttp \in Nat

VARIABLES
  \* on disk
  log,       \* the event log
  torn,      \* its last line is a fragment
  written,   \* the process that wrote it last
  summary,   \* run.json: an outcome, or "none"
  bootRec,   \* boot.json: the last process to finish its scan, 0 for none
  \* the process
  up, epoch,
  ctl,       \* the controller's own state, "none" when the run is not live
  exec,      \* the executor
  pending,   \* markers handed to the store and not yet in the log
  ask,       \* a control request that found the run live, and whether it still is
  scan,      \* the boot scan
  prep,      \* the resumes asked for by hand that are prepared
  \* bounds
  crashes, asks, http,
  \* history
  stopped,   \* a cancel of this attempt is on record and no person has resumed the run since
  left       \* why the boot scan leaves the run be, "none" when it has no such reason

disk == <<log, torn, written, summary, bootRec>>
proc == <<up, epoch>>
bounds == <<crashes, asks, http>>
history == <<stopped, left>>
vars == <<disk, proc, ctl, exec, pending, ask, scan, prep, bounds, history>>

Outcomes == {"success", "error", "cancelled"}
NoOutput == [none |-> TRUE]
NoAsk == [req |-> "none", live |-> FALSE]

-----------------------------------------------------------------------------
(* The log *)

Start(v) == [type |-> "start", ver |-> v]
Resumed(v) == [type |-> "resumed", ver |-> v]
Marker(m) == [type |-> m]
End(o) == [type |-> o]
StepEnd(s, place, out) == [type |-> "step", step |-> s, place |-> place, out |-> out]

IsTerminal(e) == e.type \in Outcomes
IsStart(e) == e.type = "start"
IsOpening(e) == e.type \in {"start", "resumed"}
LastOf(l) == l[Len(l)]
Ended(l) == l # <<>> /\ IsTerminal(LastOf(l))

\* The newest event of the log with a property, 0 when there is none.
Newest(l, P(_)) == LET hits == {i \in 1..Len(l) : P(l[i])}
                   IN  IF hits = {} THEN 0 ELSE CHOOSE i \in hits : \A j \in hits : j <= i

\* executedWorkflowHash: the version the newest opening recorded.
Executed(l) == l[Newest(l, IsOpening)].ver

\* buildJournal: the last output of every path.  A step's fallback has a path
\* of its own.
Places == {"own", "onError"}
Journal(l) ==
  [x \in Steps \X Places |->
     LET i == Newest(l, LAMBDA e : e.type = "step" /\ e.step = x[1] /\ e.place = x[2])
     IN  IF i = 0 THEN NoOutput ELSE l[i].out]

\* Mutant: the steps below a dropped one keep their outputs.
WithoutKeepingDependents(j, dropped) ==
  [x \in Steps \X Places |-> IF x[1] \in dropped THEN NoOutput ELSE j[x]]

\* invalidateSteps and (for a top-level step) invalidateFrom: drop steps, what
\* lies below them and their nested paths.
Without(j, dropped) ==
  LET gone == dropped \cup UNION {Below[s] : s \in dropped}
  IN  [x \in Steps \X Places |-> IF x[1] \in gone THEN NoOutput ELSE j[x]]

\* changedSteps
Changed(v, w) == {s \in Steps : Def[v][s] # Def[w][s]}

\* The durable resumes the crash-loop guard counts; an unpause is not one.
Restarts(l) == Cardinality({i \in 1..Len(l) : l[i].type = "resumed"})

-----------------------------------------------------------------------------
(* The executor *)

NoExec == [pc |-> "idle"]
\* launchDetached registers the run at once, so its executor exists from here.
Exec(by, pc, v, j) ==
  [by |-> by, pc |-> pc, ver |-> v, journal |-> j,
   doing |-> [s \in Steps |-> "wait"], out |-> [s \in Steps |-> NoOutput], outcome |-> "none"]

Live == ctl # "none"
\* A resumed attempt that has not written its run.resumed yet.
Reopening == exec.pc \in {"clear", "open"} /\ exec.by # "caller"

Init ==
  /\ log = <<>> /\ torn = FALSE /\ written = 0 /\ summary = "none" /\ bootRec = 0
  /\ up = TRUE /\ epoch = 1
  /\ ctl = "none" /\ exec = NoExec /\ pending = <<>> /\ ask = NoAsk
  /\ scan = [pc |-> "wait"] /\ prep = {}
  /\ crashes = 0 /\ asks = 0 /\ http = 0
  /\ stopped = FALSE /\ left = "none"

\* store.append, one line after another.  An executor waits for its own line,
\* so it writes when the markers handed over before it are in.
Append1(e) ==
  /\ log' = Append(log, e)
  /\ written' = epoch

Write(e) ==
  /\ pending = <<>>
  /\ Append1(e)
  /\ UNCHANGED <<torn, summary, bootRec, pending>>

\* launchDetached, in the first of the processes modelled: a run id is used once.
Launch ==
  /\ up /\ epoch = 1 /\ ~Live /\ log = <<>>
  /\ ctl' = "running"
  /\ exec' = Exec("caller", "open", 1, [x \in Steps \X Places |-> NoOutput])
  /\ UNCHANGED <<disk, proc, pending, ask, scan, prep, bounds, history>>

\* Mutant: the summary of the attempt before is left in place.
ClearNothing ==
  /\ exec.pc = "clear"
  /\ exec' = [exec EXCEPT !.pc = "open"]
  /\ UNCHANGED <<disk, proc, ctl, pending, ask, scan, prep, bounds, history>>

\* A resume drops the summary of the attempt it resumes first.
Clear ==
  /\ exec.pc = "clear"
  /\ summary' = "none"
  /\ exec' = [exec EXCEPT !.pc = "open"]
  /\ UNCHANGED <<log, torn, written, bootRec, proc, ctl, pending, ask, scan, prep, bounds, history>>

OpenLog ==
  /\ exec.pc = "open"
  /\ Write(IF exec.by = "caller" THEN Start(exec.ver) ELSE Resumed(exec.ver))
  /\ exec' = [exec EXCEPT !.pc = "flow"]
  /\ UNCHANGED <<proc, ctl, ask, scan, prep, bounds, history>>

Rejected(s) == exec.doing[s] \in {"failed", "stopped"}
DepsDone(s) == \A d \in Deps[s] : exec.doing[d] = "done"

\* Mutant: a step at its boundary never looks at a cancel.
StopOnlyRunning(s) ==
  /\ exec.pc = "flow"
  /\ \/ exec.doing[s] = "wait" /\ \E d \in Deps[s] : Rejected(d)
     \/ exec.doing[s] = "primary" /\ ctl = "cancelling"
  /\ exec' = [exec EXCEPT !.doing[s] = "stopped"]
  /\ UNCHANGED <<disk, proc, ctl, pending, ask, scan, prep, bounds, history>>

\* A rejected dependency rejects the step; a cancel rejects it at its boundary
\* or, forced or noticed by the body, in the middle of its work.
Stop(s) ==
  /\ exec.pc = "flow"
  /\ \/ exec.doing[s] = "wait" /\ \E d \in Deps[s] : Rejected(d)
     \/ exec.doing[s] = "wait" /\ DepsDone(s) /\ ctl = "cancelling"
     \/ exec.doing[s] = "primary" /\ ctl = "cancelling"
     \/ exec.doing[s] = "fallback" /\ exec.journal[<<s, "onError">>] = NoOutput /\ ctl = "cancelling"
  /\ exec' = [exec EXCEPT !.doing[s] = "stopped"]
  /\ UNCHANGED <<disk, proc, ctl, pending, ask, scan, prep, bounds, history>>

\* At its boundary a step replays its journaled output, or is begun.
Begin(s) ==
  /\ exec.pc = "flow" /\ exec.doing[s] = "wait" /\ DepsDone(s) /\ ctl = "running"
  /\ exec' =
       IF exec.journal[<<s, "own">>] # NoOutput
       THEN [exec EXCEPT !.doing[s] = "done", !.out[s] = exec.journal[<<s, "own">>]]
       ELSE [exec EXCEPT !.doing[s] = "primary"]
  /\ UNCHANGED <<disk, proc, ctl, pending, ask, scan, prep, bounds, history>>

\* What a step made of the outputs it consumed.
Output(s, v) ==
  [val |-> v, def |-> Def[exec.ver][s], ins |-> [d \in Deps[s] |-> exec.out[d].val]]

\* Mutant: the flow goes on without waiting for the append, which may be lost.
ReturnsUnlogged(s, v) ==
  /\ exec.pc = "flow" /\ exec.doing[s] = "primary"
  /\ Write(StepEnd(s, "own", Output(s, v))) \/ UNCHANGED <<disk, pending>>
  /\ exec' = [exec EXCEPT !.doing[s] = "done", !.out[s] = Output(s, v)]
  /\ UNCHANGED <<proc, ctl, ask, scan, prep, bounds, history>>

\* A body returns: its output is in the log before the flow goes on.
Returns(s, v) ==
  /\ exec.pc = "flow"
  /\ \/ exec.doing[s] = "primary" /\ Write(StepEnd(s, "own", Output(s, v)))
     \/ exec.doing[s] = "fallback" /\ exec.journal[<<s, "onError">>] = NoOutput
        /\ Write(StepEnd(s, "onError", Output(s, v)))
  /\ exec' = [exec EXCEPT !.doing[s] = "done", !.out[s] = Output(s, v)]
  /\ UNCHANGED <<proc, ctl, ask, scan, prep, bounds, history>>

FallbackReplays(s) ==
  /\ exec.pc = "flow" /\ exec.doing[s] = "fallback" /\ exec.journal[<<s, "onError">>] # NoOutput
  /\ exec' = [exec EXCEPT !.doing[s] = "done", !.out[s] = exec.journal[<<s, "onError">>]]
  /\ UNCHANGED <<disk, proc, ctl, pending, ask, scan, prep, bounds, history>>

\* A body throws: the fallback takes over, or the step failed.
Throws(s) ==
  /\ exec.pc = "flow" /\ exec.doing[s] \in {"primary", "fallback"}
  /\ exec.doing[s] = "fallback" => exec.journal[<<s, "onError">>] = NoOutput
  /\ exec' = [exec EXCEPT !.doing[s] =
                IF exec.doing[s] = "primary" /\ s \in Fallible THEN "fallback" ELSE "failed"]
  /\ UNCHANGED <<disk, proc, ctl, pending, ask, scan, prep, bounds, history>>

\* Every branch settled: a real failure is preferred to a cancellation.
FlowEnds ==
  /\ exec.pc = "flow"
  /\ \A s \in Steps : exec.doing[s] \in {"done", "failed", "stopped"}
  /\ exec' = [exec EXCEPT !.pc = "end",
                !.outcome = IF \E s \in Steps : exec.doing[s] = "failed" THEN "error"
                            ELSE IF \E s \in Steps : exec.doing[s] = "stopped" THEN "cancelled"
                            ELSE "success"]
  /\ UNCHANGED <<disk, proc, ctl, pending, ask, scan, prep, bounds, history>>

AppendEnd ==
  /\ exec.pc = "end"
  /\ Write(End(exec.outcome))
  /\ exec' = [exec EXCEPT !.pc = "finalize"]
  /\ UNCHANGED <<proc, ctl, ask, scan, prep, bounds, history>>

Finalize ==
  /\ exec.pc = "finalize"
  /\ summary' = exec.outcome
  /\ exec' = [exec EXCEPT !.pc = "teardown"]
  /\ UNCHANGED <<log, torn, written, bootRec, proc, ctl, pending, ask, scan, prep, bounds, history>>

\* Mutant: the controller of an ended run stays registered.
UntrackNothing ==
  /\ exec.pc = "teardown"
  /\ exec' = NoExec
  /\ UNCHANGED <<disk, proc, ctl, pending, ask, scan, prep, bounds, history>>

Untrack ==
  /\ exec.pc = "teardown"
  /\ exec' = NoExec /\ ctl' = "none"
  /\ ask' = [ask EXCEPT !.live = FALSE]
  /\ UNCHANGED <<disk, proc, pending, scan, prep, bounds, history>>

-----------------------------------------------------------------------------
(* Control of a live run *)

\* findRun: a run whose log has ended is waited for until its controller is gone.
Find(q) ==
  /\ up /\ Live /\ ~Ended(log)
  /\ ask = NoAsk /\ asks < MaxAsks
  /\ ask' = [req |-> q, live |-> TRUE]
  /\ asks' = asks + 1
  /\ UNCHANGED <<disk, proc, ctl, exec, pending, scan, prep, crashes, http, history>>

Mark(q) ==
  CASE q = "pause"  -> "paused"
    [] q = "resume" -> "live"
    [] q = "cancel" -> "cancelling"

\* RunController.cancel, pause, resume
Asked(state, q) ==
  CASE q = "cancel"                            -> "cancelling"
    [] q = "pause" /\ state = "running"        -> "pausing"
    [] q = "resume" /\ state # "cancelling"    -> "running"
    [] OTHER                                   -> state

InTime == ask.live /\ exec.pc \in {"clear", "open", "flow"}

\* controlLiveRun: change the controller, then hand its marker to the store.
Act ==
  /\ ask # NoAsk /\ (Late \/ InTime)
  /\ ctl' = IF ask.live THEN Asked(ctl, ask.req) ELSE ctl
  /\ pending' = Append(pending, Marker(Mark(ask.req)))
  /\ ask' = NoAsk
  /\ UNCHANGED <<disk, proc, exec, scan, prep, bounds, history>>

\* The run ended before the request could act on it.
Miss ==
  /\ ask # NoAsk /\ ~Late /\ ~InTime
  /\ ask' = NoAsk
  /\ UNCHANGED <<disk, proc, ctl, exec, pending, scan, prep, bounds, history>>

\* A cancel that lands before the attempt's run.resumed is not the last word on it.
MarkerLands ==
  /\ pending # <<>>
  /\ Append1(Head(pending))
  /\ pending' = Tail(pending)
  /\ stopped' = CASE Head(pending).type = "cancelling" -> stopped \/ ~Reopening
                   [] Head(pending).type = "live"       -> FALSE
                   [] OTHER                             -> stopped
  /\ UNCHANGED <<torn, summary, bootRec, proc, ctl, exec, ask, scan, prep, bounds, left>>

-----------------------------------------------------------------------------
(* Resuming by hand a run that is not live *)

Prepared(v, j) == [n |-> http, ver |-> v, journal |-> j]

\* resumeRun up to its re-check: refuse a success without `from`, heal the
\* log, pick the version and what of the journal still holds.  Several may be
\* under way: each waits for files between the check and the launch.
Prepare(v, from) ==
  /\ up /\ ~Live /\ (Overlap \/ prep = {}) /\ http < MaxHttp
  /\ Early \/ scan.pc = "done"
  /\ Newest(log, IsStart) # 0
  /\ summary = "success" => from # {}
  /\ torn' = FALSE
  /\ prep' = prep \cup {Prepared(v, Without(Journal(log), Changed(Executed(log), v) \cup from))}
  /\ http' = http + 1
  /\ UNCHANGED <<log, written, summary, bootRec, proc, ctl, exec, pending, ask, scan, crashes, asks, history>>

\* resumeRun from its re-check: a prepared resume is refused while the run is
\* live, and launched with the journal it was prepared with otherwise.
ByHand(p) ==
  /\ p \in prep
  /\ IF Live THEN UNCHANGED <<ctl, exec, history>>
     ELSE /\ ctl' = "running" /\ exec' = Exec("hand", "clear", p.ver, p.journal)
          /\ stopped' = FALSE /\ left' = "none"
  /\ prep' = prep \ {p}
  /\ UNCHANGED <<disk, proc, pending, ask, scan, bounds>>

-----------------------------------------------------------------------------
(* Crashes, boots, and the boot scan *)

\* A kill loses the process's memory, and may leave a fragment of the line
\* being written.  An attempt killed before it wrote a line leaves a log older
\* than the boot on record.
Crash ==
  /\ up /\ crashes < MaxCrashes
  /\ up' = FALSE
  /\ torn' \in IF pending # <<>> \/ exec.pc \in {"open", "flow", "end"} THEN {torn, TRUE} ELSE {torn}
  /\ ctl' = "none" /\ exec' = NoExec /\ pending' = <<>> /\ ask' = NoAsk
  /\ scan' = [pc |-> "off"] /\ prep' = {}
  /\ crashes' = crashes + 1
  /\ left' = IF Reopening /\ written < bootRec THEN "unwritten" ELSE left
  /\ UNCHANGED <<log, written, summary, bootRec, epoch, asks, http, stopped>>

Boot ==
  /\ ~up
  /\ up' = TRUE /\ epoch' = epoch + 1
  /\ scan' = [pc |-> "wait"]
  /\ UNCHANGED <<disk, ctl, exec, pending, ask, prep, bounds, history>>

\* Mutant: a requested cancel is no marker the boot scan looks for.
IsControlButCancel(e) == e.type \in {"paused", "live", "resumed"}

IsControl(e) == e.type \in {"paused", "live", "resumed", "cancelling"}
LastControl(l) == LET i == Newest(l, IsControl) IN IF i = 0 THEN "none" ELSE l[i].type

\* Mutant: a run written to by the very process on record counts as older.
PassedOverOffByOne ==
  \/ Live
  \/ written <= bootRec
  \/ summary # "none"
  \/ Newest(log, IsStart) = 0

\* consider(), up to where it looks at the log.
PassedOver ==
  \/ Live
  \/ written < bootRec
  \/ summary # "none"
  \/ Newest(log, IsStart) = 0

\* The log alone lets the run be resumed.
Resumable ==
  ~Ended(log) /\ LastControl(log) \notin {"cancelling", "paused"} /\ Restarts(log) < MaxResumes

\* Mutant: a run cut off starts over.
DecisionAfresh ==
  CASE Ended(log) -> [pc |-> "finalize", outcome |-> LastOf(log).type]
    [] ~Ended(log) -> [pc |-> "launch", ver |-> Executed(log), journal |-> Without(Journal(log), Steps)]

\* What consider() decides from the log it read: a run that is parked or at
\* the crash-loop guard's cap is left.
Decision ==
  CASE Ended(log) -> [pc |-> "finalize", outcome |-> LastOf(log).type]
    [] ~Ended(log) /\ LastControl(log) = "cancelling" -> [pc |-> "cancelled"]
    [] Resumable -> [pc |-> "launch", ver |-> Executed(log), journal |-> Journal(log)]
    [] OTHER -> [pc |-> "record"]

\* What the scan is told of the run beside its log: the log is too big to be
\* read, its last event is past the age cap, prepareDurableResume refuses it.
SkippedFor(why) ==
  /\ why \in Skips
  /\ why = "big" \/ (why \in {"old", "refused"} /\ Resumable)

\* With no boot on record the scan stops at the newest root run of a workflow.
NeverReached == bootRec = 0 /\ "older" \in Skips

\* Mutant: the log is read without healing it first.
ScanReadsUnhealed ==
  /\ scan.pc = "wait"
  /\ scan' = IF PassedOver THEN [pc |-> "record"] ELSE Decision
  /\ UNCHANGED <<disk, proc, ctl, exec, pending, ask, prep, bounds, history>>

\* What consider() makes of the run: it looks past it, never gets to it, or
\* heals and reads its log and decides.
ScanReads ==
  /\ scan.pc = "wait"
  /\ \/ /\ PassedOver
        /\ scan' = [pc |-> "record"]
        /\ UNCHANGED <<torn, left>>
     \/ /\ ~PassedOver /\ NeverReached
        /\ scan' = [pc |-> "record"] /\ left' = "older"
        /\ UNCHANGED torn
     \/ /\ ~PassedOver /\ torn' = FALSE
        /\ \/ scan' = Decision /\ left' = "none"
           \/ \E why \in Skips : SkippedFor(why) /\ scan' = [pc |-> "record"] /\ left' = why
  /\ UNCHANGED <<log, written, summary, bootRec, proc, ctl, exec, pending, ask, prep, bounds, stopped>>

\* finalizeDeadRun: the end the boundary would have written, then the summary.
ScanCancels ==
  /\ scan.pc = "cancelled"
  /\ Append1(End("cancelled"))
  /\ scan' = [pc |-> "finalize", outcome |-> "cancelled"]
  /\ UNCHANGED <<torn, summary, bootRec, proc, ctl, exec, pending, ask, prep, bounds, history>>

\* Mutant: whatever it came to, a dead run is told as an error.
ScanFinalizesAsError ==
  /\ scan.pc = "finalize"
  /\ summary' = "error"
  /\ scan' = [pc |-> "record"]
  /\ UNCHANGED <<log, torn, written, bootRec, proc, ctl, exec, pending, ask, prep, bounds, history>>

ScanFinalizes ==
  /\ scan.pc = "finalize"
  /\ summary' = scan.outcome
  /\ scan' = [pc |-> "record"]
  /\ UNCHANGED <<log, torn, written, bootRec, proc, ctl, exec, pending, ask, prep, bounds, history>>

ScanLaunches ==
  /\ scan.pc = "launch"
  /\ IF Live THEN UNCHANGED <<ctl, exec>>
     ELSE ctl' = "running" /\ exec' = Exec("boot", "clear", scan.ver, scan.journal)
  /\ scan' = [pc |-> "record"]
  /\ UNCHANGED <<disk, proc, pending, ask, prep, bounds, history>>

\* bootResumeRuns: this process's start is on record once its scan is done.
ScanRecords ==
  /\ scan.pc = "record"
  /\ bootRec' = epoch
  /\ scan' = [pc |-> "done"]
  /\ UNCHANGED <<log, torn, written, summary, proc, ctl, exec, pending, ask, prep, bounds, history>>

-----------------------------------------------------------------------------
Executor ==
  \/ Clear \/ OpenLog \/ FlowEnds \/ AppendEnd \/ Finalize \/ Untrack
  \/ \E s \in Steps : Stop(s) \/ Begin(s) \/ FallbackReplays(s)

Bodies == \E s \in Steps : Throws(s) \/ \E v \in Values : Returns(s, v)

Scan == ScanReads \/ ScanCancels \/ ScanFinalizes \/ ScanLaunches \/ ScanRecords

Next ==
  \/ Launch \/ Executor \/ Bodies
  \/ \E q \in Requests : Find(q)
  \/ Act \/ Miss \/ MarkerLands
  \/ \E v \in Versions, from \in {{}} \cup {{s} : s \in FromSteps} : Prepare(v, from)
  \/ \E p \in prep : ByHand(p)
  \/ Crash \/ Boot \/ Scan

Spec == Init /\ [][Next]_vars

\* The event loop runs what is queued, appends settle, bodies come back, a
\* request that was let in is answered, and somebody starts the server again.
FairSpec ==
  /\ Spec
  /\ WF_vars(Executor) /\ WF_vars(Bodies) /\ WF_vars(Scan) /\ WF_vars(Boot)
  /\ WF_vars(Act \/ Miss) /\ WF_vars(MarkerLands) /\ WF_vars(\E p \in prep : ByHand(p))

-----------------------------------------------------------------------------
(* Properties *)

IsOutput(o) == o = NoOutput \/ (o.val \in Values /\ DOMAIN o.ins \subseteq Steps)

TypeOK ==
  /\ \A i \in 1..Len(log) : log[i].type \in
       Outcomes \cup {"start", "resumed", "step", "paused", "live", "cancelling"}
  /\ torn \in BOOLEAN /\ up \in BOOLEAN
  /\ written \in 0..epoch /\ bootRec \in 0..epoch
  /\ summary \in Outcomes \cup {"none"}
  /\ ctl \in {"none", "running", "pausing", "cancelling"}
  /\ exec.pc \in {"idle", "clear", "open", "flow", "end", "finalize", "teardown"}
  /\ exec.pc = "idle" <=> ~Live
  /\ exec # NoExec => \A s \in Steps : IsOutput(exec.out[s])
  /\ scan.pc \in {"off", "wait", "cancelled", "finalize", "launch", "record", "done"}

\* What replays fits what runs: whatever was crashed, resumed and replayed,
\* the outputs in scope come from the version that is running and were made
\* from the very outputs of their dependencies that are in scope.
ReplayConsistent ==
  exec # NoExec =>
    \A s \in Steps : exec.out[s] # NoOutput =>
      /\ exec.out[s].def = Def[exec.ver][s]
      /\ \A d \in Deps[s] : exec.out[d] # NoOutput /\ exec.out[s].ins[d] = exec.out[d].val

\* An append never lands on the fragment a kill left: that would make the
\* whole log unreadable.
NeverGlued == [][Len(log') > Len(log) => ~torn]_vars

\* Once a cancel of an attempt is on record behind its opening, no boot starts
\* the run again, however often the server dies; only a person does.
CancelSticks == [][(exec = NoExec /\ exec' # NoExec /\ exec'.by = "boot") => ~stopped]_vars

\* A run that runs reads as live, never as the outcome it is resumed from.
RunningReadsLive == exec.pc \in {"open", "flow", "end", "finalize"} => summary = "none"

\* A run is over, or a person or the crash-loop guard holds it, or it was left
\* for a reason: too big, too old, refused, not the newest at the first boot, or
\* killed before it wrote a line behind the boot on record.
Accounted ==
  summary # "none" \/ LastControl(log) = "paused" \/ Restarts(log) >= MaxResumes \/ left # "none"

\* After its scan, a process leaves no run cut off without a reason, whichever
\* of the deaths before it cut it off and whatever the boots before it did.
NotForgotten ==
  (up /\ scan.pc = "done" /\ ~Live /\ prep = {} /\ Newest(log, IsStart) # 0) => Accounted

\* A step whose output the log holds is not run again by a plain resume.
NoRework ==
  [][\A s \in Steps :
       (exec # NoExec /\ exec' # NoExec /\ exec.pc = "flow" /\ exec.doing[s] = "wait" /\ exec'.doing[s] = "primary")
         => Journal(log)[<<s, "own">>] = NoOutput]_vars

\* What a log says of its run: where its newest opening or end leaves it.
IsBound(e) == IsOpening(e) \/ IsTerminal(e)
LifeOf(l) ==
  LET i == Newest(l, IsBound)
  IN  IF i = 0 THEN "absent" ELSE IF IsTerminal(l[i]) THEN l[i].type ELSE "open"

\* DurableRun implements RunLife.
Life == INSTANCE RunLife WITH life <- LifeOf(log), told <- summary

ImplementsLife == Life!LSpec

\* Every run that starts comes to an outcome that is told, or to a reason it
\* is left for, however often the server dies; unless a person pauses it.
Settles == (Newest(log, IsStart) # 0) ~> ((up /\ ~Live /\ Accounted) \/ ctl = "pausing")
=============================================================================
