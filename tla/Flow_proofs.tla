---------------------------- MODULE Flow_proofs ----------------------------
(***************************************************************************)
(* What holds of one level of a workflow for every number of steps, every  *)
(* acyclic graph, every choice of gates, retries and fallbacks, and any    *)
(* number of restarts and control calls.                                   *)
(***************************************************************************)
EXTENDS Flow, TLAPS, WellFoundedInduction, SequenceTheorems

Working == {"gate", "body", "retry", "onError"}

\* A step is done when its promise settled, and what its execution came to is
\* how the promise settled.
DoneInv ==
  \A s \in Steps :
    /\ at[s] = "done" <=> got[s] # Pending
    /\ did[s] = "fail" => got[s] = Failure(s)
    /\ did[s] \notin {"fail", "none"} => got[s] = Output(did[s])

\* Why a step is where it is, by how its dependencies settled.
LocalInv ==
  \A s \in Steps :
    /\ at[s] \in Working => DepsMet(s) /\ ~ Skipped(s)
    /\ got[s] = Skip => DepsMet(s) /\ Skipped(s)
    /\ got[s].kind = "output" => DepsMet(s) /\ ~ Skipped(s) /\ did[s] = got[s].v
    /\ got[s].kind = "error" =>
         \/ did[s] = "fail" /\ DepsMet(s) /\ ~ Skipped(s)
         \/ \E d \in deps[s] : got[d] = got[s]
    /\ got[s].kind = "cancelled" => ctl = "cancelling"

\* `rejected` lists the steps whose promises rejected, and no other.
RejectedInv ==
  \A s \in Steps : got[s].kind \in Rejections <=> \E i \in 1..Len(rejected) : rejected[i] = s

\* The flow reports when every step has settled.
JoinInv == outcome # NoOutcome => \A s \in Steps : at[s] = "done"

IInv == TypeOK /\ DoneInv /\ LocalInv /\ RejectedInv /\ JoinInv /\ ReportsTheCause

-----------------------------------------------------------------------------
(* One step of a workflow's step: it goes on working, or it settles.       *)

Walks(s) ==
  /\ at[s] # "done" /\ UNCHANGED <<got, did, rejected>>
  /\ at[s] = "deps" => DepsMet(s) /\ ~ Skipped(s)
  /\ \E w \in Working : at' = [at EXCEPT ![s] = w]

SettlesAs(s, g) ==
  /\ at[s] # "done"
  /\ at' = [at EXCEPT ![s] = "done"]
  /\ got' = [got EXCEPT ![s] = g]

Skips(s) ==
  /\ SettlesAs(s, Skip) /\ DepsMet(s) /\ Skipped(s) /\ UNCHANGED <<did, rejected>>

ComesTo(s, v) ==
  /\ at[s] \in Working /\ v \in Outputs /\ SettlesAs(s, Output(v))
  /\ did' = [did EXCEPT ![s] = v] /\ UNCHANGED rejected

Fails(s) ==
  /\ at[s] \in Working /\ SettlesAs(s, Failure(s))
  /\ did' = [did EXCEPT ![s] = "fail"] /\ rejected' = Append(rejected, s)

Stops(s) ==
  /\ at[s] \in Working /\ SettlesAs(s, Cancelled) /\ ctl = "cancelling"
  /\ UNCHANGED did /\ rejected' = Append(rejected, s)

HandsOn(s, d) ==
  /\ d \in deps[s] /\ got[d].kind \in Rejections /\ SettlesAs(s, got[d])
  /\ UNCHANGED did /\ rejected' = Append(rejected, s)

Moves(s) ==
  \/ Walks(s) \/ Skips(s) \/ Fails(s) \/ Stops(s)
  \/ \E v \in Outputs : ComesTo(s, v)
  \/ \E d \in Steps : HandsOn(s, d)

LEMMA StepMoves ==
  ASSUME TypeOK, RejectedInv, NEW s \in Steps, StepAction(s)
  PROVE  Moves(s) /\ UNCHANGED <<static, ctl, outcome, bounds>>
<1> USE DEF Moves, SettlesAs, Working, static, bounds
<1>1. CASE SkipStep(s)
  BY <1>1 DEF SkipStep, Skips
<1>2. CASE Reach(s)
  BY <1>2 DEF Reach, Walks
<1>3. CASE RejectedDep(s)
  <2>1. PICK i \in 1..Len(rejected) :
          rejected[i] \in deps[s] /\ got' = [got EXCEPT ![s] = got[rejected[i]]]
    BY <1>3 DEF RejectedDep
  <2>2. rejected[i] \in Steps
    BY <2>1 DEF TypeOK
  <2>3. got[rejected[i]].kind \in Rejections
    BY <2>2 DEF RejectedInv
  <2>4. HandsOn(s, rejected[i])
    BY <1>3, <2>1, <2>3 DEF RejectedDep, HandsOn
  <2> QED BY <1>3, <2>2, <2>4 DEF RejectedDep
<1>4. CASE Replay(s)
  <2>1. ComesTo(s, journal[s]) /\ journal[s] \in Outputs
    BY <1>4 DEF Replay, Settle, ComesTo, TypeOK
  <2> QED BY <1>4, <2>1 DEF Replay, Settle
<1>5. CASE Start(s) \/ ThrowAndRetry(s) \/ ThrowAndRescue(s)
  BY <1>5 DEF Start, ThrowAndRetry, ThrowAndRescue, Walks
<1>6. CASE Return(s)
  BY <1>6 DEF Return, Settle, ComesTo
<1>7. CASE RescueReplays(s)
  <2>1. ComesTo(s, rescues[s]) /\ rescues[s] \in Outputs
    BY <1>7 DEF RescueReplays, Settle, ComesTo, TypeOK
  <2> QED BY <1>7, <2>1 DEF RescueReplays, Settle
<1>8. CASE Rescue(s)
  BY <1>8 DEF Rescue, Settle, ComesTo
<1>9. CASE Throw(s) \/ RescueFails(s)
  BY <1>9 DEF Throw, RescueFails, Reject, Fails
<1>10. CASE Cancel(s)
  BY <1>10 DEF Cancel, Reject, Stops
<1> QED BY <1>1, <1>2, <1>3, <1>4, <1>5, <1>6, <1>7, <1>8, <1>9, <1>10 DEF StepAction

-----------------------------------------------------------------------------
(* The type invariant                                                      *)

\* Report hands on failures, or says that there were none.
LEMMA ReportType ==
  ASSUME TypeOK, NEW o \in Report
  PROVE  \/ rejected = <<>> /\ o = [kind |-> "ok"]
         \/ rejected # <<>> /\ o = Cancelled /\ \A s \in Steps : got[s].kind # "error"
         \/ \E t \in Steps : /\ o = got[t] /\ got[t].kind = "error"
                             /\ \A u \in Steps : got[u].kind = "error" => t <= u
BY DEF Report

LEMMA TypeInit == Init => TypeOK
BY FlowAssumption DEF Init, TypeOK, Each, Pending, NoOutcome

LEMMA RejectType ==
  ASSUME NEW S, NEW r \in Seq(S), NEW s \in S PROVE Append(r, s) \in Seq(S)
OBVIOUS

LEMMA StepType ==
  ASSUME TypeOK, NEW s \in Steps, StepAction(s)
  PROVE  TypeOK'
<1> USE FlowAssumption DEF TypeOK, static, bounds, log
<1> DEFINE Promised == {Pending, Skip, Cancelled} \cup {Output(v) : v \in Outputs}
                         \cup {Failure(t) : t \in Steps}
<1>1. CASE SkipStep(s)
  BY <1>1 DEF SkipStep
<1>2. CASE Reach(s)
  BY <1>2 DEF Reach
<1>3. CASE RejectedDep(s)
  <2>1. PICK i \in 1..Len(rejected) : got' = [got EXCEPT ![s] = got[rejected[i]]]
    BY <1>3 DEF RejectedDep
  <2>2. rejected[i] \in Steps
    OBVIOUS
  <2>3. got[rejected[i]] \in Promised
    BY <2>2
  <2>4. got' \in [Steps -> Promised] /\ rejected' \in Seq(Steps)
    BY <1>3, <2>1, <2>3, RejectType DEF RejectedDep
  <2>5. at' \in [Steps -> {"deps", "gate", "body", "retry", "onError", "done"}]
        /\ UNCHANGED <<deps, shape, tries, did, journal, rescues, ctl, outcome>>
    BY <1>3 DEF RejectedDep
  <2> QED BY <2>4, <2>5
<1>4. CASE Replay(s)
  BY <1>4 DEF Replay, Settle
<1>5. CASE Start(s)
  BY <1>5 DEF Start
<1>6. CASE Return(s)
  BY <1>6 DEF Return, Settle
<1>7. CASE ThrowAndRetry(s)
  <2>1. shape[s].retries \in Nat
    OBVIOUS
  <2> QED BY <1>7, <2>1 DEF ThrowAndRetry
<1>8. CASE ThrowAndRescue(s)
  BY <1>8 DEF ThrowAndRescue
<1>9. CASE Throw(s)
  <2>1. rejected' \in Seq(Steps)
    BY <1>9, RejectType DEF Throw, Reject
  <2> QED BY <1>9, <2>1 DEF Throw, Reject
<1>10. CASE RescueReplays(s)
  BY <1>10 DEF RescueReplays, Settle
<1>11. CASE Rescue(s)
  BY <1>11 DEF Rescue, Settle
<1>12. CASE RescueFails(s)
  <2>1. rejected' \in Seq(Steps)
    BY <1>12, RejectType DEF RescueFails, Reject
  <2> QED BY <1>12, <2>1 DEF RescueFails, Reject
<1>13. CASE Cancel(s)
  <2>1. rejected' \in Seq(Steps)
    BY <1>13, RejectType DEF Cancel, Reject
  <2> QED BY <1>13, <2>1 DEF Cancel, Reject
<1> QED BY <1>1, <1>2, <1>3, <1>4, <1>5, <1>6, <1>7, <1>8, <1>9, <1>10, <1>11, <1>12, <1>13
        DEF StepAction

LEMMA TypeNext == ASSUME TypeOK, [Next]_vars PROVE TypeOK'
<1>1. CASE \E s \in Steps : StepAction(s)
  BY <1>1, StepType
<1>2. CASE Join
  <2>1. outcome'.kind \in {"ok", "cancelled", "error"}
    BY <1>2, ReportType DEF Join, Cancelled
  <2> QED BY <1>2, <2>1 DEF Join, TypeOK, static, log, bounds
<1>3. CASE Control
  <2>1. ctl' \in {"running", "paused", "cancelling"}
    BY <1>3 DEF Control, TypeOK
  <2> QED BY <1>3, <2>1 DEF Control, TypeOK, static, log
<1>4. CASE Restart
  BY <1>4, FlowAssumption DEF Restart, TypeOK, static, log, Each, Pending, NoOutcome
<1>5. CASE UNCHANGED vars
  BY <1>5 DEF vars, TypeOK, static, log, bounds
<1> QED BY <1>1, <1>2, <1>3, <1>4, <1>5 DEF Next

\* Whatever steps settle, retry, are rescued, cancelled or restarted, each
\* promise, journal entry and counter of attempts has a value it may have.
THEOREM FlowTypeCorrect == Spec => []TypeOK
<1>1. Init => TypeOK
  BY TypeInit
<1>2. TypeOK /\ [Next]_vars => TypeOK'
  BY TypeNext
<1> QED BY <1>1, <1>2, PTL DEF Spec

-----------------------------------------------------------------------------
(* Where each step is, and why                                             *)

\* A promise settles once: until a restart no step's result changes.
LEMMA SettledStays ==
  ASSUME TypeOK, DoneInv, NEW s \in Steps, Moves(s), NEW t \in Steps, got[t] # Pending
  PROVE  got'[t] = got[t] /\ t # s
BY DEF Moves, Walks, SettlesAs, Skips, ComesTo, Fails, Stops, HandsOn, DoneInv, TypeOK, Working

\* So a gate, once its dependencies have settled, stays as it is decided.
LEMMA GateStays ==
  ASSUME TypeOK, DoneInv, UNCHANGED static, NEW s \in Steps, Moves(s), NEW t \in Steps, DepsMet(t)
  PROVE  DepsMet(t)' /\ (Skipped(t)' <=> Skipped(t))
<1>1. deps[t] \subseteq Steps
  BY FlowAssumption DEF TypeOK
<1>2. \A d \in deps[t] : got[d].kind \in {"output", "skip"}
  BY DEF DepsMet
<1>3. \A d \in deps[t] : got'[d] = got[d]
  BY <1>1, <1>2, SettledStays DEF Pending
<1> QED BY <1>2, <1>3 DEF DepsMet, Skipped, static

LEMMA MovesDone ==
  ASSUME TypeOK, DoneInv, NEW s \in Steps, Moves(s)
  PROVE  DoneInv'
<1> USE DEF DoneInv, TypeOK, SettlesAs, Working, Pending, Skip, Cancelled, Output, Failure
<1>1. CASE Walks(s)
  BY <1>1 DEF Walks
<1>2. CASE Skips(s)
  BY <1>2 DEF Skips
<1>3. CASE Fails(s)
  BY <1>3, FlowAssumption DEF Fails
<1>4. CASE Stops(s)
  BY <1>4 DEF Stops
<1>5. ASSUME NEW v \in Outputs, ComesTo(s, v) PROVE DoneInv'
  BY <1>5, FlowAssumption DEF ComesTo
<1>6. ASSUME NEW d \in Steps, HandsOn(s, d) PROVE DoneInv'
  <2>1. got[d] # Pending
    BY <1>6 DEF HandsOn, Rejections
  <2> QED BY <1>6, <2>1 DEF HandsOn
<1> QED BY <1>1, <1>2, <1>3, <1>4, <1>5, <1>6 DEF Moves

LEMMA MovesLocal ==
  ASSUME TypeOK, DoneInv, LocalInv, NEW s \in Steps, Moves(s), UNCHANGED <<static, ctl>>
  PROVE  LocalInv'
<1> SUFFICES ASSUME NEW t \in Steps
             PROVE  /\ at'[t] \in Working => DepsMet(t)' /\ ~ Skipped(t)'
                    /\ got'[t] = Skip => DepsMet(t)' /\ Skipped(t)'
                    /\ got'[t].kind = "output" => DepsMet(t)' /\ ~ Skipped(t)' /\ did'[t] = got'[t].v
                    /\ got'[t].kind = "error" =>
                         \/ did'[t] = "fail" /\ DepsMet(t)' /\ ~ Skipped(t)'
                         \/ \E d \in deps'[t] : got'[d] = got'[t]
                    /\ got'[t].kind = "cancelled" => ctl' = "cancelling"
  BY DEF LocalInv
<1>1. deps' = deps /\ ctl' = ctl /\ \A d \in deps[t] : d \in Steps
  BY FlowAssumption DEF TypeOK, static
<1>2. DepsMet(t) => DepsMet(t)' /\ (Skipped(t)' <=> Skipped(t))
  BY GateStays
<1>3. CASE t # s
  <2>1. at'[t] = at[t] /\ got'[t] = got[t] /\ did'[t] = did[t]
    BY <1>3 DEF Moves, Walks, SettlesAs, Skips, ComesTo, Fails, Stops, HandsOn, TypeOK
  <2>2. ASSUME NEW d \in deps[t], got[d] = got[t], got[t].kind = "error" PROVE got'[d] = got'[t]
    BY <1>1, <2>1, <2>2, SettledStays DEF Pending
  <2> QED BY <1>1, <1>2, <2>1, <2>2 DEF LocalInv
<1>4. CASE t = s
  <2> USE <1>4
  <2>1. CASE Walks(s)
    <3>1. DepsMet(s) /\ ~ Skipped(s) /\ got'[s] = Pending
      BY <2>1 DEF Walks, LocalInv, TypeOK, Working, DoneInv
    <3> QED BY <1>2, <3>1 DEF Pending, Skip
  <2>2. CASE Skips(s)
    <3>1. at'[s] = "done" /\ got'[s] = Skip
      BY <2>2 DEF Skips, SettlesAs, TypeOK
    <3> QED BY <1>2, <2>2, <3>1 DEF Skips, Skip, Working
  <2>3. CASE Fails(s)
    <3>1. at'[s] = "done" /\ got'[s] = Failure(s) /\ did'[s] = "fail" /\ DepsMet(s) /\ ~ Skipped(s)
      BY <2>3 DEF Fails, SettlesAs, TypeOK, LocalInv
    <3> QED BY <1>2, <3>1 DEF Failure, Skip, Working
  <2>4. CASE Stops(s)
    <3>1. at'[s] = "done" /\ got'[s] = Cancelled /\ ctl = "cancelling"
      BY <2>4 DEF Stops, SettlesAs, TypeOK
    <3> QED BY <1>1, <3>1 DEF Cancelled, Skip, Working
  <2>5. ASSUME NEW v \in Outputs, ComesTo(s, v)
        PROVE  /\ at'[s] = "done" /\ got'[s] = Output(v) /\ did'[s] = v
               /\ DepsMet(s) /\ ~ Skipped(s)
    BY <2>5 DEF ComesTo, SettlesAs, TypeOK, LocalInv
  <2>6. ASSUME NEW v \in Outputs, ComesTo(s, v)
        PROVE  /\ at'[s] \notin Working /\ DepsMet(s)' /\ ~ Skipped(s)'
               /\ got'[s] # Skip /\ got'[s].kind = "output" /\ did'[s] = got'[s].v
    <3>1. at'[s] = "done" /\ got'[s] = Output(v) /\ did'[s] = v /\ DepsMet(s) /\ ~ Skipped(s)
      BY <2>5, <2>6
    <3>2. Output(v) # Skip /\ Output(v).kind = "output" /\ Output(v).v = v
      BY DEF Output, Skip
    <3>3. DepsMet(s)' /\ ~ Skipped(s)'
      BY <1>2, <3>1
    <3> QED BY <3>1, <3>2, <3>3 DEF Working
  <2>7. ASSUME NEW d \in Steps, HandsOn(s, d)
        PROVE  /\ at'[s] = "done" /\ got'[s] = got[d] /\ got[d].kind \in Rejections
               /\ d \in deps[s] /\ got'[d] = got[d]
    <3>1. got[d].kind \in Rejections /\ d \in deps[s]
      BY <2>7 DEF HandsOn
    <3>2. got[d] # Pending
      BY <3>1 DEF Pending, Rejections
    <3>3. at'[s] = "done" /\ got'[s] = got[d]
      BY <2>7 DEF HandsOn, SettlesAs, TypeOK
    <3> QED BY <3>1, <3>2, <3>3, SettledStays
  <2>8. ASSUME NEW d \in Steps, HandsOn(s, d)
        PROVE  /\ at'[s] \notin Working /\ got'[s] # Skip /\ got'[s].kind # "output"
               /\ \E e \in deps'[s] : got'[e] = got'[s]
               /\ got'[s].kind = "cancelled" => ctl' = "cancelling"
    BY <1>1, <2>7, <2>8 DEF LocalInv, Rejections, Skip, Working
  <2>9. CASE \E v \in Outputs : ComesTo(s, v)
    BY <2>6, <2>9
  <2>10. CASE \E d \in Steps : HandsOn(s, d)
    BY <2>8, <2>10
  <2> QED BY <2>1, <2>2, <2>3, <2>4, <2>9, <2>10 DEF Moves
<1> QED BY <1>3, <1>4

LEMMA MovesRejected ==
  ASSUME TypeOK, DoneInv, RejectedInv, NEW s \in Steps, Moves(s)
  PROVE  RejectedInv'
<1>1. CASE /\ UNCHANGED rejected
           /\ \A t \in Steps :
                got'[t] # got[t] => {got[t].kind, got'[t].kind} \cap Rejections = {}
  BY <1>1 DEF RejectedInv
<1>2. CASE /\ rejected' = Append(rejected, s) /\ got'[s].kind \in Rejections
           /\ \A t \in Steps \ {s} : got'[t] = got[t]
  <2>1. rejected \in Seq(Steps)
    BY DEF TypeOK
  <2>2. /\ Len(rejected') = Len(rejected) + 1 /\ rejected'[Len(rejected) + 1] = s
        /\ Len(rejected) \in Nat /\ \A i \in 1..Len(rejected) : rejected'[i] = rejected[i]
    BY <1>2, <2>1
  <2>3. (\E i \in 1..Len(rejected') : rejected'[i] = s)
    BY <2>2
  <2>4. ASSUME NEW t \in Steps \ {s}
        PROVE  (\E i \in 1..Len(rejected') : rejected'[i] = t)
                 <=> \E i \in 1..Len(rejected) : rejected[i] = t
    BY <2>2, <2>4
  <2> QED BY <1>2, <2>3, <2>4 DEF RejectedInv
<1>3. got[s].kind \notin Rejections \/ UNCHANGED got
  BY DEF Moves, Walks, SettlesAs, Skips, ComesTo, Fails, Stops, HandsOn, DoneInv, Pending, Rejections
<1>4. UNCHANGED got \/ \A t \in Steps \ {s} : got'[t] = got[t]
  BY DEF Moves, Walks, SettlesAs, Skips, ComesTo, Fails, Stops, HandsOn, TypeOK
<1>5. CASE Walks(s)
  BY <1>1, <1>5 DEF Walks
<1>6. CASE Skips(s)
  <2>1. got'[s] = Skip /\ UNCHANGED rejected
    BY <1>6 DEF Skips, SettlesAs, TypeOK
  <2> QED BY <1>1, <1>3, <1>4, <2>1 DEF Skip, Rejections
<1>7. CASE Fails(s)
  <2>1. got'[s] = Failure(s) /\ rejected' = Append(rejected, s)
    BY <1>7 DEF Fails, SettlesAs, TypeOK
  <2> QED BY <1>2, <1>4, <2>1 DEF Failure, Rejections, Fails, SettlesAs
<1>8. CASE Stops(s)
  <2>1. got'[s] = Cancelled /\ rejected' = Append(rejected, s)
    BY <1>8 DEF Stops, SettlesAs, TypeOK
  <2> QED BY <1>2, <1>4, <2>1 DEF Cancelled, Rejections
<1>9. ASSUME NEW v \in Outputs, ComesTo(s, v) PROVE RejectedInv'
  <2>1. got'[s] = Output(v) /\ UNCHANGED rejected
    BY <1>9 DEF ComesTo, SettlesAs, TypeOK
  <2> QED BY <1>1, <1>3, <1>4, <2>1 DEF Output, Rejections
<1>10. ASSUME NEW d \in Steps, HandsOn(s, d) PROVE RejectedInv'
  <2>1. got'[s] = got[d] /\ got[d].kind \in Rejections /\ rejected' = Append(rejected, s)
    BY <1>10 DEF HandsOn, SettlesAs, TypeOK
  <2> QED BY <1>2, <1>4, <2>1
<1> QED BY <1>5, <1>6, <1>7, <1>8, <1>9, <1>10 DEF Moves

-----------------------------------------------------------------------------
(* The flow's report                                                       *)

\* The failure that is reported, when steps depend on steps before them, is
\* one's own: a step a failure was handed on to has one before it.
LEMMA LowestIsTheCause ==
  ASSUME TypeOK, LocalInv, DoneInv, \A s \in Steps : \A d \in deps[s] : d < s,
         NEW t \in Steps, got[t].kind = "error",
         \A u \in Steps : got[u].kind = "error" => t <= u
  PROVE  did[t] = "fail" /\ got[t] = Failure(t)
<1>1. CASE did[t] = "fail"
  BY <1>1 DEF DoneInv
<1>2. ASSUME NEW d \in deps[t], got[d] = got[t] PROVE FALSE
  <2>1. d \in Steps /\ d < t
    BY FlowAssumption DEF TypeOK
  <2>2. t <= d
    BY <1>2, <2>1
  <2> QED BY <2>1, <2>2, FlowAssumption DEF Steps
<1> QED BY <1>1, <1>2 DEF LocalInv

LEMMA JoinReports ==
  ASSUME TypeOK, DoneInv, LocalInv, RejectedInv, Join
  PROVE  ReportsTheCause'
<1>0. UNCHANGED <<deps, got, did>> /\ outcome' \in Report
  BY DEF Join, static
<1>f. \A s \in Steps : Failure(s).kind = "error" /\ Failure(s).of = s
  BY DEF Failure
<1>g. \A s \in Steps : did[s] = "fail" => got[s].kind = "error"
  BY <1>f DEF DoneInv
<1>1. CASE outcome' = [kind |-> "ok"]
  BY <1>1 DEF ReportsTheCause
<1>2. CASE outcome' = Cancelled /\ \A s \in Steps : got[s].kind # "error"
  <2>1. \A s \in Steps : did[s] # "fail"
    BY <1>2, <1>g
  <2> QED BY <1>0, <1>2, <2>1 DEF ReportsTheCause, Cancelled
<1>3. ASSUME NEW t \in Steps, outcome' = got[t], got[t].kind = "error",
             \A u \in Steps : got[u].kind = "error" => t <= u
      PROVE  ReportsTheCause'
  <2>1. \A s \in Steps : did[s] = "fail" => t <= s
    BY <1>3, <1>g
  <2>2. ASSUME \A s \in Steps : \A d \in deps[s] : d < s
        PROVE  did[t] = "fail" /\ outcome'.of = t
    BY <1>f, <1>3, <2>2, LowestIsTheCause
  <2> QED BY <1>0, <1>3, <2>1, <2>2 DEF ReportsTheCause
<1> QED BY <1>0, <1>1, <1>2, <1>3, ReportType

Inv == IInv /\ restarts \in Nat

LEMMA InvInit == Init => Inv
<1> SUFFICES ASSUME Init PROVE Inv
  OBVIOUS
<1>1. TypeOK
  BY TypeInit
<1>2. DoneInv /\ JoinInv /\ ReportsTheCause
  BY DEF Init, Each, DoneInv, JoinInv, ReportsTheCause, Pending, NoOutcome, Failure
<1>3. LocalInv
  BY DEF Init, Each, LocalInv, Pending, Working, Skip
<1>4. RejectedInv
  BY DEF Init, Each, RejectedInv, Pending, Rejections
<1> QED BY <1>1, <1>2, <1>3, <1>4, FlowAssumption DEF Init, Inv, IInv

LEMMA InvNext == ASSUME Inv, [Next]_vars PROVE Inv'
<1> USE DEF Inv, IInv
<1>1. TypeOK'
  BY TypeNext
<1>2. ASSUME NEW s \in Steps, StepAction(s) PROVE Inv'
  <2>1. Moves(s) /\ UNCHANGED <<static, ctl, outcome, bounds>>
    BY <1>2, StepMoves
  <2>2. at[s] # "done"
    BY <2>1 DEF Moves, Walks, Skips, ComesTo, Fails, Stops, HandsOn, SettlesAs
  <2>3. outcome = NoOutcome
    BY <2>2 DEF JoinInv
  <2>4. JoinInv' /\ ReportsTheCause'
    BY <2>1, <2>3 DEF JoinInv, ReportsTheCause, NoOutcome
  <2>5. DoneInv' /\ LocalInv' /\ RejectedInv'
    BY <2>1, MovesDone, MovesLocal, MovesRejected
  <2> QED BY <1>1, <2>1, <2>4, <2>5 DEF bounds
<1>3. CASE Join
  <2>1. DoneInv' /\ LocalInv' /\ RejectedInv' /\ JoinInv'
    BY <1>3 DEF Join, static, log, bounds, DoneInv, LocalInv, RejectedInv, JoinInv, DepsMet, Skipped
  <2> QED BY <1>1, <1>3, <2>1, JoinReports DEF Join, bounds
<1>4. CASE Control
  <2>1. UNCHANGED <<deps, shape, at, got, rejected, did, outcome, restarts>> /\ (ctl = "cancelling" => ctl' = "cancelling")
    BY <1>4 DEF Control, static, TypeOK
  <2> QED BY <1>1, <2>1 DEF DoneInv, LocalInv, RejectedInv, JoinInv, ReportsTheCause, DepsMet, Skipped
<1>5. CASE Restart
  <2>1. \A s \in Steps : at'[s] = "deps" /\ got'[s] = Pending /\ did'[s] = "none"
    BY <1>5 DEF Restart, Each
  <2>2. rejected' = <<>> /\ outcome' = NoOutcome /\ restarts' \in Nat
    BY <1>5 DEF Restart
  <2>3. DoneInv' /\ JoinInv' /\ ReportsTheCause'
    BY <2>1, <2>2 DEF DoneInv, JoinInv, ReportsTheCause, Pending, NoOutcome, Failure
  <2>4. LocalInv'
    BY <2>1 DEF LocalInv, Pending, Working, Skip
  <2>5. RejectedInv'
    BY <2>1, <2>2 DEF RejectedInv, Pending, Rejections
  <2> QED BY <1>1, <2>2, <2>3, <2>4, <2>5
<1>6. CASE UNCHANGED vars
  BY <1>1, <1>6 DEF vars, static, bounds, log, DoneInv, LocalInv, RejectedInv, JoinInv, ReportsTheCause,
                    DepsMet, Skipped
<1> QED BY <1>2, <1>3, <1>4, <1>5, <1>6 DEF Next

LEMMA InvHolds == Spec => []Inv
<1>1. Inv /\ [Next]_vars => Inv'
  BY InvNext
<1> QED BY <1>1, InvInit, PTL DEF Spec

\* A failure is never reported as a cancellation, and in array order the first
\* step that failed is the one the flow reports, however the branches raced.
THEOREM CauseReported == Spec => []ReportsTheCause
<1>1. Inv => ReportsTheCause
  BY DEF Inv, IInv
<1> QED BY <1>1, InvHolds, PTL

\* Once the flow has reported, nothing of that attempt moves or is journaled:
\* the run's terminal event is the last of its steps' events.
THEOREM ReportIsLast == Spec => QuietAfterReport
<1>1. Inv /\ [Next]_vars
        => [outcome # NoOutcome => log' = log /\ (at' = at \/ restarts' # restarts)]_vars
  <2> SUFFICES ASSUME Inv, [Next]_vars, outcome # NoOutcome
               PROVE  log' = log /\ (at' = at \/ restarts' # restarts)
    OBVIOUS
  <2>1. ASSUME NEW s \in Steps, StepAction(s) PROVE FALSE
    <3>1. Moves(s)
      BY <2>1, StepMoves DEF Inv, IInv
    <3>2. at[s] # "done"
      BY <3>1 DEF Moves, Walks, Skips, ComesTo, Fails, Stops, HandsOn, SettlesAs
    <3> QED BY <3>2 DEF Inv, IInv, JoinInv
  <2>2. CASE Restart
    <3>1. restarts \in Nat /\ restarts' = restarts + 1 /\ log' = log
      BY <2>2 DEF Restart, Inv
    <3> QED BY <3>1
  <2>3. CASE UNCHANGED vars
    BY <2>3 DEF vars, log
  <2>4. CASE Join \/ Control
    BY <2>4 DEF Join, Control, log
  <2> QED BY <2>1, <2>2, <2>3, <2>4 DEF Next
<1> QED BY <1>1, InvHolds, PTL DEF Spec, QuietAfterReport

-----------------------------------------------------------------------------
(* What was decided before a restart is decided again.                     *)

Ended == {s \in Steps : journal[s] # "none"}

\* A gate as the journal and the steps skipped so far, in any attempt, decide it.
PastSkips(s, Z) ==
  IF shape[s].when = "none"
  THEN deps[s] # {} /\ deps[s] \subseteq Z
  ELSE \A d \in deps[s] : journal[d] # shape[s].when

\* The steps skipped in any attempt and those ended in any are apart, and the
\* gate of each was decided by some of them.
Past(Z) ==
  /\ Z \subseteq Steps /\ Z \cap Ended = {}
  /\ \A s \in Z \cup Ended : deps[s] \subseteq Z \cup Ended
  /\ \A s \in Z : PastSkips(s, Z)
  /\ \A s \in Ended : ~ PastSkips(s, Z)
  /\ \A s \in Steps : /\ got[s] = Skip => s \in Z
                      /\ got[s].kind = "output" => journal[s] = got[s].v

PastInv ==
  /\ \A s \in Steps : at[s] \in {"body", "retry", "onError"} => journal[s] = "none"
  /\ (\A s \in Steps : Unrescued(s)) => \E Z \in SUBSET Steps : Past(Z)

\* Where the dependencies have settled, the past decides as the gate does.
LEMMA PastDecides ==
  ASSUME TypeOK, NEW Z \in SUBSET Steps, Past(Z), NEW s \in Steps, DepsMet(s)
  PROVE  deps[s] \subseteq Z \cup Ended /\ (PastSkips(s, Z) <=> Skipped(s))
<1>1. deps[s] \subseteq Steps
  BY FlowAssumption DEF TypeOK
<1>2. ASSUME NEW d \in deps[s], got[d].kind = "skip"
      PROVE  got[d] = Skip /\ d \in Z /\ journal[d] = "none"
  <2>1. got[d] = Skip
    BY <1>1, <1>2 DEF TypeOK, Pending, Cancelled, Output, Failure
  <2> QED BY <1>1, <2>1 DEF Past, Ended
<1>3. ASSUME NEW d \in deps[s], got[d].kind = "output"
      PROVE  got[d] # Skip /\ journal[d] # "none" /\ d \notin Z /\ got[d] = Output(journal[d])
  <2>1. PICK v \in Outputs : got[d] = Output(v)
    BY <1>1, <1>3 DEF TypeOK, Pending, Cancelled, Failure, Skip
  <2>2. journal[d] = v /\ v # "none"
    BY <1>1, <1>3, <2>1, FlowAssumption DEF Past, Output
  <2> QED BY <1>1, <2>1, <2>2 DEF Past, Ended, Output, Skip
<1>4. \A d \in deps[s] : got[d].kind \in {"output", "skip"}
  BY DEF DepsMet
<1>5. deps[s] \subseteq Z \cup Ended
  BY <1>1, <1>2, <1>3, <1>4 DEF Ended
<1>6. \A d \in deps[s] : got[d] = Skip <=> d \in Z
  BY <1>2, <1>3, <1>4
<1>7. ASSUME NEW w \in {"true", "false"}, NEW d \in deps[s]
      PROVE  got[d] # Output(w) <=> journal[d] # w
  <2>1. CASE got[d].kind = "skip"
    BY <1>2, <2>1, <1>7 DEF Output, Skip
  <2>2. CASE got[d].kind = "output"
    <3>1. Output(journal[d]) # Output(w) <=> journal[d] # w
      BY DEF Output
    <3> QED BY <1>3, <2>2, <3>1
  <2> QED BY <1>4, <2>1, <2>2
<1>8. shape[s].when \in {"none", "true", "false"}
  BY FlowAssumption DEF TypeOK
<1>9. CASE shape[s].when = "none"
  <2>1. deps[s] \subseteq Z <=> \A d \in deps[s] : got[d] = Skip
    BY <1>6
  <2> QED BY <1>5, <1>9, <2>1 DEF PastSkips, Skipped
<1>10. CASE shape[s].when \in {"true", "false"}
  <2>1. \A d \in deps[s] : got[d] # Output(shape[s].when) <=> journal[d] # shape[s].when
    BY <1>7, <1>10
  <2> QED BY <1>5, <1>10, <2>1 DEF PastSkips, Skipped
<1> QED BY <1>5, <1>8, <1>9, <1>10

\* The gates the past decided look at no step beyond it.
LEMMA PastLocal ==
  ASSUME NEW Z, NEW s, deps[s] \subseteq Z \cup Ended,
         NEW t, t \notin Z \cup Ended,
         NEW Y \in {Z, Z \cup {t}}, UNCHANGED static,
         \A u \in Steps \ {t} : journal'[u] = journal[u], deps[s] \subseteq Steps
  PROVE  (PastSkips(s, Y)' <=> PastSkips(s, Z))
<1>1. t \notin deps[s] /\ (deps[s] \subseteq Y <=> deps[s] \subseteq Z)
  OBVIOUS
<1> QED BY <1>1 DEF PastSkips, static

LEMMA PastSkip ==
  ASSUME Inv, PastInv, NEW s \in Steps, SkipStep(s), NEW Z \in SUBSET Steps, Past(Z)
  PROVE  Past(Z \cup {s})'
<1>0. TypeOK /\ \A t \in Steps : deps[t] \subseteq Steps
  BY FlowAssumption DEF Inv, IInv, TypeOK
<1>1. deps[s] \subseteq Z \cup Ended /\ PastSkips(s, Z)
  BY <1>0, PastDecides DEF SkipStep
<1>2. s \notin Ended
  BY <1>1 DEF Past
<1>3. UNCHANGED static /\ journal' = journal /\ Ended' = Ended
  BY DEF SkipStep, log, Ended
<1>4. ASSUME NEW t \in Steps, deps[t] \subseteq Z \cup Ended
      PROVE  PastSkips(t, Z \cup {s})' <=> PastSkips(t, Z)
  <2>1. CASE s \in Z
    BY <1>3, <2>1 DEF PastSkips, static, Past
  <2>2. CASE s \notin Z
    BY <1>0, <1>2, <1>3, <1>4, <2>2, PastLocal
  <2> QED BY <2>1, <2>2
<1>5. \A t \in Steps : got'[t] = IF t = s THEN Skip ELSE got[t]
  BY <1>0 DEF SkipStep, TypeOK
<1>6. Skip.kind # "output"
  BY DEF Skip
<1>7. \A t \in Steps : /\ got'[t] = Skip => t \in Z \cup {s}
                       /\ got'[t].kind = "output" => journal'[t] = got'[t].v
  BY <1>3, <1>5, <1>6 DEF Past
<1>8. deps' = deps /\ \A t \in Z \cup {s} \cup Ended : t \in Steps
  BY <1>3 DEF static, Past, Ended
<1>9. \A t \in (Z \cup {s}) \cup Ended' : deps'[t] \subseteq (Z \cup {s}) \cup Ended'
  BY <1>1, <1>3, <1>8 DEF Past
<1>10. \A t \in Z \cup {s} : PastSkips(t, Z \cup {s})'
  BY <1>1, <1>4, <1>8 DEF Past
<1>11. \A t \in Ended' : ~ PastSkips(t, Z \cup {s})'
  BY <1>3, <1>4, <1>8 DEF Past
<1> QED BY <1>2, <1>3, <1>7, <1>9, <1>10, <1>11 DEF Past

LEMMA PastReturn ==
  ASSUME Inv, PastInv, NEW s \in Steps, Return(s), NEW Z \in SUBSET Steps, Past(Z)
  PROVE  Past(Z)'
<1>0. /\ TypeOK /\ \A t \in Steps : deps[t] \subseteq Steps
      /\ DepsMet(s) /\ ~ Skipped(s) /\ journal[s] = "none"
  <2>1. TypeOK /\ at[s] = "body"
    BY DEF Inv, IInv, Return
  <2>2. \A t \in Steps : deps[t] \subseteq Steps
    BY <2>1, FlowAssumption DEF TypeOK
  <2> QED BY <2>1, <2>2 DEF Inv, IInv, LocalInv, Working, PastInv
<1>1. deps[s] \subseteq Z \cup Ended /\ ~ PastSkips(s, Z)
  BY <1>0, PastDecides
<1>2. s \notin Z \cup Ended
  BY <1>0, <1>1 DEF Past, Ended
<1>3. PICK v \in Outputs : /\ journal' = [journal EXCEPT ![s] = v]
                           /\ got' = [got EXCEPT ![s] = Output(v)]
                           /\ UNCHANGED static
  BY DEF Return, Settle
<1>4. Ended' = Ended \cup {s} /\ \A t \in Steps \ {s} : journal'[t] = journal[t]
  BY <1>0, <1>3, FlowAssumption DEF Ended, TypeOK
<1>5. ASSUME NEW t \in Steps, deps[t] \subseteq Z \cup Ended
      PROVE  PastSkips(t, Z)' <=> PastSkips(t, Z)
  BY <1>0, <1>2, <1>3, <1>4, <1>5, PastLocal
<1>6. Output(v).kind = "output" /\ Output(v).v = v /\ Output(v) # Skip
  BY DEF Output, Skip
<1>7. \A t \in Steps : /\ got'[t] = Skip => t \in Z
                       /\ got'[t].kind = "output" => journal'[t] = got'[t].v
  BY <1>0, <1>3, <1>6 DEF Past, TypeOK
<1>8. deps' = deps /\ \A t \in Z \cup Ended' : t \in Steps
  BY <1>3 DEF static, Past, Ended
<1>9. \A t \in Z \cup Ended' : deps'[t] \subseteq Z \cup Ended'
  BY <1>1, <1>4, <1>8 DEF Past
<1>10. \A t \in Z : PastSkips(t, Z)'
  BY <1>5, <1>8 DEF Past
<1>11. \A t \in Ended' : ~ PastSkips(t, Z)'
  BY <1>1, <1>4, <1>5, <1>8 DEF Past
<1> QED BY <1>2, <1>4, <1>7, <1>9, <1>10, <1>11 DEF Past

\* A step that leaves the journal, the skips and the outputs of the past as they are.
LEMMA PastKept ==
  ASSUME TypeOK, NEW Z \in SUBSET Steps, Past(Z), UNCHANGED <<static, journal>>,
         \A t \in Steps : /\ got'[t] = Skip => got[t] = Skip
                          /\ got'[t].kind = "output" => journal[t] = got'[t].v
  PROVE  Past(Z)'
<1>1. Ended' = Ended /\ deps' = deps
  BY DEF Ended, static
<1>2. \A s \in Z \cup Ended : PastSkips(s, Z)' <=> PastSkips(s, Z)
  BY DEF PastSkips, static
<1> QED BY <1>1, <1>2 DEF Past

\* Gates are not decided again by what was rescued: once something was, nothing is claimed.
LEMMA RescuedStays ==
  ASSUME TypeOK, [Next]_vars
  PROVE  /\ (\A s \in Steps : Unrescued(s))' => \A s \in Steps : Unrescued(s)
         /\ UNCHANGED rescues \/ \E s \in Steps : Rescue(s)
<1>1. UNCHANGED rescues \/ \E s \in Steps : Rescue(s)
  BY DEF Next, StepAction, SkipStep, Reach, RejectedDep, Replay, Settle, Start, Return, ThrowAndRetry,
         ThrowAndRescue, Throw, RescueReplays, RescueFails, Cancel, Reject, Join, Control, Restart,
         vars, log
<1>2. ASSUME NEW s \in Steps, Rescue(s) PROVE ~ Unrescued(s)'
  BY <1>2, FlowAssumption DEF Rescue, Unrescued, TypeOK
<1> QED BY <1>1, <1>2 DEF Unrescued

LEMMA PastNext ==
  ASSUME Inv, PastInv, [Next]_vars, NEW Z \in SUBSET Steps, Past(Z),
         (\A s \in Steps : Unrescued(s))'
  PROVE  \E Y \in SUBSET Steps : Past(Y)'
<1>r. ASSUME NEW s \in Steps, Rescue(s) PROVE FALSE
  BY <1>r, FlowAssumption DEF Rescue, Unrescued, Inv, IInv, TypeOK
<1>1. TypeOK /\ UNCHANGED rescues
  BY <1>r, RescuedStays DEF Inv, IInv
<1>2. \A s \in Steps : rescues[s] = "none"
  BY <1>1, RescuedStays DEF Unrescued
<1>3. ASSUME NEW s \in Steps, SkipStep(s) PROVE \E Y \in SUBSET Steps : Past(Y)'
  BY <1>3, PastSkip
<1>4. ASSUME NEW s \in Steps, Return(s) PROVE Past(Z)'
  BY <1>4, PastReturn
<1>5. ASSUME NEW s \in Steps, Replay(s) PROVE Past(Z)'
  <2>1. got' = [got EXCEPT ![s] = Output(journal[s])] /\ UNCHANGED <<static, journal>>
    BY <1>5 DEF Replay, Settle, log
  <2>2. Output(journal[s]) # Skip /\ Output(journal[s]).v = journal[s]
    BY DEF Output, Skip
  <2> QED BY <1>1, <2>1, <2>2, PastKept DEF Past, TypeOK
<1>6. ASSUME NEW s \in Steps, RejectedDep(s) PROVE Past(Z)'
  <2>1. PICK i \in 1..Len(rejected) : got' = [got EXCEPT ![s] = got[rejected[i]]]
    BY <1>6 DEF RejectedDep
  <2>2. rejected[i] \in Steps
    BY <1>1 DEF TypeOK
  <2>3. got[rejected[i]].kind \in Rejections
    BY <2>1, <2>2 DEF Inv, IInv, RejectedInv
  <2>4. got[rejected[i]] # Skip /\ got[rejected[i]].kind # "output"
    BY <2>3 DEF Rejections, Skip
  <2>5. UNCHANGED <<static, journal>>
    BY <1>6 DEF RejectedDep, log
  <2> QED BY <1>1, <2>1, <2>4, <2>5, PastKept DEF Past, TypeOK
<1>7. ASSUME NEW s \in Steps, NEW reason \in {Cancelled, Failure(s)}, Reject(s, reason) PROVE Past(Z)'
  <2>1. reason # Skip /\ reason.kind # "output"
    BY DEF Cancelled, Failure, Skip
  <2>2. got' = [got EXCEPT ![s] = reason] /\ UNCHANGED <<static, journal>>
    BY <1>7 DEF Reject, log
  <2> QED BY <1>1, <2>1, <2>2, PastKept DEF Past, TypeOK
<1>8. CASE Restart
  <2>1. \A t \in Steps : got'[t] = Pending
    BY <1>8 DEF Restart, Each
  <2>2. UNCHANGED <<static, journal>>
    BY <1>8 DEF Restart, log
  <2> QED BY <1>1, <2>1, <2>2, PastKept DEF Pending, Skip
<1>9. CASE UNCHANGED <<static, got, journal>>
  BY <1>1, <1>9, PastKept DEF Past
<1>10. \/ UNCHANGED <<static, got, journal>> \/ Restart
       \/ \E s \in Steps : \/ SkipStep(s) \/ Return(s) \/ Replay(s) \/ RejectedDep(s)
                           \/ \E reason \in {Cancelled, Failure(s)} : Reject(s, reason)
  <2>1. ASSUME NEW s \in Steps, RescueReplays(s) PROVE FALSE
    BY <1>2, <2>1 DEF RescueReplays
  <2>2. ASSUME NEW s \in Steps, Reach(s) \/ Start(s) \/ ThrowAndRetry(s) \/ ThrowAndRescue(s)
        PROVE  UNCHANGED <<static, got, journal>>
    BY <2>2 DEF Reach, Start, ThrowAndRetry, ThrowAndRescue, log
  <2>3. ASSUME NEW s \in Steps, Throw(s) \/ RescueFails(s) \/ Cancel(s)
        PROVE  \E reason \in {Cancelled, Failure(s)} : Reject(s, reason)
    BY <2>3 DEF Throw, RescueFails, Cancel
  <2>4. CASE Join \/ Control \/ UNCHANGED vars
    BY <2>4 DEF Join, Control, vars, log
  <2> QED BY <1>r, <2>1, <2>2, <2>3, <2>4 DEF Next, StepAction
<1> QED BY <1>3, <1>4, <1>5, <1>6, <1>7, <1>8, <1>9, <1>10

LEMMA PastInvNext == ASSUME Inv, PastInv, [Next]_vars PROVE PastInv'
<1>1. ASSUME NEW t \in Steps, at'[t] \in {"body", "retry", "onError"} PROVE journal'[t] = "none"
  <2>1. TypeOK
    BY DEF Inv, IInv
  <2>2. ASSUME NEW s \in Steps, StepAction(s) PROVE journal'[t] = "none"
    BY <1>1, <2>1, <2>2 DEF StepAction, SkipStep, Reach, RejectedDep, Replay, Settle, Start, Return,
         ThrowAndRetry, ThrowAndRescue, Throw, RescueReplays, Rescue, RescueFails, Cancel, Reject, log,
         TypeOK, PastInv
  <2> QED BY <1>1, <2>2 DEF Next, Join, Control, Restart, Each, vars, log, PastInv
<1>2. ASSUME (\A s \in Steps : Unrescued(s))' PROVE \E Z \in SUBSET Steps : Past(Z)'
  <2>1. \A s \in Steps : Unrescued(s)
    BY <1>2, RescuedStays DEF Inv, IInv
  <2>2. PICK Z \in SUBSET Steps : Past(Z)
    BY <2>1 DEF PastInv
  <2> QED BY <1>2, <2>2, PastNext
<1> QED BY <1>1, <1>2 DEF PastInv

\* A step that ended in an attempt is not skipped in a later one, so long as no
\* step was rescued: a gate that decided once decides the same way again.
THEOREM EndedStays == Spec => []EndedIsNotSkipped
<1>1. Init => PastInv
  <2> SUFFICES ASSUME Init PROVE PastInv
    OBVIOUS
  <2>1. Past({})
    BY DEF Init, Each, Past, Ended, Pending, Skip
  <2> QED BY <2>1 DEF Init, Each, PastInv
<1>2. Inv /\ PastInv /\ [Next]_vars => PastInv'
  BY PastInvNext
<1>3. Inv /\ PastInv => EndedIsNotSkipped
  <2> SUFFICES ASSUME PastInv, \A s \in Steps : Unrescued(s), NEW s \in Steps, journal[s] # "none"
               PROVE  got[s] # Skip
    BY DEF EndedIsNotSkipped
  <2>1. PICK Z \in SUBSET Steps : Past(Z)
    BY DEF PastInv
  <2> QED BY <2>1 DEF Past, Ended
<1> QED BY <1>1, <1>2, <1>3, InvHolds, PTL DEF Spec

-----------------------------------------------------------------------------
(* Induction over the graph                                                *)

\* A set of naturals that is not empty has a least element.
LEMMA LessWellFounded ==
  \E R : IsWellFoundedOn(R, Nat) /\ \A x, y \in Nat : <<y, x>> \in R <=> y < x
<1>1. \A x, y \in Nat : <<y, x>> \in OpToRel(<, Nat) <=> y < x
  BY DEF OpToRel
<1> DEFINE R == OpToRel(<, Nat)
<1>2. IsWellFoundedOn(R, Nat)
  BY NatLessThanWellFounded
<1>3. \A x, y \in Nat : <<y, x>> \in R <=> y < x
  BY <1>1
<1> HIDE DEF R
<1> QED BY <1>2, <1>3

LEMMA Least ==
  ASSUME NEW T \in SUBSET Nat, T # {}
  PROVE  \E m \in T : \A k \in T : m <= k
<1>1. PICK R : IsWellFoundedOn(R, Nat) /\ \A x, y \in Nat : <<y, x>> \in R <=> y < x
  BY LessWellFounded
<1>2. PICK x \in T : \A y \in T : ~ (<<y, x>> \in R)
  BY <1>1, WFMin
<1>3. \A y \in T : ~ (y < x)
  BY <1>1, <1>2
<1>4. \A y \in T : x <= y
  BY <1>3
<1> QED BY <1>4

\* What Reference makes of a step, from what f made of its dependencies.
Made(f, s) ==
  LET before == {f[d] : d \in deps[s]}
      ran == {o \in before : o.kind = "output"}
  IN  IF \E o \in before : o.kind = "error" THEN [kind |-> "error"]
      ELSE IF \/ shape[s].when = "none" /\ deps[s] # {} /\ before = {Skip}
              \/ shape[s].when # "none" /\ ~ \E o \in ran : o.v = shape[s].when
      THEN Skip
      ELSE IF did[s] = "fail" THEN [kind |-> "error"]
      ELSE IF did[s] = "none" THEN Pending
      ELSE Output(did[s])

LEMMA MadeOfDeps ==
  ASSUME NEW f, NEW g, NEW s, \A d \in deps[s] : f[d] = g[d]
  PROVE  Made(f, s) = Made(g, s)
<1>1. {f[d] : d \in deps[s]} = {g[d] : d \in deps[s]}
  OBVIOUS
<1> QED BY <1>1 DEF Made

\* Along a rank of the graph, what the sequential run makes of the steps exists.
LEMMA MadeExists ==
  ASSUME NEW rank \in [Steps -> Steps], \A s \in Steps : deps[s] \subseteq Steps,
         \A s \in Steps : \A t \in deps[s] : rank[t] < rank[s]
  PROVE  \E f : f = [s \in Steps |-> Made(f, s)]
<1> DEFINE UpTo(f, n) == \A s \in Steps : rank[s] <= n => f[s] = Made(f, s)
           Failing == {n \in Nat : ~ \E f : UpTo(f, n)}
<1>0. N \in Nat /\ \A s \in Steps : rank[s] \in 1..N
  BY FlowAssumption DEF Steps
<1>1. ASSUME NEW m \in Failing, \A k \in Failing : m <= k PROVE FALSE
  <2>1. m # 0
    BY <1>0
  <2>2. m - 1 \in Nat /\ m - 1 \notin Failing
    BY <1>1, <2>1
  <2>3. PICK f : UpTo(f, m - 1)
    BY <2>2
  <2> DEFINE g == [s \in Steps |-> IF rank[s] = m THEN Made(f, s) ELSE f[s]]
  <2>4. ASSUME NEW s \in Steps, rank[s] <= m PROVE g[s] = Made(g, s)
    <3>1. \A d \in deps[s] : d \in Steps /\ rank[d] < m
      BY <1>0, <2>4
    <3>2. \A d \in deps[s] : f[d] = g[d]
      BY <3>1
    <3>3. Made(f, s) = Made(g, s)
      BY <3>2, MadeOfDeps
    <3>4. rank[s] = m \/ rank[s] <= m - 1
      BY <1>0, <2>4
    <3> QED BY <2>3, <3>3, <3>4
  <2>5. UpTo(g, m)
    BY <2>4
  <2> QED BY <2>5
<1>2. Failing = {}
  BY <1>1, Least
<1>3. PICK f : UpTo(f, N)
  BY <1>0, <1>2
<1> DEFINE h == [s \in Steps |-> f[s]]
<1>4. ASSUME NEW s \in Steps PROVE h[s] = Made(h, s)
  <2>1. \A d \in deps[s] : f[d] = h[d]
    OBVIOUS
  <2>2. Made(f, s) = Made(h, s)
    BY <2>1, MadeOfDeps
  <2> QED BY <1>0, <1>3, <2>2
<1>5. h = [s \in Steps |-> Made(h, s)]
  BY <1>4
<1> QED BY <1>5

LEMMA ReferenceIsMade ==
  ASSUME TypeOK, NEW s \in Steps
  PROVE  Reference[s] = Made(Reference, s)
<1>1. \A t \in Steps : deps[t] \subseteq Steps
  BY FlowAssumption DEF TypeOK
<1>2. \E rank \in [Steps -> Steps] : \A r \in Steps : \A t \in deps[r] : rank[t] < rank[r]
  BY FlowAssumption DEF TypeOK, Acyclic
<1>3. \E f : f = [t \in Steps |-> Made(f, t)]
  BY <1>1, <1>2, MadeExists
<1>4. Reference = CHOOSE f : f = [t \in Steps |-> Made(f, t)]
  BY DEF Reference, Made
<1>5. Reference = [t \in Steps |-> Made(Reference, t)]
  BY <1>3, <1>4
<1> QED BY <1>5

-----------------------------------------------------------------------------
(* Whatever order the steps settled in                                     *)

Agrees(s) ==
  /\ got[s].kind \in {"skip", "output"} => Reference[s] = got[s]
  /\ got[s].kind = "error" => Reference[s] = [kind |-> "error"]

\* Where the dependencies have settled, Reference decides the gate as the flow does.
LEMMA MadeMet ==
  ASSUME TypeOK, NEW s \in Steps, DepsMet(s)
  PROVE  Made(got, s) = IF Skipped(s) THEN Skip
                        ELSE IF did[s] = "fail" THEN [kind |-> "error"]
                        ELSE IF did[s] = "none" THEN Pending
                        ELSE Output(did[s])
<1> DEFINE before == {got[d] : d \in deps[s]}
           ran == {o \in before : o.kind = "output"}
<1>0. deps[s] \subseteq Steps /\ shape[s].when \in {"none", "true", "false"}
  BY FlowAssumption DEF TypeOK
<1>1. ~ \E o \in before : o.kind = "error"
  BY DEF DepsMet
<1>2. deps[s] # {} => (before = {Skip} <=> \A d \in deps[s] : got[d] = Skip)
  OBVIOUS
<1>3. ASSUME NEW w
      PROVE  (\E o \in ran : o.v = w) <=> \E d \in deps[s] : got[d] = Output(w)
  <2>1. \A v : Output(v).kind = "output" /\ Output(v).v = v
    BY DEF Output
  <2>2. ASSUME NEW d \in deps[s], got[d].kind = "output" PROVE got[d] = Output(got[d].v)
    <3>1. PICK v \in Outputs : got[d] = Output(v)
      BY <1>0, <2>2 DEF TypeOK, Pending, Skip, Cancelled, Failure
    <3> QED BY <2>1, <3>1
  <2> QED BY <2>1, <2>2
<1>4. Skipped(s) <=> \/ shape[s].when = "none" /\ deps[s] # {} /\ before = {Skip}
                     \/ shape[s].when # "none" /\ ~ \E o \in ran : o.v = shape[s].when
  <2>1. CASE shape[s].when = "none"
    BY <1>2, <2>1 DEF Skipped
  <2>2. CASE shape[s].when # "none"
    <3>1. (\E o \in ran : o.v = shape[s].when) <=> \E d \in deps[s] : got[d] = Output(shape[s].when)
      BY <1>3
    <3> HIDE DEF before, ran
    <3> QED BY <2>2, <3>1 DEF Skipped
  <2> QED BY <2>1, <2>2
<1> QED BY <1>1, <1>4 DEF Made

LEMMA AgreesNext ==
  ASSUME Inv, ctl # "cancelling", NEW s \in Steps, got[s] # Pending,
         \A d \in deps[s] : got[d] # Pending => Agrees(d)
  PROVE  Agrees(s)
<1>0. TypeOK /\ LocalInv /\ deps[s] \subseteq Steps
  BY FlowAssumption DEF Inv, IInv, TypeOK
<1>1. Reference[s] = Made(Reference, s)
  BY <1>0, ReferenceIsMade
<1>2. CASE DepsMet(s)
  <2>1. \A d \in deps[s] : Reference[d] = got[d]
    BY <1>2 DEF DepsMet, Agrees, Pending
  <2>2. Reference[s] = Made(got, s)
    BY <1>1, <2>1, MadeOfDeps
  <2>3. CASE got[s] = Skip
    BY <1>0, <1>2, <2>2, <2>3, MadeMet DEF LocalInv, Agrees, Skip
  <2>4. ASSUME NEW v \in Outputs, got[s] = Output(v) PROVE Agrees(s)
    <3>1. got[s].kind = "output" /\ got[s].v = v
      BY <2>4 DEF Output
    <3>2. did[s] = v /\ v # "none" /\ v # "fail" /\ ~ Skipped(s)
      BY <1>0, <3>1, FlowAssumption DEF LocalInv
    <3> QED BY <1>0, <1>2, <2>2, <2>4, <3>1, <3>2, MadeMet DEF Agrees
  <2>5. ASSUME NEW t \in Steps, got[s] = Failure(t) PROVE Agrees(s)
    <3>1. got[s].kind = "error"
      BY <2>5 DEF Failure
    <3>2. ~ \E d \in deps[s] : got[d] = got[s]
      BY <1>2, <3>1 DEF DepsMet
    <3>3. did[s] = "fail" /\ ~ Skipped(s)
      BY <1>0, <3>1, <3>2 DEF LocalInv
    <3> QED BY <1>0, <1>2, <2>2, <3>1, <3>3, MadeMet DEF Agrees
  <2>6. got[s] # Cancelled
    BY <1>0 DEF LocalInv, Cancelled
  <2> QED BY <1>0, <2>3, <2>4, <2>5, <2>6 DEF TypeOK
<1>3. CASE ~ DepsMet(s)
  <2>1. got[s].kind = "error" /\ got[s].kind \notin {"skip", "output"}
    BY <1>0, <1>3 DEF LocalInv, TypeOK, Pending, Skip, Cancelled, Output, Failure
  <2>2. PICK d \in deps[s] : got[d] = got[s]
    BY <1>0, <1>3, <2>1 DEF LocalInv
  <2>3. Reference[d] = [kind |-> "error"]
    BY <2>1, <2>2 DEF Agrees, Pending
  <2>4. Made(Reference, s) = [kind |-> "error"]
    <3>1. \E o \in {Reference[e] : e \in deps[s]} : o.kind = "error"
      BY <2>3
    <3> QED BY <3>1 DEF Made
  <2> QED BY <1>1, <2>1, <2>4 DEF Agrees
<1> QED BY <1>2, <1>3

\* Whatever order the steps settled in, however they raced, retried, failed and
\* were rescued: unless a cancel came, each came to what running them one at a
\* time in the order of their dependencies would have made of it.
THEOREM SameAsReference == Spec => []AsReference
<1>1. Inv => AsReference
  <2> SUFFICES ASSUME Inv, ctl # "cancelling",
                      NEW s0 \in Steps, got[s0] # Pending
               PROVE  /\ got[s0].kind = Reference[s0].kind
                      /\ got[s0].kind = "output" => got[s0].v = Reference[s0].v
    BY DEF AsReference
  <2>0. TypeOK /\ LocalInv /\ \A s \in Steps : deps[s] \subseteq Steps
    BY FlowAssumption DEF Inv, IInv, TypeOK
  <2>1. PICK rank \in [Steps -> Steps] : \A s \in Steps : \A t \in deps[s] : rank[t] < rank[s]
    BY <2>0, FlowAssumption DEF TypeOK, Acyclic
  <2>2. \A s \in Steps : rank[s] \in Nat
    BY <2>1, FlowAssumption DEF Steps
  <2> DEFINE Wrong == {n \in Nat : \E s \in Steps : rank[s] = n /\ got[s] # Pending /\ ~ Agrees(s)}
  <2>3. ASSUME NEW n \in Wrong, \A k \in Wrong : n <= k PROVE FALSE
    <3>1. PICK s \in Steps : rank[s] = n /\ got[s] # Pending /\ ~ Agrees(s)
      OBVIOUS
    <3>2. ASSUME NEW d \in deps[s], got[d] # Pending PROVE Agrees(d)
      <4>1. d \in Steps /\ rank[d] < n /\ rank[d] \in Nat
        BY <2>0, <2>1, <2>2, <3>1
      <4>2. rank[d] \notin Wrong
        BY <2>3, <4>1
      <4> QED BY <3>2, <4>1, <4>2
    <3> QED BY <3>1, <3>2, AgreesNext
  <2>4. Wrong = {}
    BY <2>3, Least
  <2>5. Agrees(s0)
    BY <2>2, <2>4
  <2>6. got[s0].kind \in {"skip", "output", "error"}
    BY <2>0 DEF TypeOK, LocalInv, Pending, Skip, Cancelled, Output, Failure
  <2> QED BY <2>5, <2>6 DEF Agrees
<1> QED BY <1>1, InvHolds, PTL

=============================================================================
