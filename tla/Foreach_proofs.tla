--------------------------- MODULE Foreach_proofs ---------------------------
(***************************************************************************)
(* What holds of a foreach pool for every number of items, workers,        *)
(* restarts and asks.                                                      *)
(***************************************************************************)
EXTENDS Foreach, TLAPS

\* What is in the pool's records agrees with what the bodies do; a worker only
\* leaves for a reason; an outcome is what Report made of the failures.
Honest ==
  /\ \A i \in results \cup journal : fate[i] = "ok"
  /\ \A f \in failures : f.how = "error" => fate[f.i] = "fail"

Reasoned == \A w \in Workers : worker[w].at = "left" => failures # {} \/ cursor = N

Reported ==
  outcome # NoOutcome =>
    /\ \A w \in Workers : worker[w].at = "left"
    /\ outcome.kind = "ok" => failures = {}
    /\ outcome.kind = "error" =>
         /\ [i |-> outcome.i, how |-> "error"] \in failures
         /\ \A f \in failures : f.how = "error" /\ outcome.i <= f.i

IInv == TypeOK /\ OnePlace /\ Honest /\ Reasoned /\ Reported

LEMMA InitInv == Init => IInv
<1> SUFFICES ASSUME Init PROVE IInv
  OBVIOUS
<1> USE ForeachAssumption DEF Init
<1>1. TypeOK
  BY DEF TypeOK, Idle, NoOutcome, Items
<1>2. OnePlace
  BY DEF OnePlace, Busy, InHand, Settled, Idle
<1>3. Honest /\ Reasoned /\ Reported
  BY DEF Honest, Reasoned, Reported, Idle
<1> QED BY <1>1, <1>2, <1>3 DEF IInv

-----------------------------------------------------------------------------
(* One step of a worker.                                                   *)

\* A busy worker's index has been pulled, and is of an item.
LEMMA BusyPulled ==
  ASSUME TypeOK, OnePlace, NEW w \in Workers, Busy(w)
  PROVE  worker[w].i \in Items /\ worker[w].i < cursor
BY ForeachAssumption DEF TypeOK, OnePlace, InHand, Items

\* While a worker is busy there is no outcome.
LEMMA BusyNoOutcome ==
  ASSUME Reported, NEW w \in Workers, worker[w].at # "left"
  PROVE  outcome = NoOutcome
BY DEF Reported

LEMMA PullInv == ASSUME IInv, NEW w \in Workers, Pull(w) PROVE IInv'
<1> USE ForeachAssumption DEF IInv
<1>1. outcome = NoOutcome
  BY BusyNoOutcome DEF Pull
<1>2. TypeOK'
  BY DEF TypeOK, Pull, Left, bounds
<1>3. OnePlace'
  <2>1. CASE failures # {} \/ cursor >= N
    <3>1. \A v \in Workers : Busy(v)' <=> Busy(v)
      BY <2>1 DEF Busy, Pull, Left, TypeOK
    <3>2. \A v \in Workers : Busy(v) => worker'[v] = worker[v]
      BY <2>1 DEF Busy, Pull, Left, TypeOK
    <3>3. InHand' = InHand
      BY <3>1, <3>2 DEF InHand
    <3> QED BY <2>1, <3>1, <3>2, <3>3 DEF OnePlace, Pull, Settled
  <2>2. CASE ~(failures # {} \/ cursor >= N)
    <3>1. \A v \in Workers : Busy(v)' <=> Busy(v) \/ v = w
      BY <2>2 DEF Busy, Pull, TypeOK
    <3>2. worker'[w].i = cursor /\ \A v \in Workers \ {w} : worker'[v] = worker[v]
      BY <2>2 DEF Pull, TypeOK
    <3>3. ~ Busy(w)
      BY DEF Busy, Pull
    <3>4. InHand' = InHand \cup {cursor}
      BY <3>1, <3>2, <3>3 DEF InHand
    <3>5. cursor' = cursor + 1 /\ cursor \in Nat
      BY <2>2 DEF Pull, TypeOK
    <3>6. Settled' = Settled
      BY DEF Pull, Settled
    <3>7. cursor \notin InHand \cup Settled
      BY <3>5 DEF OnePlace
    <3>8. \A v, u \in Workers : (Busy(v) /\ Busy(u) /\ worker[v].i = worker[u].i)' => v = u
      <4> SUFFICES ASSUME NEW v \in Workers, NEW u \in Workers,
                          (Busy(v) /\ Busy(u) /\ worker[v].i = worker[u].i)', v # u
                   PROVE  FALSE
        OBVIOUS
      <4>1. CASE v = w
        BY <4>1, <3>1, <3>2, <3>7 DEF InHand
      <4>2. CASE u = w
        BY <4>2, <3>1, <3>2, <3>7 DEF InHand
      <4>3. CASE v # w /\ u # w
        BY <4>3, <3>1, <3>2 DEF OnePlace
      <4> QED BY <4>1, <4>2, <4>3
    <3>9. (InHand \cap Settled)' = {}
      BY <3>4, <3>6, <3>7 DEF OnePlace
    <3>10. (InHand \cup Settled)' = 0..(cursor' - 1)
      BY <3>4, <3>5, <3>6 DEF OnePlace
    <3> QED BY <3>8, <3>9, <3>10 DEF OnePlace, Pull
  <2> QED BY <2>1, <2>2
<1>4. Honest' /\ Reported'
  BY <1>1 DEF Honest, Reported, Pull
<1>5. Reasoned'
  BY DEF Reasoned, Pull, Left, TypeOK
<1> QED BY <1>2, <1>3, <1>4, <1>5

\* A checkpoint passed: the index stays in the same hands.
LEMMA BeginInv == ASSUME IInv, NEW w \in Workers, Begin(w) PROVE IInv'
<1> USE ForeachAssumption DEF IInv
<1>0. Busy(w) /\ outcome = NoOutcome
  BY BusyNoOutcome DEF Begin, Busy
<1>1. TypeOK'
  BY <1>0, BusyPulled DEF TypeOK, Begin, bounds
<1>2. \A v \in Workers : (Busy(v)' <=> Busy(v)) /\ worker'[v].i = worker[v].i
  BY DEF Busy, Begin, TypeOK
<1>3. InHand' = InHand
  BY <1>2 DEF InHand
<1>4. OnePlace'
  BY <1>2, <1>3 DEF OnePlace, Begin, Settled
<1>5. Honest' /\ Reasoned' /\ Reported'
  BY <1>0 DEF Honest, Reasoned, Reported, Begin, TypeOK
<1> QED BY <1>1, <1>4, <1>5

\* An index leaves a worker's hands and is settled, one way.
LEMMA Settles ==
  ASSUME TypeOK, OnePlace, NEW w \in Workers, Busy(w),
         worker' \in [Workers -> [at : {"pull", "gate", "body", "left"}, i : Nat]],
         \A v \in Workers \ {w} : worker'[v] = worker[v],
         ~ Busy(w)', cursor' = cursor,
         Settled' = Settled \cup {worker[w].i},
         (results \cap {f.i : f \in failures})' = {}
  PROVE  OnePlace'
<1>1. \A v \in Workers : Busy(v)' <=> Busy(v) /\ v # w
  BY DEF Busy
<1>2. InHand' = InHand \ {worker[w].i}
  BY <1>1 DEF InHand, OnePlace
<1>3. worker[w].i \in InHand
  BY DEF InHand
<1>4. \A v, u \in Workers : (Busy(v) /\ Busy(u) /\ worker[v].i = worker[u].i)' => v = u
  BY <1>1 DEF OnePlace
<1> QED BY <1>2, <1>3, <1>4 DEF OnePlace

\* A replayed or a returning iteration: a busy worker is idle and its slot filled.
LEMMA FillInv ==
  ASSUME IInv, NEW w \in Workers, Replay(w) \/ Returns(w)
  PROVE  IInv'
<1> USE ForeachAssumption DEF IInv
<1>0. Busy(w) /\ outcome = NoOutcome /\ worker[w].i \in Items
  BY BusyNoOutcome, BusyPulled DEF Replay, Returns, Busy
<1>1. /\ results' = results \cup {worker[w].i}
      /\ journal' = journal \cup {worker[w].i}
      /\ worker' = [worker EXCEPT ![w] = Idle]
      /\ UNCHANGED <<fate, cursor, failures, ctl, outcome, begun, bounds>>
      /\ fate[worker[w].i] = "ok"
  BY DEF Replay, Returns, Honest
<1>2. TypeOK'
  BY <1>0, <1>1 DEF TypeOK, Idle, bounds
<1>3. worker[w].i \notin Settled
  BY <1>0 DEF OnePlace, InHand
<1>4. OnePlace'
  <2>1. (results \cap {f.i : f \in failures})' = {}
    BY <1>1, <1>3 DEF OnePlace, Settled
  <2>2. Settled' = Settled \cup {worker[w].i}
    BY <1>1 DEF Settled
  <2>3. ~ Busy(w)' /\ \A v \in Workers \ {w} : worker'[v] = worker[v]
    BY <1>1 DEF Busy, Idle, TypeOK
  <2>4. cursor' = cursor /\ worker' \in [Workers -> [at : {"pull", "gate", "body", "left"}, i : Nat]]
    BY <1>1, <1>2 DEF TypeOK
  <2> QED BY <1>0, <2>1, <2>2, <2>3, <2>4, Settles
<1>5. Honest' /\ Reasoned' /\ Reported'
  BY <1>0, <1>1 DEF Honest, Reasoned, Reported, Idle, TypeOK
<1> QED BY <1>2, <1>4, <1>5

\* A failed or a cancelled iteration: a busy worker has left its failure.
LEMMA FailInv ==
  ASSUME IInv, NEW w \in Workers, Throws(w) \/ Cancelled(w)
  PROVE  IInv'
<1> USE ForeachAssumption DEF IInv
<1>0. Busy(w) /\ outcome = NoOutcome /\ worker[w].i \in Items
  BY BusyNoOutcome, BusyPulled DEF Throws, Cancelled, Busy
<1>1. PICK how \in {"error", "cancelled"} :
        Fails(w, how) /\ (how = "error" => fate[worker[w].i] = "fail")
  BY DEF Throws, Cancelled
<1>2. TypeOK'
  BY <1>0, <1>1 DEF TypeOK, Left, Fails, bounds
<1>3. worker[w].i \notin Settled
  BY <1>0 DEF OnePlace, InHand
<1>4. OnePlace'
  <2>1. {f.i : f \in failures}' = {f.i : f \in failures} \cup {worker[w].i}
    <3> DEFINE new == [i |-> worker[w].i, how |-> how]
    <3>1. failures' = failures \cup {new} /\ new.i = worker[w].i
      BY <1>1 DEF Fails
    <3> HIDE DEF new
    <3>2. {f.i : f \in failures \cup {new}} = {f.i : f \in failures} \cup {new.i}
      OBVIOUS
    <3> QED BY <3>1, <3>2
  <2>2. (results \cap {f.i : f \in failures})' = {}
    BY <1>1, <1>3, <2>1 DEF OnePlace, Settled, Fails
  <2>3. Settled' = Settled \cup {worker[w].i}
    BY <1>1, <2>1 DEF Settled, Fails
  <2>4. ~ Busy(w)' /\ \A v \in Workers \ {w} : worker'[v] = worker[v]
    BY <1>1 DEF Busy, Left, Fails, TypeOK
  <2>5. cursor' = cursor /\ worker' \in [Workers -> [at : {"pull", "gate", "body", "left"}, i : Nat]]
    BY <1>1, <1>2 DEF TypeOK, Fails
  <2> QED BY <1>0, <2>2, <2>3, <2>4, <2>5, Settles
<1>5. Honest' /\ Reasoned' /\ Reported'
  <2>1. failures' = failures \cup {[i |-> worker[w].i, how |-> how]} /\ UNCHANGED <<fate, results, journal, cursor, outcome>>
    BY <1>1 DEF Fails
  <2>2. Honest'
    BY <1>1, <2>1 DEF Honest
  <2>3. Reasoned' /\ Reported'
    BY <1>0, <2>1 DEF Reasoned, Reported
  <2> QED BY <2>2, <2>3
<1> QED BY <1>2, <1>4, <1>5

-----------------------------------------------------------------------------
(* The other steps.                                                        *)

LEMMA JoinInv == ASSUME IInv, Join PROVE IInv'
<1> USE ForeachAssumption DEF IInv
<1>1. TypeOK'
  <2>1. outcome' \in [kind : {"none", "ok", "cancelled"}] \cup [kind : {"error"}, i : Items]
    <3>1. Failed("error") \subseteq Items
      BY DEF Failed, TypeOK
    <3>2. outcome' = [kind |-> "ok"] \/ outcome' = [kind |-> "cancelled"]
            \/ \E i \in Failed("error") : outcome' = [kind |-> "error", i |-> i]
      BY DEF Join, Report
    <3> QED BY <3>1, <3>2
  <2> QED BY <2>1 DEF TypeOK, Join, bounds
<1>2. OnePlace'
  BY DEF OnePlace, Join, Busy, InHand, Settled
<1>3. Honest' /\ Reasoned'
  BY DEF Honest, Reasoned, Join
<1>4. Reported'
  <2>1. \A w \in Workers : worker'[w].at = "left"
    BY DEF Join, Left
  <2>2. outcome'.kind = "ok" => failures' = {}
    BY DEF Join, Report
  <2>3. ASSUME outcome'.kind = "error"
        PROVE  /\ [i |-> outcome'.i, how |-> "error"] \in failures
               /\ \A f \in failures : f.how = "error" /\ outcome'.i <= f.i
    <3>1. Failed("cancelled") = {}
      BY <2>3 DEF Join, Report
    <3>2. outcome'.i \in Failed("error") /\ \A k \in Failed("error") : outcome'.i <= k
      BY <2>3, <3>1 DEF Join, Report
    <3>3. \A f \in failures : f.how = "error" /\ f = [i |-> f.i, how |-> f.how]
      BY <3>1 DEF Failed, TypeOK
    <3> QED BY <3>2, <3>3 DEF Failed
  <2> QED BY <2>1, <2>2, <2>3 DEF Reported, Join
<1> QED BY <1>1, <1>2, <1>3, <1>4

LEMMA ControlInv == ASSUME IInv, Control PROVE IInv'
<1> USE ForeachAssumption DEF IInv
<1>1. TypeOK'
  BY DEF TypeOK, Control
<1>2. OnePlace' /\ Honest' /\ Reasoned' /\ Reported'
  BY DEF OnePlace, Honest, Reasoned, Reported, Control, Busy, InHand, Settled
<1> QED BY <1>1, <1>2

LEMMA RestartInv == ASSUME IInv, Restart PROVE IInv'
<1> USE ForeachAssumption DEF IInv
<1>1. TypeOK'
  BY DEF TypeOK, Restart, Idle, NoOutcome, bounds, Items
<1>2. OnePlace'
  BY DEF OnePlace, Restart, Busy, InHand, Settled, Idle
<1>3. Honest' /\ Reasoned' /\ Reported'
  BY DEF Honest, Reasoned, Reported, Restart, Idle
<1> QED BY <1>1, <1>2, <1>3

LEMMA StutterInv == ASSUME IInv, UNCHANGED vars PROVE IInv'
<1>1. TypeOK' /\ Honest' /\ Reasoned' /\ Reported'
  BY DEF IInv, TypeOK, Honest, Reasoned, Reported, vars, bounds
<1>2. OnePlace'
  BY DEF IInv, OnePlace, Busy, InHand, Settled, vars
<1> QED BY <1>1, <1>2 DEF IInv

LEMMA NextInv == IInv /\ [Next]_vars => IInv'
<1> SUFFICES ASSUME IInv, [Next]_vars PROVE IInv'
  OBVIOUS
<1>1. ASSUME NEW w \in Workers, WorkerStep(w) PROVE IInv'
  BY <1>1, PullInv, BeginInv, FillInv, FailInv DEF WorkerStep
<1> QED BY <1>1, JoinInv, ControlInv, RestartInv, StutterInv DEF Next

-----------------------------------------------------------------------------
(* What follows.                                                           *)

LEMMA Invariance == Spec => []IInv
BY InitInv, NextInv, PTL DEF Spec

\* Every variable keeps its type.
THEOREM ForeachTypeCorrect == Spec => []TypeOK
BY Invariance, PTL DEF IInv

\* runner.ts executeForeach: every index the workers pulled is in one worker's
\* hands or settled one way, whatever the number of workers.
THEOREM EachInOnePlace == Spec => []OnePlace
BY Invariance, PTL DEF IInv

\* The error of a pool is the one the sequential form would have met first, and
\* an ok pool has filled every slot.
THEOREM SameAsSequential == Spec => []AsSequential
<1>1. IInv => AsSequential
  <2> SUFFICES ASSUME IInv, outcome # NoOutcome PROVE AsSequential
    BY DEF AsSequential, NoOutcome
  <2> USE ForeachAssumption DEF IInv
  <2>1. InHand = {}
    BY DEF Reported, InHand, Busy
  <2>2. Settled = 0..(cursor - 1)
    BY <2>1 DEF OnePlace
  <2>3. ASSUME outcome.kind = "error"
        PROVE  /\ fate[outcome.i] = "fail"
               /\ \A i \in Items : i < outcome.i => fate[i] = "ok"
    <3>1. [i |-> outcome.i, how |-> "error"] \in failures
      BY <2>3 DEF Reported
    <3>2. outcome.i \in Settled
      BY <3>1 DEF Settled
    <3>3. outcome.i < cursor /\ outcome.i \in Nat /\ cursor \in Nat
      BY <3>2, <2>2 DEF TypeOK
    <3>4. ASSUME NEW i \in Items, i < outcome.i PROVE fate[i] = "ok"
      <4>1. i \in Settled
        BY <2>2, <3>3, <3>4 DEF Items
      <4>2. \A f \in failures : f.i # i
        BY <2>3, <3>3, <3>4 DEF Reported, TypeOK, Items
      <4> QED BY <4>1, <4>2 DEF Settled, Honest
    <3> QED BY <3>1, <3>4 DEF Honest
  <2>4. ASSUME outcome.kind = "ok"
        PROVE  results = Items /\ \A i \in Items : fate[i] = "ok"
    <3>1. failures = {}
      BY <2>4 DEF Reported
    <3>2. cursor = N
      BY <3>1 DEF Reported, Reasoned
    <3>3. results = Items
      BY <2>2, <3>1, <3>2 DEF Settled, Items
    <3> QED BY <3>3 DEF Honest
  <2> QED BY <2>3, <2>4 DEF AsSequential
<1> QED BY <1>1, Invariance, PTL

\* No step reports an error of a pool in which a cancel cut anything short.
THEOREM CancellationWins == Spec => CancelWins
<1>1. IInv' => (outcome'.kind = "error" => \A f \in failures : f.how # "cancelled")
              \/ failures' # failures
  BY DEF IInv, Reported, NoOutcome
<1>2. IInv /\ IInv' /\ [Next]_vars
        => [outcome'.kind = "error" => \A f \in failures : f.how # "cancelled"]_vars
  <2> SUFFICES ASSUME IInv, IInv', Next, outcome'.kind = "error", failures' # failures
               PROVE  FALSE
    BY <1>1
  <2>1. ASSUME NEW w \in Workers, WorkerStep(w) PROVE FALSE
    BY <2>1, BusyNoOutcome DEF IInv, WorkerStep, Pull, Begin, Replay, Throws, Cancelled, Returns, Fails, NoOutcome
  <2> QED BY <2>1 DEF Next, Join, Control, Restart, NoOutcome
<1> QED BY <1>2, Invariance, PTL DEF Spec, CancelWins
=============================================================================
