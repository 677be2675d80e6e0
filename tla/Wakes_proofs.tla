---------------------------- MODULE Wakes_proofs ----------------------------
(***************************************************************************)
(* What holds of the wakes of a conversation for any ends, runs and        *)
(* limits, whatever people, drains and crashes do to its turns.            *)
(***************************************************************************)
EXTENDS Wakes, TLAPS, WellFoundedInduction, FiniteSetTheorems, SequenceTheorems

-----------------------------------------------------------------------------
(* The shape of the state                                                  *)

LineOf == [run : Runs, wake : BOOLEAN]
LockOf == [by : {"drain"}, at : {"check", "launch", "write"}, f : Files, changed : BOOLEAN]
Pcs == {"unused", "launched", "open", "committed", "final", "cut", "gone"}

Shape ==
  /\ file \in Files
  /\ turns \in Seq(LineOf)
  /\ summary \in [Runs -> Outcomes \cup {"none"}]
  /\ kind \in [Runs -> {"none", "person", "wake"}]
  /\ carries \in [Runs -> SUBSET Ends]
  /\ pc \in [Runs -> Pcs]
  /\ held \in Runs \cup {NoRun, Other}
  /\ lock \in LockOf \cup {Free}
  /\ taken \in Seq(Ends) /\ capped \subseteq Ends /\ dropped \subseteq Ends /\ excused \in Nat

\* A set of naturals that is not empty has a least element.
LEMMA LessWellFounded ==
  \E R : IsWellFoundedOn(R, Nat) /\ \A x, y \in Nat : <<y, x>> \in R <=> y < x
<1>1. \A x, y \in Nat : <<y, x>> \in OpToRel(<, Nat) <=> y < x
  BY DEF OpToRel
<1> DEFINE R == OpToRel(<, Nat)
<1>2. IsWellFoundedOn(R, Nat)
  BY NatLessThanWellFounded
<1>3. \A x, y \in Nat : <<y, x>> \in R <=> y < x
  BY <1>1
<1> HIDE DEF R
<1> QED BY <1>2, <1>3

\* The turn launched next is the first run not used yet.
LEMMA NextRunIs ==
  ASSUME Unused # {} PROVE NextRun \in Runs /\ pc[NextRun] = "unused"
<1>1. PICK R : IsWellFoundedOn(R, Nat) /\ \A x, y \in Nat : <<y, x>> \in R <=> y < x
  BY LessWellFounded
<1>2. Unused \subseteq Nat
  BY WakesAssumption DEF Unused
<1>3. PICK x \in Unused : \A y \in Unused : ~ (<<y, x>> \in R)
  BY <1>1, <1>2, WFMin
<1>a. \A y \in Unused : ~ (y < x)
  BY <1>1, <1>2, <1>3
<1>4. \A y \in Unused : x <= y
  BY <1>2, <1>a
<1>5. NextRun \in Unused
  BY <1>3, <1>4 DEF NextRun
<1> QED BY <1>5 DEF Unused

\* What is remembered of the ends taken on is the newest of them.
LEMMA NewestIs ==
  ASSUME NEW s \in Seq(Ends)
  PROVE  /\ Newest(s) \in Seq(Ends)
         /\ Len(s) <= SeenMax => Newest(s) = s
         /\ Len(s) > SeenMax => /\ Len(Newest(s)) = SeenMax
                               /\ \A i \in 1..SeenMax : Newest(s)[i] = s[Len(s) - SeenMax + i]
<1>m. SeenMax \in Nat /\ SeenMax > 0 /\ Len(s) \in Nat
  BY WakesAssumption
<1>1. CASE Len(s) <= SeenMax
  BY <1>1, <1>m DEF Newest
<1>2. CASE Len(s) > SeenMax
  <2>1. Newest(s) = SubSeq(s, Len(s) - SeenMax + 1, Len(s))
    BY <1>2, <1>m DEF Newest
  <2>2. /\ Len(s) - SeenMax + 1 \in 1..Len(s) /\ Len(s) \in 1..Len(s)
        /\ Len(s) - (Len(s) - SeenMax + 1) + 1 = SeenMax
    BY <1>2, <1>m
  <2>3. /\ SubSeq(s, Len(s) - SeenMax + 1, Len(s)) \in Seq(Ends)
        /\ Len(SubSeq(s, Len(s) - SeenMax + 1, Len(s))) = SeenMax
        /\ \A i \in 1..SeenMax : SubSeq(s, Len(s) - SeenMax + 1, Len(s))[i] = s[Len(s) - SeenMax + 1 + i - 1]
    BY <1>m, <2>2
  <2>4. \A i \in 1..SeenMax : Len(s) - SeenMax + 1 + i - 1 = Len(s) - SeenMax + i
    BY <1>m
  <2> QED BY <1>2, <1>m, <2>1, <2>3, <2>4
<1> QED BY <1>1, <1>2, <1>m

LEMMA OneMoreIs ==
  ASSUME NEW s \in Seq(Ends), NEW e \in Ends
  PROVE  /\ Append(s, e) \in Seq(Ends) /\ Len(Append(s, e)) = Len(s) + 1
         /\ \A i \in 1..Len(s) : Append(s, e)[i] = s[i]
         /\ Append(s, e)[Len(s) + 1] = e
BY AppendProperties

\* One more end is remembered of what was remembered as it is of all.
LEMMA NewestAgain ==
  ASSUME NEW s \in Seq(Ends), NEW e \in Ends
  PROVE  Newest(Append(Newest(s), e)) = Newest(Append(s, e))
<1>m. SeenMax \in Nat /\ SeenMax > 0 /\ Len(s) \in Nat
  BY WakesAssumption
<1> DEFINE n == Newest(s)
           a == Append(n, e)
           b == Append(s, e)
<1>1. n \in Seq(Ends) /\ a \in Seq(Ends) /\ b \in Seq(Ends) /\ Len(a) = Len(n) + 1 /\ Len(b) = Len(s) + 1
  BY NewestIs
<1>2. CASE Len(s) <= SeenMax
  BY <1>2, NewestIs
<1>3. CASE Len(s) > SeenMax
  <2>1. Len(n) = SeenMax /\ \A i \in 1..SeenMax : n[i] = s[Len(s) - SeenMax + i]
    BY <1>3, NewestIs
  <2> HIDE DEF n
  <2>2. (\A i \in 1..SeenMax : a[i] = n[i]) /\ a[SeenMax + 1] = e
    <3>1. (\A i \in 1..Len(n) : a[i] = n[i]) /\ a[Len(n) + 1] = e
      BY <1>1, OneMoreIs
    <3> QED BY <2>1, <3>1
  <2>3. (\A i \in 1..Len(s) : b[i] = s[i]) /\ b[Len(s) + 1] = e
    BY OneMoreIs
  <2> HIDE DEF a, b
  <2>l. Len(a) = SeenMax + 1 /\ Len(a) > SeenMax /\ Len(b) = Len(s) + 1 /\ Len(b) > SeenMax
    BY <1>1, <1>3, <1>m, <2>1
  <2>4. /\ Newest(a) \in Seq(Ends) /\ Len(Newest(a)) = SeenMax
        /\ \A i \in 1..SeenMax : Newest(a)[i] = a[(SeenMax + 1) - SeenMax + i]
    <3>1. /\ Newest(a) \in Seq(Ends) /\ Len(Newest(a)) = SeenMax
          /\ \A i \in 1..SeenMax : Newest(a)[i] = a[Len(a) - SeenMax + i]
      BY <1>1, <2>l, NewestIs
    <3> QED BY <2>l, <3>1
  <2>5. /\ Newest(b) \in Seq(Ends) /\ Len(Newest(b)) = SeenMax
        /\ \A i \in 1..SeenMax : Newest(b)[i] = b[(Len(s) + 1) - SeenMax + i]
    <3>1. /\ Newest(b) \in Seq(Ends) /\ Len(Newest(b)) = SeenMax
          /\ \A i \in 1..SeenMax : Newest(b)[i] = b[Len(b) - SeenMax + i]
      BY <1>1, <2>l, NewestIs
    <3> QED BY <2>l, <3>1
  <2>6. ASSUME NEW i \in 1..SeenMax PROVE Newest(a)[i] = Newest(b)[i]
    <3>1. Newest(a)[i] = a[i + 1] /\ Newest(b)[i] = b[(Len(s) + 1) - SeenMax + i]
      BY <1>m, <2>4, <2>5
    <3>2. CASE i = SeenMax
      <4>1. i + 1 = SeenMax + 1 /\ (Len(s) + 1) - SeenMax + i = Len(s) + 1
        BY <1>m, <3>2
      <4> QED BY <2>2, <2>3, <3>1, <4>1
    <3>3. CASE i < SeenMax
      <4>1. i + 1 \in 1..SeenMax /\ (Len(s) + 1) - SeenMax + i \in 1..Len(s)
        BY <1>m, <1>3, <3>3
      <4>2. a[i + 1] = n[i + 1] /\ n[i + 1] = s[Len(s) - SeenMax + (i + 1)]
        BY <1>m, <2>1, <2>2, <4>1
      <4>3. b[(Len(s) + 1) - SeenMax + i] = s[(Len(s) + 1) - SeenMax + i]
        BY <1>m, <2>3, <4>1
      <4>4. (Len(s) + 1) - SeenMax + i = Len(s) - SeenMax + (i + 1)
        BY <1>m
      <4> QED BY <3>1, <4>2, <4>3, <4>4
    <3> QED BY <1>m, <3>2, <3>3
  <2>7. Newest(a) = Newest(b)
    BY <2>4, <2>5, <2>6, SeqEqual
  <2> QED BY <2>7 DEF a, b, n
<1> QED BY <1>2, <1>3, <1>m

\* An end taken on that is not among the newest was so SeenMax or more ago.
LEMMA NewestHas ==
  ASSUME NEW s \in Seq(Ends), NEW k \in DOMAIN s, s[k] \notin EndsIn(Newest(s))
  PROVE  k + SeenMax <= Len(s)
<1>m. SeenMax \in Nat /\ SeenMax > 0 /\ Len(s) \in Nat /\ DOMAIN s = 1..Len(s)
  BY WakesAssumption
<1>1. Newest(s) \in Seq(Ends) /\ DOMAIN Newest(s) = 1..Len(Newest(s))
  BY NewestIs
<1>2. \A i \in 1..Len(Newest(s)) : Newest(s)[i] # s[k]
  BY <1>1 DEF EndsIn
<1>3. Len(s) > SeenMax
  BY <1>2, <1>m, NewestIs
<1>4. ASSUME k + SeenMax > Len(s) PROVE FALSE
  <2>1. k - (Len(s) - SeenMax) \in 1..SeenMax
    BY <1>3, <1>4, <1>m
  <2>2. Newest(s)[k - (Len(s) - SeenMax)] = s[Len(s) - SeenMax + (k - (Len(s) - SeenMax))]
    BY <1>3, <2>1, NewestIs
  <2>3. Len(s) - SeenMax + (k - (Len(s) - SeenMax)) = k
    BY <1>m
  <2> QED BY <1>2, <1>3, <2>1, <2>2, <2>3, NewestIs
<1> QED BY <1>4, <1>m

\* The ends taken on.
TakenOn == EndsIn(taken)

LEMMA OneMoreTaken ==
  ASSUME taken \in Seq(Ends), NEW e \in Ends, taken' = Append(taken, e)
  PROVE  /\ taken' \in Seq(Ends) /\ TakenOn' = TakenOn \cup {e} /\ Forgotten \subseteq Forgotten'
         /\ e \in TakenOn /\ e \notin EndsIn(Newest(taken)) => e \in Forgotten'
<1>m. SeenMax \in Nat /\ Len(taken) \in Nat /\ DOMAIN taken = 1..Len(taken)
  BY WakesAssumption
<1>1. /\ taken' \in Seq(Ends) /\ Len(taken') = Len(taken) + 1 /\ DOMAIN taken' = 1..(Len(taken) + 1)
      /\ \A i \in 1..Len(taken) : taken'[i] = taken[i]
      /\ taken'[Len(taken) + 1] = e
  BY <1>m
<1>2. TakenOn' = TakenOn \cup {e}
  BY <1>1, <1>m DEF TakenOn, EndsIn
<1>3. Forgotten \subseteq Forgotten'
  <2> SUFFICES ASSUME NEW k \in DOMAIN taken, NEW j \in DOMAIN taken, taken[j] = taken[k], k + SeenMax < j
               PROVE  taken[k] \in Forgotten'
    BY DEF Forgotten
  <2>1. k \in DOMAIN taken' /\ j \in DOMAIN taken' /\ taken'[j] = taken'[k] /\ taken'[k] = taken[k]
    BY <1>1, <1>m
  <2> QED BY <2>1 DEF Forgotten
<1>4. ASSUME e \in TakenOn, e \notin EndsIn(Newest(taken)) PROVE e \in Forgotten'
  <2>1. PICK k \in DOMAIN taken : taken[k] = e
    BY <1>4 DEF TakenOn, EndsIn
  <2>2. k + SeenMax < Len(taken) + 1
    BY <1>4, <1>m, <2>1, NewestHas
  <2>3. /\ k \in DOMAIN taken' /\ Len(taken) + 1 \in DOMAIN taken'
        /\ taken'[Len(taken) + 1] = taken'[k] /\ taken'[k] = e
    BY <1>1, <1>m, <2>1
  <2> QED BY <2>2, <2>3 DEF Forgotten
<1> QED BY <1>1, <1>2, <1>3, <1>4

LEMMA NoRunIsNone == NoRun \notin Runs
BY WakesAssumption DEF NoRun

\* The lock of a drain: what it holds, and that it is not free.
LEMMA LockFields ==
  ASSUME NEW l \in LockOf
  PROVE  l # Free /\ l.by = "drain" /\ l.at \in {"check", "launch", "write"} /\ l.f \in Files /\ l.changed \in BOOLEAN
BY DEF LockOf, Free

LEMMA DrainingIs ==
  ASSUME Shape, NEW a, Draining(a) PROVE lock \in LockOf /\ lock.at = a
BY DEF Shape, Draining, Free

LEMMA AfterTurnIs ==
  ASSUME Shape, file.turn # NoRun
  PROVE  /\ AfterTurn \in Files /\ AfterTurn.turn = NoRun /\ AfterTurn.seen = file.seen
         /\ AfterTurn.queued = IF summary[file.turn] \in {"none", "busy"}
                               THEN file.queued \cup carries[file.turn] ELSE file.queued
<1>1. file.turn \in Runs /\ carries[file.turn] \in SUBSET Ends
  BY DEF Shape, Files
<1> QED BY <1>1 DEF Shape, Files, AfterTurn

LEMMA AfterOwnEndIs ==
  ASSUME Shape, NEW r \in Runs
  PROVE  /\ AfterOwnEnd(r) \in Files /\ AfterOwnEnd(r).turn = NoRun /\ AfterOwnEnd(r).seen = file.seen
         /\ AfterOwnEnd(r).queued = IF summary[r] = "busy" THEN file.queued \cup carries[r] ELSE file.queued
<1>1. carries[r] \in SUBSET Ends
  BY DEF Shape
<1> QED BY <1>1 DEF Shape, Files, AfterOwnEnd

\* What a drain takes on when it enters the lock.
LEMMA EnterDoes ==
  ASSUME Shape, DrainEnter
  PROVE  /\ lock = Free
         /\ \/ lock' = Free
            \/ /\ lock' \in LockOf /\ lock'.at \in {"check", "write"}
               /\ \/ file.turn = NoRun /\ lock'.f = file
                  \/ file.turn # NoRun /\ ~ Live(file.turn) /\ lock'.f = AfterTurn
<1>0. lock = Free /\ file \in Files
  BY DEF DrainEnter, Shape
<1>1. CASE file.turn = NoRun
  <2>1. lock' = Free \/ lock' = [by |-> "drain", at |-> "check", f |-> file, changed |-> FALSE]
    BY <1>1 DEF DrainEnter, At
  <2>2. CASE lock' = [by |-> "drain", at |-> "check", f |-> file, changed |-> FALSE]
    BY <1>0, <1>1, <2>2 DEF LockOf
  <2> QED BY <1>0, <2>1, <2>2
<1>2. CASE file.turn # NoRun
  <2>1. \/ lock' = Free
        \/ ~ Live(file.turn) /\ lock' = [by |-> "drain", at |-> "check", f |-> AfterTurn, changed |-> TRUE]
        \/ ~ Live(file.turn) /\ lock' = [by |-> "drain", at |-> "write", f |-> AfterTurn, changed |-> TRUE]
    BY <1>2 DEF DrainEnter, Write, At
  <2>2. AfterTurn \in Files
    BY <1>2, AfterTurnIs
  <2>3. ASSUME NEW a \in {"check", "write"}, ~ Live(file.turn),
               lock' = [by |-> "drain", at |-> a, f |-> AfterTurn, changed |-> TRUE]
        PROVE  lock' \in LockOf /\ lock'.at = a /\ lock'.f = AfterTurn
    BY <2>2, <2>3 DEF LockOf
  <2> QED BY <1>0, <1>2, <2>1, <2>3
<1> QED BY <1>1, <1>2

\* What a drain that holds the lock does with what it would write.
LEMMA CheckedDoes ==
  ASSUME Shape, DrainWaits \/ DrainGoes
  PROVE  /\ lock \in LockOf /\ lock.at = "check"
         /\ \/ lock' = Free
            \/ lock' \in LockOf /\ lock'.at \in {"launch", "write"} /\ lock'.f = lock.f
<1>1. lock \in LockOf /\ lock.at = "check"
  BY DrainingIs DEF DrainWaits, DrainGoes
<1>2. CASE DrainWaits
  <2>1. lock' = [by |-> "drain", at |-> "write", f |-> lock.f, changed |-> TRUE] \/ lock' = Free
    BY <1>2 DEF DrainWaits, Write, At
  <2>2. lock.f \in Files
    BY <1>1, LockFields
  <2>3. CASE lock' = [by |-> "drain", at |-> "write", f |-> lock.f, changed |-> TRUE]
    BY <1>1, <2>2, <2>3 DEF LockOf
  <2> QED BY <1>1, <2>1, <2>3
<1>3. CASE DrainGoes
  BY <1>1, <1>3 DEF DrainGoes, LockOf
<1> QED BY <1>1, <1>2, <1>3

LEMMA DropsDoes ==
  ASSUME Shape, DrainDrops
  PROVE  /\ lock \in LockOf /\ lock.at = "check" /\ lock' \in LockOf /\ lock'.at = "write"
         /\ lock'.f.queued = {} /\ lock'.f.turn = lock.f.turn /\ lock'.f.seen = lock.f.seen
         /\ dropped' = dropped \cup lock.f.queued
<1>1. lock \in LockOf /\ lock.at = "check" /\ lock.f \in Files
  BY DEF DrainDrops, Draining, Shape, Free, LockOf
<1> DEFINE g == [lock.f EXCEPT !.queued = {}]
<1>2. g \in Files /\ g.queued = {} /\ g.turn = lock.f.turn /\ g.seen = lock.f.seen
  BY <1>1 DEF Files
<1>3. lock' = [by |-> "drain", at |-> "write", f |-> g, changed |-> TRUE] /\ dropped' = dropped \cup lock.f.queued
  BY DEF DrainDrops, Write, At
<1> HIDE DEF g
<1> QED BY <1>1, <1>2, <1>3 DEF LockOf

\* A launch takes the first run not used, and will have it on file.
LEMMA LaunchDoes ==
  ASSUME Shape, DrainLaunches
  PROVE  /\ lock \in LockOf /\ lock.at = "launch" /\ lock.f \in Files
         /\ \/ lock' = Free /\ UNCHANGED <<kind, carries, pc>>
            \/ \E r \in Runs :
                 /\ pc[r] = "unused"
                 /\ kind' = [kind EXCEPT ![r] = "wake"]
                 /\ carries' = [carries EXCEPT ![r] = lock.f.queued]
                 /\ pc' = [pc EXCEPT ![r] = "launched"]
                 /\ lock' \in LockOf /\ lock'.at = "write"
                 /\ lock'.f.queued = {} /\ lock'.f.turn = r /\ lock'.f.seen = lock.f.seen
<1>1. lock \in LockOf /\ lock.at = "launch" /\ lock.f \in Files
  BY DEF DrainLaunches, Draining, Shape, Free, LockOf
<1> SUFFICES ASSUME ~ draining
             PROVE  \E r \in Runs :
                 /\ pc[r] = "unused"
                 /\ kind' = [kind EXCEPT ![r] = "wake"]
                 /\ carries' = [carries EXCEPT ![r] = lock.f.queued]
                 /\ pc' = [pc EXCEPT ![r] = "launched"]
                 /\ lock' \in LockOf /\ lock'.at = "write"
                 /\ lock'.f.queued = {} /\ lock'.f.turn = r /\ lock'.f.seen = lock.f.seen
  BY <1>1 DEF DrainLaunches
<1> DEFINE r == NextRun
           g == [lock.f EXCEPT !.queued = {}, !.turn = r]
<1>2. r \in Runs /\ pc[r] = "unused"
  BY NextRunIs DEF DrainLaunches
<1>3. /\ kind' = [kind EXCEPT ![r] = "wake"]
      /\ carries' = [carries EXCEPT ![r] = lock.f.queued]
      /\ pc' = [pc EXCEPT ![r] = "launched"]
      /\ lock' = [by |-> "drain", at |-> "write", f |-> g, changed |-> TRUE]
  BY DEF DrainLaunches, NewRun, Write, At
<1> HIDE DEF r
<1>4. g \in Files /\ g.queued = {} /\ g.turn = r /\ g.seen = lock.f.seen
  BY <1>1, <1>2 DEF Files
<1> HIDE DEF g
<1>5. lock' \in LockOf /\ lock'.at = "write" /\ lock'.f = g
  BY <1>3, <1>4 DEF LockOf
<1> QED BY <1>2, <1>3, <1>4, <1>5

LEMMA PersonDoes ==
  ASSUME Shape, LaunchPerson
  PROVE  \E r \in Runs :
           /\ pc[r] = "unused"
           /\ kind' = [kind EXCEPT ![r] = "person"]
           /\ carries' = [carries EXCEPT ![r] = {}]
           /\ pc' = [pc EXCEPT ![r] = "launched"]
<1>1. NextRun \in Runs /\ pc[NextRun] = "unused"
  BY NextRunIs DEF LaunchPerson
<1> QED BY <1>1 DEF LaunchPerson, NewRun

\* An end that is taken on is queued, or capped.
LEMMA AdmitDoes ==
  ASSUME Shape, NEW e \in Ends, Admit(e)
  PROVE  /\ file' \in Files /\ file'.turn = file.turn /\ file'.seen = Newest(Append(file.seen, e))
         /\ taken' = Append(taken, e)
         /\ \/ file'.queued = file.queued \cup {e} /\ capped' = capped
            \/ /\ file'.queued = file.queued /\ capped' = capped \cup {e}
               /\ excused' = excused /\ file.queued = {}
         /\ excused' \in {excused, excused + 1}
<1> DEFINE no == (file.queued = {} /\ ~PersonInFlight) /\ WakesBefore(anchor[e].turns) >= WakeMax
<1>1. /\ file' = [file EXCEPT !.seen = Newest(Append(@, e)), !.queued = IF no THEN @ ELSE @ \cup {e}]
      /\ capped' = IF no THEN capped \cup {e} ELSE capped
      /\ excused' = IF file.queued = {} /\ ~no /\ WakesBefore(turns) >= WakeMax THEN excused + 1 ELSE excused
      /\ no => file.queued = {}
      /\ taken' = Append(taken, e)
  BY DEF Admit, Put
<1>2. Append(file.seen, e) \in Seq(Ends)
  BY DEF Shape, Files
<1>3. Newest(Append(file.seen, e)) \in Seq(Ends)
  BY <1>2, NewestIs
<1> HIDE DEF no
<1> QED BY <1>1, <1>3 DEF Shape, Files

\* What the end of a wake turn does to the file.
LEMMA OwnEndDoes ==
  ASSUME Shape, NEW r \in Runs, TurnEnded(r)
  PROVE  /\ pc[r] = "final" /\ kind[r] = "wake" /\ lock = Free /\ pc' = [pc EXCEPT ![r] = "gone"]
         /\ file' \in Files /\ file'.seen = file.seen
         /\ \/ file' = file /\ file.turn # r
            \/ /\ file.turn = r /\ file'.turn = NoRun
               /\ file'.queued = IF summary[r] = "busy" THEN file.queued \cup carries[r] ELSE file.queued
<1>1. (file.turn # r /\ file' = file) \/ (file.turn = r /\ file' = AfterOwnEnd(r))
  BY DEF TurnEnded, Put
<1>2. /\ pc[r] = "final" /\ kind[r] = "wake" /\ lock = Free /\ pc' = [pc EXCEPT ![r] = "gone"]
      /\ file \in Files
  BY DEF TurnEnded, Shape
<1>3. CASE file' = AfterOwnEnd(r) /\ file.turn = r
  BY <1>2, <1>3, AfterOwnEndIs
<1> QED BY <1>1, <1>2, <1>3

LEMMA HeardDoes ==
  ASSUME Shape, NEW e \in Ends, Consider(e)
  PROVE  /\ lock = Free /\ anchor[e] # NoAnchor
         /\ \/ UNCHANGED <<file, taken, capped, excused>>
            \/ /\ e \notin EndsIn(file.seen)
               /\ file' \in Files /\ file'.turn = file.turn /\ file'.seen = Newest(Append(file.seen, e))
               /\ taken' = Append(taken, e)
               /\ \/ file'.queued = file.queued \cup {e} /\ capped' = capped
                  \/ /\ file'.queued = file.queued /\ capped' = capped \cup {e}
                     /\ excused' = excused /\ file.queued = {}
               /\ excused' \in {excused, excused + 1}
<1>1. \/ UNCHANGED <<file, taken, capped, excused>>
      \/ e \notin EndsIn(file.seen) /\ Admit(e)
  BY DEF Consider
<1> QED BY <1>1, AdmitDoes DEF Consider

LEMMA WrittenDoes ==
  ASSUME Shape, DrainWrites
  PROVE  lock \in LockOf /\ lock.at = "write" /\ file' = lock.f /\ lock' = Free
BY DrainingIs DEF DrainWrites, Put

\* What a crash, and the scan of the next process, do to the turns.
LEMMA CrashDoes ==
  ASSUME Shape, Crash
  PROVE  /\ pc' \in [Runs -> Pcs]
         /\ \A r \in Runs :
              /\ pc[r] = "launched" => pc'[r] \in {"gone", "cut"}
              /\ pc[r] \in {"open", "committed"} => pc'[r] = "cut"
              /\ pc[r] = "final" => pc'[r] = "gone"
              /\ pc[r] \in {"unused", "cut", "gone"} => pc'[r] = pc[r]
<1>1. PICK unlogged \in SUBSET {r \in Runs : pc[r] = "launched"} :
        pc' = [r \in Runs |-> IF r \in unlogged THEN "gone"
                              ELSE IF pc[r] \in {"launched", "open", "committed"} THEN "cut"
                              ELSE IF pc[r] = "final" THEN "gone"
                              ELSE pc[r]]
  BY DEF Crash
<1>2. pc \in [Runs -> Pcs]
  BY DEF Shape
<1> QED BY <1>1, <1>2 DEF Pcs

LEMMA ScanDoes ==
  ASSUME Shape, Scan
  PROVE  /\ pc' \in [Runs -> Pcs]
         /\ \A r \in Runs : IF pc[r] = "cut" THEN pc'[r] \in {"launched", "gone"} ELSE pc'[r] = pc[r]
<1>1. PICK resumed \in SUBSET {r \in Runs : pc[r] = "cut"} :
        pc' = [r \in Runs |-> IF r \in resumed THEN "launched"
                              ELSE IF pc[r] = "cut" THEN "gone" ELSE pc[r]]
  BY DEF Scan
<1>2. pc \in [Runs -> Pcs]
  BY DEF Shape
<1> QED BY <1>1, <1>2 DEF Pcs

LEMMA ShapeInit == Init => Shape
BY DEF Init, Shape, Files, EmptyFile, NoRun, Free, Pcs, Outcomes

LEMMA ShapeNext == ASSUME Shape, [Next]_vars PROVE Shape'
<1> USE DEF disk, turnVars, queueVars, procVars, bounds, history
<1>1. CASE LaunchPerson
  <2>1. PICK r \in Runs : /\ kind' = [kind EXCEPT ![r] = "person"]
                          /\ carries' = [carries EXCEPT ![r] = {}]
                          /\ pc' = [pc EXCEPT ![r] = "launched"]
    BY <1>1, PersonDoes
  <2> QED BY <1>1, <2>1 DEF LaunchPerson, Shape, Pcs
<1>2. CASE HoldOther \/ ReleaseOther
  BY <1>2 DEF HoldOther, ReleaseOther, Shape
<1>3. ASSUME NEW r \in Runs, OpenSession(r) \/ EndRun(r) PROVE Shape'
  <2>1. summary' \in [Runs -> Outcomes \cup {"none"}] /\ pc' \in [Runs -> Pcs]
    BY <1>3 DEF OpenSession, EndRun, Ended, Shape, Pcs, Outcomes
  <2>2. held' \in Runs \cup {NoRun, Other}
    BY <1>3 DEF OpenSession, EndRun, Shape
  <2> QED BY <1>3, <2>1, <2>2 DEF OpenSession, EndRun, Shape
<1>4. ASSUME NEW r \in Runs, CommitTurn(r) PROVE Shape'
  <2>1. [run |-> r, wake |-> kind[r] = "wake"] \in LineOf
    BY DEF LineOf
  <2>2. turns' \in Seq(LineOf)
    BY <1>4, <2>1, AppendProperties DEF CommitTurn, Shape
  <2> QED BY <1>4, <2>2 DEF CommitTurn, Shape, Pcs
<1>5. ASSUME NEW r \in Runs, TurnEnded(r) PROVE Shape'
  BY <1>5, OwnEndDoes DEF TurnEnded, Shape, Pcs
<1>6. ASSUME NEW r \in Runs, Untrack(r) PROVE Shape'
  BY <1>6 DEF Untrack, Shape, Pcs
<1>7. ASSUME NEW e \in Ends, Consider(e) PROVE Shape'
  <2>1. file' \in Files /\ capped' \subseteq Ends /\ excused' \in Nat
    BY <1>7, HeardDoes DEF Shape
  <2>2. taken' \in Seq(Ends)
    BY <1>7, HeardDoes, OneMoreTaken DEF Shape
  <2> QED BY <1>7, <2>1, <2>2 DEF Consider, Shape
<1>8. CASE DrainEnter
  BY <1>8, EnterDoes DEF DrainEnter, Shape
<1>9. CASE DrainWaits \/ DrainGoes
  BY <1>9, CheckedDoes DEF DrainWaits, DrainGoes, Shape
<1>10. CASE DrainDrops
  <2>1. lock.f.queued \subseteq Ends
    BY <1>10, DropsDoes, LockFields DEF Files
  <2> QED BY <1>10, <2>1, DropsDoes DEF DrainDrops, Shape
<1>11. CASE DrainLaunches
  <2>1. lock.f \in Files
    BY <1>11, LaunchDoes
  <2>2. CASE lock' = Free /\ UNCHANGED <<kind, carries, pc>>
    BY <1>11, <2>2 DEF DrainLaunches, Shape
  <2>3. CASE lock' # Free \/ ~ UNCHANGED <<kind, carries, pc>>
    <3>1. PICK r \in Runs : /\ kind' = [kind EXCEPT ![r] = "wake"]
                            /\ carries' = [carries EXCEPT ![r] = lock.f.queued]
                            /\ pc' = [pc EXCEPT ![r] = "launched"]
                            /\ lock' \in LockOf
      BY <1>11, <2>3, LaunchDoes
    <3>2. lock.f.queued \in SUBSET Ends
      BY <2>1 DEF Files
    <3> QED BY <1>11, <3>1, <3>2 DEF DrainLaunches, Shape, Pcs
  <2> QED BY <2>2, <2>3
<1>12. CASE DrainWrites
  BY <1>12, WrittenDoes, LockFields DEF DrainWrites, Shape
<1>13. CASE Crash
  BY <1>13, CrashDoes DEF Crash, Shape
<1>14. CASE Scan
  BY <1>14, ScanDoes DEF Scan, Shape
<1>15. CASE RetryFires \/ SetDrain \/ LiftDrain \/ Boot \/ UNCHANGED vars
  BY <1>15 DEF RetryFires, SetDrain, LiftDrain, Boot, vars, Shape
<1>16. ASSUME NEW e \in Ends, HearEnd(e) PROVE Shape'
  BY <1>16 DEF HearEnd, Shape
<1> QED BY <1>1, <1>2, <1>3, <1>4, <1>5, <1>6, <1>7, <1>8, <1>9, <1>10, <1>11, <1>12, <1>13,
           <1>14, <1>15, <1>16 DEF Next, RunStep, DrainStep

Flags ==
  /\ up \in BOOLEAN /\ scanned \in BOOLEAN /\ draining \in BOOLEAN
  /\ wanted \in BOOLEAN /\ pending \in BOOLEAN /\ retrying \in BOOLEAN

LEMMA FlagsNext == ASSUME Flags, [Next]_vars PROVE Flags'
<1> USE DEF disk, turnVars, queueVars, procVars, bounds, history
<1>1. up' \in BOOLEAN /\ scanned' \in BOOLEAN /\ draining' \in BOOLEAN
  BY DEF Flags, Next, RunStep, DrainStep, HearEnd, Consider, DrainEnter, DrainWaits, DrainDrops, DrainGoes,
         DrainLaunches, DrainWrites, RetryFires, SetDrain, LiftDrain, Boot, vars, HoldOther, ReleaseOther,
         LaunchPerson, OpenSession, CommitTurn, EndRun, Untrack, TurnEnded, Crash, Scan
<1>2. pending' \in BOOLEAN
  BY DEF Flags, Put, Admit, Next, RunStep, DrainStep, HearEnd, Consider, DrainEnter, DrainWaits, DrainDrops, DrainGoes,
         DrainLaunches, DrainWrites, RetryFires, SetDrain, LiftDrain, Boot, vars, HoldOther, ReleaseOther,
         LaunchPerson, OpenSession, CommitTurn, EndRun, Untrack, TurnEnded, Crash, Scan
<1>3. wanted' \in BOOLEAN
  BY <1>2 DEF Flags, Admit, Next, RunStep, DrainStep, HearEnd, Consider, DrainEnter, DrainWaits, DrainDrops, DrainGoes,
         DrainLaunches, DrainWrites, RetryFires, SetDrain, LiftDrain, Boot, vars, HoldOther, ReleaseOther,
         LaunchPerson, OpenSession, CommitTurn, EndRun, Untrack, TurnEnded, Crash, Scan
<1>4. retrying' \in BOOLEAN
  BY DEF Flags, Next, RunStep, DrainStep, HearEnd, Consider, DrainEnter, DrainWaits, DrainDrops, DrainGoes,
         DrainLaunches, DrainWrites, RetryFires, SetDrain, LiftDrain, Boot, vars, HoldOther, ReleaseOther,
         LaunchPerson, OpenSession, CommitTurn, EndRun, Untrack, TurnEnded, Crash, Scan
<1> QED BY <1>1, <1>2, <1>3, <1>4 DEF Flags

\* The state keeps its shape: the file, the turn lines, and who is inside the
\* lock of the wake file (wake.ts).
THEOREM WakesTypeCorrect == Spec => []TypeOK
<1>1. Init => Shape /\ Flags
  BY ShapeInit DEF Init, Flags
<1>2. (Shape /\ Flags) /\ [Next]_vars => (Shape /\ Flags)'
  BY ShapeNext, FlagsNext
<1>3. Shape /\ Flags => TypeOK
  <2>1. Shape => (lock.by # "free" => lock.f \in Files)
    BY LockFields DEF Shape, Free
  <2>2. LineOf = [run : Runs, wake : BOOLEAN]
    BY DEF LineOf
  <2> QED BY <2>1, <2>2 DEF Shape, Flags, TypeOK, Pcs
<1> QED BY <1>1, <1>2, <1>3, PTL DEF Spec

-----------------------------------------------------------------------------
(* What the runs are, and how far                                          *)

\* How a run's outcome, and the session, follow how far it is.
RunInv ==
  \A r \in Runs :
    /\ pc[r] = "unused" <=> kind[r] = "none"
    /\ pc[r] \notin {"final", "gone"} => summary[r] = "none"
    /\ pc[r] = "final" => summary[r] # "none"
    /\ pc[r] \in {"open", "committed"} => held = r

LEMMA RunInit == Init => RunInv
BY DEF Init, RunInv

\* A launch of either kind: one run leaves the unused.
Launched(r, k, es) ==
  /\ pc[r] = "unused"
  /\ kind' = [kind EXCEPT ![r] = k] /\ carries' = [carries EXCEPT ![r] = es]
  /\ pc' = [pc EXCEPT ![r] = "launched"]

LEMMA RunNext == ASSUME Shape, RunInv, [Next]_vars PROVE RunInv'
<1> USE DEF disk, turnVars, queueVars, procVars, bounds, history
<1>1. ASSUME NEW r \in Runs, NEW k \in {"person", "wake"}, NEW es, Launched(r, k, es),
             UNCHANGED <<summary, held>>
      PROVE  RunInv'
  BY <1>1 DEF Launched, Shape, RunInv, Pcs
<1>2. CASE LaunchPerson
  <2>1. PICK r \in Runs : Launched(r, "person", {})
    BY <1>2, PersonDoes DEF Launched
  <2> QED BY <1>1, <1>2, <2>1 DEF LaunchPerson
<1>3. CASE DrainLaunches
  <2>1. CASE UNCHANGED <<kind, carries, pc>>
    BY <1>3, <2>1 DEF DrainLaunches, RunInv
  <2>2. CASE ~ UNCHANGED <<kind, carries, pc>>
    <3>1. PICK r \in Runs : Launched(r, "wake", lock.f.queued)
      BY <1>3, <2>2, LaunchDoes DEF Launched
    <3> QED BY <1>1, <1>3, <3>1 DEF DrainLaunches
  <2> QED BY <2>1, <2>2
<1>4. CASE HoldOther \/ ReleaseOther
  BY <1>4, WakesAssumption, NoRunIsNone DEF HoldOther, ReleaseOther, RunInv, Shape
<1>5. ASSUME NEW r \in Runs, OpenSession(r) PROVE RunInv'
  BY <1>5, NoRunIsNone DEF OpenSession, Ended, RunInv, Shape
<1>6. ASSUME NEW r \in Runs, CommitTurn(r) PROVE RunInv'
  BY <1>6 DEF CommitTurn, RunInv, Shape
<1>7. ASSUME NEW r \in Runs, EndRun(r) PROVE RunInv'
  BY <1>7, NoRunIsNone DEF EndRun, Ended, RunInv, Shape
<1>8. ASSUME NEW r \in Runs, Untrack(r) PROVE RunInv'
  BY <1>8 DEF Untrack, RunInv, Shape
<1>9. ASSUME NEW r \in Runs, TurnEnded(r) PROVE RunInv'
  BY <1>9 DEF TurnEnded, RunInv, Shape
<1>10. CASE Crash
  <2>1. UNCHANGED <<kind, summary>>
    BY <1>10 DEF Crash
  <2> QED BY <1>10, <2>1, CrashDoes DEF RunInv, Shape, Pcs
<1>11. CASE Scan
  <2>1. UNCHANGED <<kind, summary, held>>
    BY <1>11 DEF Scan
  <2> QED BY <1>11, <2>1, ScanDoes DEF RunInv, Shape, Pcs
<1>12. CASE UNCHANGED <<kind, summary, held, pc>>
  BY <1>12 DEF RunInv
<1> QED BY <1>2, <1>3, <1>4, <1>5, <1>6, <1>7, <1>8, <1>9, <1>10, <1>11, <1>12
        DEF Next, RunStep, DrainStep, HearEnd, Consider, DrainEnter, DrainWaits, DrainDrops, DrainGoes,
            DrainWrites, RetryFires, SetDrain, LiftDrain, Boot, vars

\* A run stays what it was launched as, with what it carries, and its outcome
\* stays once it is on disk.
LEMMA UsedStays ==
  ASSUME Shape, RunInv, [Next]_vars, NEW r \in Runs, kind[r] # "none"
  PROVE  /\ kind'[r] = kind[r] /\ carries'[r] = carries[r]
         /\ summary[r] # "none" => summary'[r] = summary[r]
<1> USE DEF disk, turnVars, queueVars, procVars, bounds, history
<1>0. pc[r] # "unused"
  BY DEF RunInv
<1>1. ASSUME NEW q \in Runs, NEW k, NEW es, Launched(q, k, es), UNCHANGED summary
      PROVE  kind'[r] = kind[r] /\ carries'[r] = carries[r] /\ summary'[r] = summary[r]
  BY <1>0, <1>1 DEF Launched, Shape
<1>2. CASE LaunchPerson
  <2>1. PICK q \in Runs : Launched(q, "person", {})
    BY <1>2, PersonDoes DEF Launched
  <2> QED BY <1>1, <1>2, <2>1 DEF LaunchPerson
<1>3. CASE DrainLaunches
  <2>1. CASE UNCHANGED <<kind, carries, pc>>
    BY <1>3, <2>1 DEF DrainLaunches
  <2>2. CASE ~ UNCHANGED <<kind, carries, pc>>
    <3>1. PICK q \in Runs : Launched(q, "wake", lock.f.queued)
      BY <1>3, <2>2, LaunchDoes DEF Launched
    <3> QED BY <1>1, <1>3, <3>1 DEF DrainLaunches
  <2> QED BY <2>1, <2>2
<1>4. ASSUME NEW q \in Runs, OpenSession(q) \/ EndRun(q)
      PROVE  kind' = kind /\ carries' = carries /\ (summary[r] # "none" => summary'[r] = summary[r])
  BY <1>4 DEF OpenSession, EndRun, Ended, RunInv, Shape
<1>5. CASE UNCHANGED <<kind, summary, carries>>
  BY <1>5
<1> QED BY <1>2, <1>3, <1>4, <1>5
        DEF Next, RunStep, DrainStep, HearEnd, Consider, DrainEnter, DrainWaits, DrainDrops, DrainGoes,
            DrainWrites, RetryFires, SetDrain, LiftDrain, Boot, vars, HoldOther, ReleaseOther,
            CommitTurn, Untrack, TurnEnded, Crash, Scan

-----------------------------------------------------------------------------
(* No end is lost                                                          *)

\* What is on file, and what is about to be: the turn of either is a wake turn,
\* and one that is about to be written is still going.
FileInv ==
  /\ file.turn # NoRun => kind[file.turn] = "wake"
  /\ lock # Free =>
       /\ lock.f.seen = file.seen
       /\ lock.at \in {"check", "launch"} => lock.f.turn = NoRun
       /\ lock.f.turn # NoRun => kind[lock.f.turn] = "wake" /\ Live(lock.f.turn)

LEMMA FileInit == Init => FileInv
BY DEF Init, FileInv, EmptyFile

\* Nothing but the end of a turn, or a crash, takes one from the live.
LEMMA LiveStays ==
  ASSUME Shape, [Next]_vars, NEW r \in Runs, Live(r), lock # Free, lock' # Free, kind[r] = "wake"
  PROVE  Live(r)'
<1> USE DEF disk, turnVars, queueVars, procVars, bounds, history
<1>1. ASSUME NEW q \in Runs, NEW k, NEW es, Launched(q, k, es) PROVE Live(r)'
  BY <1>1 DEF Launched, Shape, Live
<1>2. CASE LaunchPerson
  <2>1. PICK q \in Runs : Launched(q, "person", {})
    BY <1>2, PersonDoes DEF Launched
  <2> QED BY <1>1, <2>1
<1>3. CASE DrainLaunches
  <2>1. CASE pc' = pc
    BY <2>1 DEF Live
  <2>2. CASE pc' # pc
    <3>1. PICK q \in Runs : Launched(q, "wake", lock.f.queued)
      BY <1>3, <2>2, LaunchDoes DEF Launched
    <3> QED BY <1>1, <3>1
  <2> QED BY <2>1, <2>2
<1>4. ASSUME NEW q \in Runs, OpenSession(q) \/ EndRun(q) \/ CommitTurn(q) \/ Untrack(q) PROVE Live(r)'
  BY <1>4 DEF OpenSession, EndRun, Ended, CommitTurn, Untrack, Shape, Live
<1>5. CASE Scan
  BY <1>5, ScanDoes DEF Live
<1>6. CASE UNCHANGED pc
  BY <1>6 DEF Live
<1> QED BY <1>2, <1>3, <1>4, <1>5, <1>6
        DEF Next, RunStep, DrainStep, HearEnd, Consider, DrainEnter, DrainWaits, DrainDrops, DrainGoes,
            DrainWrites, RetryFires, SetDrain, LiftDrain, Boot, vars, HoldOther, ReleaseOther,
            TurnEnded, Crash

\* The steps that touch neither the file nor what a drain holds of it.
LEMMA FileQuiet ==
  ASSUME [Next]_vars,
         ~ \E e \in Ends : Consider(e), ~ \E r \in Runs : TurnEnded(r), ~ DrainStep, ~ Crash
  PROVE  UNCHANGED <<file, lock, taken, capped, dropped, excused>>
<1> USE DEF disk, turnVars, queueVars, procVars, bounds, history
<1> QED BY DEF Next, RunStep, HearEnd, RetryFires, SetDrain, LiftDrain, Boot, vars, HoldOther, ReleaseOther,
               LaunchPerson, OpenSession, CommitTurn, EndRun, Untrack, Scan

LEMMA FileNext == ASSUME Shape, RunInv, FileInv, [Next]_vars PROVE FileInv'
<1> USE DEF disk, turnVars, queueVars, procVars, bounds, history
<1>0. \A r \in Runs : kind[r] = "wake" => kind'[r] = "wake"
  BY UsedStays
<1>t. file.turn \in Runs \cup {NoRun} /\ (lock # Free => lock \in LockOf /\ lock.f.turn \in Runs \cup {NoRun})
  BY LockFields DEF Shape, Files
<1>1. ASSUME NEW e \in Ends, Consider(e) PROVE FileInv'
  <2>1. file'.turn = file.turn /\ lock' = Free
    BY <1>1, HeardDoes DEF Consider
  <2> QED BY <1>0, <1>t, <2>1 DEF FileInv
<1>2. ASSUME NEW r \in Runs, TurnEnded(r) PROVE FileInv'
  <2>1. file'.turn \in {file.turn, NoRun} /\ lock' = Free
    BY <1>2, OwnEndDoes DEF TurnEnded
  <2> QED BY <1>0, <1>t, <2>1 DEF FileInv
<1>3. CASE DrainEnter
  <2>1. file' = file
    BY <1>3 DEF DrainEnter
  <2>2. lock' # Free => lock'.f.turn = NoRun /\ lock'.f.seen = file.seen
    BY <1>3, EnterDoes, AfterTurnIs
  <2> QED BY <1>0, <1>t, <2>1, <2>2 DEF FileInv
<1>4. CASE DrainWaits \/ DrainGoes
  <2>1. file' = file
    BY <1>4 DEF DrainWaits, DrainGoes
  <2>2. lock # Free /\ lock.at = "check" /\ (lock' # Free => lock'.f = lock.f)
    BY <1>4, CheckedDoes, LockFields
  <2> QED BY <1>0, <1>t, <2>1, <2>2 DEF FileInv
<1>5. CASE DrainDrops
  <2>1. file' = file
    BY <1>5 DEF DrainDrops
  <2> QED BY <1>0, <1>t, <1>5, <2>1, DropsDoes, LockFields DEF FileInv
<1>6. CASE DrainLaunches
  <2>1. file' = file /\ lock # Free
    BY <1>6, LaunchDoes, LockFields DEF DrainLaunches
  <2>2. CASE lock' = Free
    BY <1>0, <1>t, <2>1, <2>2 DEF FileInv
  <2>3. CASE lock' # Free
    <3>1. PICK r \in Runs : /\ kind' = [kind EXCEPT ![r] = "wake"] /\ pc' = [pc EXCEPT ![r] = "launched"]
                            /\ lock'.at = "write" /\ lock'.f.turn = r /\ lock'.f.seen = lock.f.seen
      BY <1>6, <2>3, LaunchDoes
    <3>2. kind'[r] = "wake" /\ pc'[r] = "launched"
      BY <3>1 DEF Shape
    <3> QED BY <1>0, <1>t, <2>1, <3>1, <3>2 DEF FileInv, Live
  <2> QED BY <2>2, <2>3
<1>7. CASE DrainWrites
  <2>1. lock # Free /\ file' = lock.f /\ lock' = Free
    BY <1>7, WrittenDoes, LockFields
  <2> QED BY <1>0, <1>t, <2>1 DEF FileInv
<1>8. CASE Crash
  BY <1>0, <1>t, <1>8 DEF FileInv, Crash
<1>9. CASE UNCHANGED <<file, lock>>
  <2>1. lock # Free /\ lock.f.turn # NoRun => Live(lock.f.turn)'
    BY <1>t, <1>9, LiveStays DEF FileInv
  <2> QED BY <1>0, <1>t, <1>9, <2>1 DEF FileInv, Live
<1> QED BY <1>1, <1>2, <1>3, <1>4, <1>5, <1>6, <1>7, <1>8, <1>9, FileQuiet DEF DrainStep

\* The ends taken on that are not lost are queued in it, or carried by
\* its turn, or were carried to an end.
Kept(f, ends, lost, k, c, s) ==
  \A e \in ends \ lost :
    \/ e \in f.queued
    \/ f.turn # NoRun /\ e \in c[f.turn]
    \/ \E r \in Runs : k[r] = "wake" /\ e \in c[r] /\ s[r] \in {"ok", "failed"}

\* No end is lost in the file, nor in what is about to replace it.
CoverInv ==
  /\ Kept(file, TakenOn, capped \cup dropped, kind, carries, summary)
  /\ lock # Free => Kept(lock.f, TakenOn, capped \cup dropped, kind, carries, summary)

LEMMA KeptStays ==
  ASSUME NEW f, f.turn \in Runs \cup {NoRun}, NEW ends, NEW lost, NEW lost2, lost \subseteq lost2,
         NEW k, NEW k2, NEW c, NEW c2, NEW s, NEW s2,
         f.turn # NoRun => k[f.turn] = "wake",
         \A r \in Runs : k[r] = "wake" =>
            k2[r] = "wake" /\ c2[r] = c[r] /\ (s[r] \in {"ok", "failed"} => s2[r] = s[r]),
         Kept(f, ends, lost, k, c, s)
  PROVE  Kept(f, ends, lost2, k2, c2, s2)
<1> SUFFICES ASSUME NEW e \in ends \ lost2
             PROVE  \/ e \in f.queued
                    \/ f.turn # NoRun /\ e \in c2[f.turn]
                    \/ \E r \in Runs : k2[r] = "wake" /\ e \in c2[r] /\ s2[r] \in {"ok", "failed"}
  BY DEF Kept
<1>1. CASE \E r \in Runs : k[r] = "wake" /\ e \in c[r] /\ s[r] \in {"ok", "failed"}
  BY <1>1
<1>2. CASE e \in f.queued \/ (f.turn # NoRun /\ e \in c[f.turn])
  BY <1>2
<1> QED BY <1>1, <1>2 DEF Kept

\* A file that queues more keeps what was kept.
LEMMA KeptMore ==
  ASSUME NEW f, NEW g, NEW ends, NEW lost, NEW k, NEW c, NEW s,
         f.queued \subseteq g.queued,
         g.turn = f.turn \/ (f.turn # NoRun => \A e \in c[f.turn] :
                               \/ e \in g.queued
                               \/ \E r \in Runs : k[r] = "wake" /\ e \in c[r] /\ s[r] \in {"ok", "failed"}),
         Kept(f, ends, lost, k, c, s)
  PROVE  Kept(g, ends, lost, k, c, s)
BY DEF Kept

LEMMA CoverInit == Init => CoverInv
BY DEF Init, CoverInv, Kept, TakenOn, EndsIn

LEMMA CoverNext ==
  ASSUME Shape, RunInv, FileInv, CoverInv, [Next]_vars PROVE CoverInv'
<1> USE DEF disk, turnVars, queueVars, procVars, bounds, history
<1> DEFINE K(f) == Kept(f, TakenOn, capped \cup dropped, kind, carries, summary)
           N(f) == Kept(f, TakenOn', capped' \cup dropped', kind', carries', summary')
<1>0. \A r \in Runs : kind[r] = "wake" =>
         kind'[r] = "wake" /\ carries'[r] = carries[r] /\ (summary[r] \in {"ok", "failed"} => summary'[r] = summary[r])
  BY UsedStays
<1>t. /\ file \in Files /\ file.turn \in Runs \cup {NoRun}
      /\ lock # Free => lock \in LockOf /\ lock.f \in Files /\ lock.f.turn \in Runs \cup {NoRun}
  BY LockFields DEF Shape, Files
<1>g. CoverInv' <=> N(file') /\ (lock' # Free => N(lock'.f))
  BY DEF CoverInv, Free
<1>s. ASSUME NEW f, f.turn \in Runs \cup {NoRun}, f.turn # NoRun => kind[f.turn] = "wake", K(f),
             capped \cup dropped \subseteq capped' \cup dropped', taken' = taken
      PROVE  N(f)
  <2>1. TakenOn' = TakenOn
    BY <1>s DEF TakenOn
  <2> QED BY <1>0, <1>s, <2>1, KeptStays
<1>k. K(file) /\ (lock # Free => K(lock.f))
  BY DEF CoverInv
<1>e. taken' = taken => TakenOn' = TakenOn
  BY DEF TakenOn
<1>w. /\ file.turn # NoRun => kind[file.turn] = "wake"
      /\ lock # Free /\ lock.f.turn # NoRun => kind[lock.f.turn] = "wake"
      /\ lock # Free /\ lock.at \in {"check", "launch"} => lock.f.turn = NoRun
  BY DEF FileInv
<1>1. ASSUME NEW e \in Ends, Consider(e) PROVE CoverInv'
  <2>0. lock' = Free /\ dropped' = dropped
    BY <1>1, HeardDoes DEF Consider
  <2>1. CASE UNCHANGED <<file, taken, capped>>
    BY <1>s, <1>t, <1>k, <1>w, <2>0, <2>1, <1>g
  <2>2. CASE /\ file'.turn = file.turn /\ taken' = Append(taken, e)
             /\ \/ file'.queued = file.queued \cup {e} /\ capped' = capped
                \/ file'.queued = file.queued /\ capped' = capped \cup {e}
    <3>0. TakenOn' = TakenOn \cup {e}
      BY <2>2, OneMoreTaken DEF Shape
    <3>1. Kept(file, TakenOn, capped' \cup dropped', kind', carries', summary')
      BY <1>0, <1>t, <1>k, <1>w, <2>0, <2>2, KeptStays
    <3>2. N(file')
      BY <2>0, <2>2, <3>0, <3>1 DEF Kept
    <3> QED BY <1>g, <2>0, <3>2
  <2> QED BY <1>1, <2>1, <2>2, HeardDoes
<1>2. ASSUME NEW r \in Runs, TurnEnded(r) PROVE CoverInv'
  <2>0. lock' = Free /\ UNCHANGED <<taken, capped, dropped, kind, carries, summary>>
    BY <1>2, OwnEndDoes DEF TurnEnded
  <2>1. summary[r] \in {"ok", "failed", "busy"} /\ kind[r] = "wake"
    <3>1. pc[r] = "final" /\ kind[r] = "wake"
      BY <1>2, OwnEndDoes
    <3> QED BY <3>1 DEF RunInv, Shape, Outcomes
  <2>2. K(file')
    <3>1. CASE file' = file
      BY <1>k, <3>1
    <3>2. CASE file' # file
      <4>1. /\ file'.seen = file.seen /\ file.turn = r
            /\ file'.queued = IF summary[r] = "busy" THEN file.queued \cup carries[r] ELSE file.queued
        BY <1>2, <3>2, OwnEndDoes
      <4>2. \A e \in carries[r] :
               e \in file'.queued \/ \E q \in Runs : kind[q] = "wake" /\ e \in carries[q] /\ summary[q] \in {"ok", "failed"}
        BY <2>1, <4>1
      <4> QED BY <1>k, <4>1, <4>2, KeptMore
    <3> QED BY <3>1, <3>2
  <2>3. N(file')
    BY <1>e, <2>0, <2>2
  <2> QED BY <1>g, <2>0, <2>3
<1>3. CASE DrainEnter
  <2>0. UNCHANGED <<file, taken, capped, dropped, kind, carries, summary>>
    BY <1>3 DEF DrainEnter
  <2>1. lock' # Free => K(lock'.f)
    <3> SUFFICES ASSUME lock' # Free, lock'.f # file PROVE K(lock'.f)
      BY <1>k
    <3>1. file.turn # NoRun /\ ~ Live(file.turn) /\ lock'.f = AfterTurn
      BY <1>3, EnterDoes
    <3>2. /\ lock'.f.seen = file.seen
          /\ lock'.f.queued = IF summary[file.turn] \in {"none", "busy"}
                              THEN file.queued \cup carries[file.turn] ELSE file.queued
      BY <3>1, AfterTurnIs
    <3>3. summary[file.turn] \in {"none", "ok", "failed", "busy"} /\ kind[file.turn] = "wake"
      BY <1>t, <1>w, <3>1 DEF Shape, Outcomes
    <3>4. \A e \in carries[file.turn] :
             \/ e \in lock'.f.queued
             \/ \E q \in Runs : kind[q] = "wake" /\ e \in carries[q] /\ summary[q] \in {"ok", "failed"}
      BY <1>t, <3>1, <3>2, <3>3
    <3>5. file.queued \subseteq lock'.f.queued
      BY <3>2
    <3> QED BY <1>k, <3>2, <3>4, <3>5, KeptMore
  <2> QED BY <1>e, <1>g, <1>k, <2>0, <2>1
<1>4. CASE DrainWaits \/ DrainGoes
  <2>0. UNCHANGED <<file, taken, capped, dropped, kind, carries, summary>>
    BY <1>4 DEF DrainWaits, DrainGoes
  <2>1. lock # Free /\ (lock' # Free => lock'.f = lock.f)
    BY <1>4, CheckedDoes, LockFields
  <2> QED BY <1>e, <1>g, <1>k, <2>0, <2>1
<1>5. CASE DrainDrops
  <2>0. UNCHANGED <<file, taken, capped, kind, carries, summary>>
    BY <1>5 DEF DrainDrops
  <2>1. /\ lock # Free /\ lock'.f.queued = {} /\ lock'.f.turn = lock.f.turn /\ lock'.f.seen = lock.f.seen
        /\ dropped' = dropped \cup lock.f.queued
    BY <1>5, DropsDoes, LockFields
  <2>2. N(file) /\ N(lock.f)
    BY <1>s, <1>t, <1>k, <1>w, <2>0, <2>1
  <2>3. N(lock'.f)
    BY <2>0, <2>1, <2>2 DEF Kept
  <2> QED BY <1>g, <2>0, <2>2, <2>3
<1>6. CASE DrainLaunches
  <2>0. UNCHANGED <<file, taken, capped, dropped, summary>> /\ lock # Free
    BY <1>6, LaunchDoes, LockFields DEF DrainLaunches
  <2>1. N(file) /\ N(lock.f)
    BY <1>s, <1>t, <1>k, <1>w, <2>0
  <2>2. CASE lock' = Free
    BY <1>g, <2>0, <2>1, <2>2
  <2>3. CASE lock' # Free
    <3>1. PICK r \in Runs : /\ carries' = [carries EXCEPT ![r] = lock.f.queued]
                            /\ lock'.f.queued = {} /\ lock'.f.turn = r /\ lock'.f.seen = lock.f.seen
      BY <1>6, <2>3, LaunchDoes
    <3>2. lock.f.turn = NoRun /\ r # NoRun
      BY <1>6, <1>w, <2>0, LaunchDoes, NoRunIsNone
    <3>3. carries'[r] = lock.f.queued
      BY <3>1 DEF Shape
    <3>4. N(lock'.f)
      BY <2>1, <3>1, <3>2, <3>3 DEF Kept
    <3> QED BY <1>g, <2>0, <2>1, <3>4
  <2> QED BY <2>2, <2>3
<1>7. CASE DrainWrites
  <2>0. UNCHANGED <<taken, capped, dropped, kind, carries, summary>>
    BY <1>7 DEF DrainWrites
  <2>1. lock # Free /\ file' = lock.f /\ lock' = Free
    BY <1>7, WrittenDoes, LockFields
  <2> QED BY <1>e, <1>g, <1>k, <2>0, <2>1
<1>8. CASE Crash
  <2>0. UNCHANGED <<file, taken, capped, dropped, kind, carries, summary>> /\ lock' = Free
    BY <1>8 DEF Crash
  <2> QED BY <1>e, <1>g, <1>k, <2>0
<1>9. CASE UNCHANGED <<file, lock, taken, capped, dropped>>
  <2>1. N(file) /\ (lock # Free => N(lock.f))
    BY <1>s, <1>t, <1>k, <1>w, <1>9
  <2> QED BY <1>g, <1>9, <2>1
<1> QED BY <1>1, <1>2, <1>3, <1>4, <1>5, <1>6, <1>7, <1>8, <1>9, FileQuiet DEF DrainStep

LEMMA CoverIsKept == CoverInv => NoEndLost
<1> SUFFICES ASSUME CoverInv, NEW e \in TakenOn \ (capped \cup dropped)
             PROVE  e \in file.queued \/ e \in InFlight(file) \/ FinishedWith(e) # {}
  BY DEF NoEndLost, TakenOn
<1>1. \/ e \in file.queued
      \/ file.turn # NoRun /\ e \in carries[file.turn]
      \/ \E r \in Runs : kind[r] = "wake" /\ e \in carries[r] /\ summary[r] \in {"ok", "failed"}
  BY DEF CoverInv, Kept
<1> QED BY <1>1 DEF InFlight, FinishedWith, WakeRuns

\* An end that strut took on, and did not cap or drop, is on disk until a turn
\* carried it to an end: over crashes at every point between queueing it,
\* launching its turn and removing it (jobEnded, drain and turnEnded in wake.ts).
THEOREM EndsAreKept == Spec => []NoEndLost
<1>1. Init => Shape /\ RunInv /\ FileInv /\ CoverInv
  BY ShapeInit, RunInit, FileInit, CoverInit
<1>2. (Shape /\ RunInv /\ FileInv /\ CoverInv) /\ [Next]_vars => (Shape /\ RunInv /\ FileInv /\ CoverInv)'
  BY ShapeNext, RunNext, FileNext, CoverNext
<1>3. (Shape /\ RunInv /\ FileInv /\ CoverInv) => NoEndLost
  BY CoverIsKept
<1> QED BY <1>1, <1>2, <1>3, PTL DEF Spec

-----------------------------------------------------------------------------
(* How a turn goes on                                                      *)

Lines == RunsIn(turns, DOMAIN turns)

LEMMA LinesGrow ==
  ASSUME Shape, NEW r \in Runs, CommitTurn(r)
  PROVE  /\ Lines' = Lines \cup {r} /\ turns' # <<>>
         /\ turns'[Len(turns')] = [run |-> r, wake |-> kind[r] = "wake"]
         /\ Len(turns') = Len(turns) + 1 /\ \A i \in DOMAIN turns : turns'[i] = turns[i]
<1> DEFINE line == [run |-> r, wake |-> kind[r] = "wake"]
<1>1. line \in LineOf /\ line.run = r
  BY DEF LineOf
<1>2. turns' = Append(turns, line) /\ turns \in Seq(LineOf)
  BY DEF CommitTurn, Shape
<1> HIDE DEF line
<1>3. /\ Len(turns') = Len(turns) + 1 /\ turns'[Len(turns) + 1] = line /\ turns' # <<>>
      /\ \A i \in 1 .. Len(turns) : turns'[i] = turns[i]
  BY <1>1, <1>2, AppendProperties
<1>4. /\ Len(turns) \in Nat /\ DOMAIN turns = 1 .. Len(turns) /\ DOMAIN turns' = 1 .. (Len(turns) + 1)
  BY <1>1, <1>2, AppendProperties, LenProperties
<1>5. Lines' = Lines \cup {r}
  BY <1>1, <1>3, <1>4 DEF Lines, RunsIn
<1> QED BY <1>3, <1>4, <1>5 DEF line

LEMMA LinesStay ==
  ASSUME [Next]_vars, ~ \E r \in Runs : CommitTurn(r) PROVE turns' = turns /\ Lines' = Lines
<1> USE DEF disk, turnVars, queueVars, procVars, bounds, history
<1>1. turns' = turns
  BY DEF Next, RunStep, DrainStep, HearEnd, Consider, DrainEnter, DrainWaits, DrainDrops, DrainGoes, DrainLaunches,
         DrainWrites, RetryFires, SetDrain, LiftDrain, Boot, vars, HoldOther, ReleaseOther, LaunchPerson,
         OpenSession, EndRun, Untrack, TurnEnded, Crash, Scan
<1> QED BY <1>1 DEF Lines

LEMMA SlippedStays ==
  ASSUME [Next]_vars
  PROVE  /\ slipped \subseteq slipped' /\ (~ Crash => slipped' = slipped)
<1> USE DEF disk, turnVars, queueVars, procVars, bounds, history
<1> QED
  BY DEF Next, RunStep, DrainStep, HearEnd, Consider, DrainEnter, DrainWaits, DrainDrops, DrainGoes, DrainLaunches,
         DrainWrites, RetryFires, SetDrain, LiftDrain, Boot, vars, HoldOther, ReleaseOther, LaunchPerson,
         OpenSession, EndRun, Untrack, TurnEnded, Crash, Scan, CommitTurn

\* Where a turn that was launched may go from where it is.
Moves(r) ==
  \/ pc'[r] = pc[r]
  \/ pc[r] = "launched" /\ pc'[r] \in {"open", "final", "gone", "cut"}
  \/ pc[r] = "open" /\ pc'[r] \in {"committed", "final", "cut"}
  \/ pc[r] = "committed" /\ pc'[r] = "final" /\ summary'[r] = "ok"
  \/ pc[r] = "committed" /\ pc'[r] = "cut" /\ r \in slipped'
  \/ pc[r] = "final" /\ pc'[r] = "gone"
  \/ pc[r] = "cut" /\ pc'[r] \in {"launched", "gone"}

LEMMA MovesOn ==
  ASSUME Shape, RunInv, [Next]_vars, NEW r \in Runs, pc[r] # "unused"
  PROVE  Moves(r)
<1> USE DEF disk, turnVars, queueVars, procVars, bounds, history
<1>0. pc \in [Runs -> Pcs] /\ summary \in [Runs -> Outcomes \cup {"none"}]
  BY DEF Shape
<1>1. ASSUME NEW q \in Runs, NEW k, NEW es, Launched(q, k, es) PROVE Moves(r)
  BY <1>0, <1>1 DEF Launched, Moves
<1>2. CASE LaunchPerson
  <2>1. PICK q \in Runs : Launched(q, "person", {})
    BY <1>2, PersonDoes DEF Launched
  <2> QED BY <1>1, <2>1
<1>3. CASE DrainLaunches
  <2>1. CASE pc' = pc
    BY <2>1 DEF Moves
  <2>2. CASE pc' # pc
    <3>1. PICK q \in Runs : Launched(q, "wake", lock.f.queued)
      BY <1>3, <2>2, LaunchDoes DEF Launched
    <3> QED BY <1>1, <3>1
  <2> QED BY <2>1, <2>2
<1>4. ASSUME NEW q \in Runs, OpenSession(q) PROVE Moves(r)
  BY <1>0, <1>4 DEF OpenSession, Ended, Moves
<1>5. ASSUME NEW q \in Runs, EndRun(q) PROVE Moves(r)
  BY <1>0, <1>5 DEF EndRun, Ended, Moves
<1>6. ASSUME NEW q \in Runs, CommitTurn(q) \/ Untrack(q) \/ TurnEnded(q) PROVE Moves(r)
  BY <1>0, <1>6 DEF CommitTurn, Untrack, TurnEnded, Moves
<1>7. CASE Crash
  <2>1. pc[r] = "committed" => r \in slipped'
    BY <1>7 DEF Crash
  <2> QED BY <1>0, <1>7, <2>1, CrashDoes DEF Moves, Pcs
<1>8. CASE Scan
  BY <1>8, ScanDoes DEF Moves
<1>9. CASE pc' = pc
  BY <1>9 DEF Moves
<1> QED BY <1>2, <1>3, <1>4, <1>5, <1>6, <1>7, <1>8, <1>9
        DEF Next, RunStep, DrainStep, HearEnd, Consider, DrainEnter, DrainWaits, DrainDrops, DrainGoes,
            DrainWrites, RetryFires, SetDrain, LiftDrain, Boot, vars, HoldOther, ReleaseOther

\* A turn starts as a person's, or as the wake turn of what was queued.
LEMMA Starts ==
  ASSUME Shape, RunInv, [Next]_vars, NEW r \in Runs, pc[r] = "unused", pc'[r] # "unused"
  PROVE  /\ pc'[r] = "launched"
         /\ \/ LaunchPerson /\ kind'[r] = "person"
            \/ /\ DrainLaunches /\ kind'[r] = "wake" /\ carries'[r] = lock.f.queued
               /\ lock' \in LockOf /\ lock'.at = "write" /\ lock'.f.turn = r /\ lock'.f.queued = {}
<1> USE DEF disk, turnVars, queueVars, procVars, bounds, history
<1>0. pc \in [Runs -> Pcs] /\ kind \in [Runs -> {"none", "person", "wake"}] /\ carries \in [Runs -> SUBSET Ends]
  BY DEF Shape
<1>1. ASSUME NEW q \in Runs, NEW k, NEW es, Launched(q, k, es)
      PROVE  q = r /\ pc'[r] = "launched" /\ kind'[r] = k /\ carries'[r] = es
  BY <1>0, <1>1 DEF Launched
<1>2. CASE LaunchPerson
  <2>1. PICK q \in Runs : Launched(q, "person", {})
    BY <1>2, PersonDoes DEF Launched
  <2> QED BY <1>1, <1>2, <2>1
<1>3. CASE DrainLaunches
  <2>2. pc' # pc
    OBVIOUS
  <2>3. PICK q \in Runs : /\ Launched(q, "wake", lock.f.queued)
                          /\ lock' \in LockOf /\ lock'.at = "write" /\ lock'.f.turn = q /\ lock'.f.queued = {}
    BY <1>3, <2>2, LaunchDoes DEF Launched
  <2> QED BY <1>1, <1>3, <2>3
<1>4. ASSUME NEW q \in Runs, OpenSession(q) \/ EndRun(q) \/ CommitTurn(q) \/ Untrack(q) \/ TurnEnded(q) PROVE FALSE
  BY <1>0, <1>4 DEF OpenSession, EndRun, Ended, CommitTurn, Untrack, TurnEnded
<1>5. CASE Crash
  BY <1>5, CrashDoes
<1>6. CASE Scan
  BY <1>6, ScanDoes
<1>7. CASE pc' = pc
  BY <1>7
<1> QED BY <1>2, <1>3, <1>4, <1>5, <1>6, <1>7
        DEF Next, RunStep, DrainStep, HearEnd, Consider, DrainEnter, DrainWaits, DrainDrops, DrainGoes,
            DrainWrites, RetryFires, SetDrain, LiftDrain, Boot, vars, HoldOther, ReleaseOther

-----------------------------------------------------------------------------
(* Before the boot scan, and in the lock                                   *)

\* Before its boot scan a process does nothing about wakes; after it, no run is
\* left cut.  Whoever is in the lock found the turn on file over for good.
ScanInv ==
  /\ ~ scanned => /\ ~ wanted /\ ~ pending /\ ~ retrying /\ lock = Free
                  /\ \A e \in Ends : anchor[e] = NoAnchor
                  /\ \A r \in Runs : kind[r] = "wake" => ~ Live(r)
  /\ scanned => \A r \in Runs : pc[r] # "cut"
  /\ lock # Free /\ file.turn # NoRun => pc[file.turn] = "gone"

LEMMA ScanInit == Init => ScanInv
BY DEF Init, ScanInv

ScanQuiet == ~ wanted /\ ~ pending /\ ~ retrying /\ lock = Free /\ \A e \in Ends : anchor[e] = NoAnchor

LEMMA QuietNext ==
  ASSUME ~ Early, Shape, ScanInv, [Next]_vars, ~ scanned' PROVE ScanQuiet'
<1> USE DEF disk, turnVars, queueVars, procVars, bounds, history
<1>1. CASE Crash
  BY <1>1 DEF Crash, ScanQuiet
<1>a. ~ Crash => ~ scanned
  BY DEF Next, RunStep, DrainStep, HearEnd, Consider, DrainEnter, DrainWaits, DrainDrops,
         DrainGoes, DrainLaunches, DrainWrites, RetryFires, SetDrain, LiftDrain, Boot, vars, HoldOther, ReleaseOther,
         LaunchPerson, OpenSession, CommitTurn, EndRun, Untrack, TurnEnded, Scan
<1> SUFFICES ASSUME ~ scanned, ScanQuiet, ~ Crash PROVE ScanQuiet'
  BY <1>1, <1>a DEF ScanInv, ScanQuiet
<1>2. \A r \in Runs : ~ TurnEnded(r)
  BY DEF ScanInv, TurnEnded, Live
<1>3. ~ DrainStep
  BY DEF ScanQuiet, Free, DrainStep, DrainEnter, DrainWaits, DrainDrops, DrainGoes, DrainLaunches, DrainWrites, Draining
<1>4. ~ Scan /\ ~ LiftDrain /\ ~ RetryFires /\ \A e \in Ends : ~ HearEnd(e) /\ ~ Consider(e)
  BY DEF Scan, ScanQuiet, LiftDrain, RetryFires, HearEnd, Consider
<1>5. UNCHANGED <<wanted, pending, retrying, lock, anchor>> \/ \E r \in Runs : Untrack(r)
  BY <1>2, <1>3, <1>4 DEF Next, RunStep, SetDrain, Boot, vars, HoldOther, ReleaseOther,
         LaunchPerson, OpenSession, CommitTurn, EndRun
<1>6. CASE UNCHANGED <<wanted, pending, retrying, lock, anchor>>
  BY <1>6 DEF ScanQuiet
<1>7. ASSUME NEW r \in Runs, Untrack(r) PROVE ScanQuiet'
  <2>1. UNCHANGED <<pending, retrying, lock, anchor>> /\ ~ wanted'
    BY <1>7, Zenon DEF ScanQuiet, Untrack
  <2> QED BY <2>1 DEF ScanQuiet
<1> QED BY <1>5, <1>6, <1>7

LEMMA ScanNext ==
  ASSUME ~ Early, Shape, RunInv, FileInv, ScanInv, [Next]_vars PROVE ScanInv'
<1> USE DEF disk, turnVars, queueVars, procVars, bounds, history
<1>1. ~ scanned' => ScanQuiet'
  BY QuietNext
<1>c. CASE Crash
  <2>1. \A r \in Runs : ~ Live(r)'
    BY <1>c, CrashDoes DEF Live, Pcs, Shape
  <2>2. lock' = Free /\ ~ scanned'
    BY <1>c DEF Crash
  <2> QED BY <1>1, <2>1, <2>2 DEF ScanInv, ScanQuiet
<1>s. CASE Scan
  <2>1. \A r \in Runs : pc'[r] # "cut" /\ (pc[r] = "gone" => pc'[r] = "gone")
    BY <1>s, ScanDoes
  <2>2. scanned' /\ UNCHANGED <<lock, file>> /\ file.turn \in Runs \cup {NoRun}
    BY <1>s DEF Scan, Shape, Files
  <2> QED BY <2>1, <2>2 DEF ScanInv
<1> SUFFICES ASSUME ~ Crash, ~ Scan PROVE ScanInv'
  BY <1>c, <1>s
<1>2. scanned' = scanned
  BY DEF Next, RunStep, DrainStep, HearEnd, Consider, DrainEnter, DrainWaits, DrainDrops, DrainGoes, DrainLaunches,
         DrainWrites, RetryFires, SetDrain, LiftDrain, Boot, vars, HoldOther, ReleaseOther, LaunchPerson,
         OpenSession, CommitTurn, EndRun, Untrack, TurnEnded
<1>3. ASSUME ~ scanned, NEW r \in Runs, kind'[r] = "wake" PROVE ~ Live(r)'
  <2>1. lock = Free
    BY <1>3 DEF ScanInv
  <2>2. ~ DrainLaunches
    BY <2>1 DEF DrainLaunches, Draining, Free
  <2>3. pc[r] # "unused"
    <3>1. RunInv'
      BY RunNext
    <3> QED BY <1>3, <2>2, <3>1, Starts DEF RunInv
  <2>4. kind[r] = "wake" /\ ~ Live(r) /\ Moves(r)
    BY <1>3, <2>3, UsedStays, MovesOn DEF RunInv, ScanInv
  <2>5. pc[r] = "cut" => pc'[r] = "cut"
    <3>1. ASSUME NEW q \in Runs, NEW k, NEW es, Launched(q, k, es), pc[r] = "cut" PROVE pc'[r] = "cut"
      BY <3>1 DEF Launched, Shape
    <3>2. CASE LaunchPerson
      <4>1. PICK q \in Runs : Launched(q, "person", {})
        BY <3>2, PersonDoes DEF Launched
      <4> QED BY <3>1, <4>1
    <3>3. ASSUME NEW q \in Runs, OpenSession(q) \/ EndRun(q) \/ CommitTurn(q) \/ Untrack(q) \/ TurnEnded(q),
                 pc[r] = "cut"
          PROVE  pc'[r] = "cut"
      BY <3>3 DEF OpenSession, EndRun, Ended, CommitTurn, Untrack, TurnEnded, Shape
    <3>4. CASE pc' = pc
      BY <3>4
    <3> QED BY <2>2, <3>2, <3>3, <3>4
        DEF Next, RunStep, DrainStep, HearEnd, Consider, DrainEnter, DrainWaits, DrainDrops, DrainGoes,
            DrainWrites, RetryFires, SetDrain, LiftDrain, Boot, vars, HoldOther, ReleaseOther
  <2> QED BY <2>4, <2>5 DEF Live, Moves, Shape, Pcs
<1>4. ASSUME scanned, NEW r \in Runs PROVE pc'[r] # "cut"
  <2>1. ASSUME NEW q \in Runs, NEW k, NEW es, Launched(q, k, es) PROVE pc'[r] # "cut"
    BY <1>4, <2>1 DEF Launched, Shape, ScanInv
  <2>2. CASE LaunchPerson
    <3>1. PICK q \in Runs : Launched(q, "person", {})
      BY <2>2, PersonDoes DEF Launched
    <3> QED BY <2>1, <3>1
  <2>3. CASE DrainLaunches
    <3>1. pc' = pc \/ \E q \in Runs : Launched(q, "wake", lock.f.queued)
      BY <2>3, LaunchDoes DEF Launched
    <3> QED BY <1>4, <2>1, <3>1 DEF ScanInv
  <2>4. ASSUME NEW q \in Runs, OpenSession(q) \/ EndRun(q) \/ CommitTurn(q) \/ Untrack(q) \/ TurnEnded(q)
        PROVE  pc'[r] # "cut"
    BY <1>4, <2>4 DEF OpenSession, EndRun, Ended, CommitTurn, Untrack, TurnEnded, Shape, ScanInv
  <2>5. CASE pc' = pc
    BY <1>4, <2>5 DEF ScanInv
  <2> QED BY <2>2, <2>3, <2>4, <2>5
        DEF Next, RunStep, DrainStep, HearEnd, Consider, DrainEnter, DrainWaits, DrainDrops, DrainGoes,
            DrainWrites, RetryFires, SetDrain, LiftDrain, Boot, vars, HoldOther, ReleaseOther
<1>5. ASSUME lock' # Free, file'.turn # NoRun PROVE pc'[file'.turn] = "gone"
  <2>0. file.turn \in Runs \cup {NoRun}
    BY DEF Shape, Files
  <2>1. file' = file
    <3>1. ~ DrainWrites /\ (\A e \in Ends : ~ Consider(e)) /\ (\A r \in Runs : ~ TurnEnded(r))
      BY <1>5, HeardDoes, OwnEndDoes DEF DrainWrites, Consider, TurnEnded
    <3> QED BY <3>1, FileQuiet DEF DrainStep, DrainEnter, DrainWaits, DrainDrops, DrainGoes, DrainLaunches
  <2>2. pc[file.turn] = "gone"
    <3>1. CASE lock # Free
      BY <1>5, <2>1, <3>1 DEF ScanInv
    <3>2. CASE lock = Free
      <4>1. DrainEnter
        BY <1>5, <3>2, FileQuiet DEF DrainStep, DrainWaits, DrainGoes, DrainDrops, DrainLaunches, DrainWrites,
           Draining, Free, Consider, TurnEnded
      <4>2. scanned
        BY <4>1 DEF DrainEnter, ScanInv
      <4>3. ~ Live(file.turn)
        BY <1>5, <2>1, <4>1, EnterDoes
      <4>4. pc[file.turn] \notin {"unused", "cut"}
        BY <1>5, <2>0, <2>1, <4>2 DEF FileInv, RunInv, ScanInv
      <4> QED BY <1>5, <2>0, <2>1, <4>3, <4>4 DEF Live, Shape, Pcs
    <3> QED BY <3>1, <3>2
  <2>3. file.turn \in Runs /\ Moves(file.turn)
    BY <1>5, <2>0, <2>1, <2>2, MovesOn
  <2> QED BY <2>1, <2>2, <2>3 DEF Moves
<1> QED BY <1>1, <1>2, <1>3, <1>4, <1>5 DEF ScanInv, ScanQuiet

-----------------------------------------------------------------------------
(* The turn lines, and the turn on file                                    *)

\* A turn with a line is at work, done, or slipped; the one at work has the
\* last line.
LineInv ==
  /\ \A r \in Lines : r \in slipped \/ pc[r] = "committed" \/ (pc[r] \in {"final", "gone"} /\ summary[r] = "ok")
  /\ \A r \in Runs : pc[r] = "committed" =>
       turns # <<>> /\ turns[Len(turns)] = [run |-> r, wake |-> kind[r] = "wake"]

LEMMA LinesAreRuns == ASSUME Shape PROVE Lines \subseteq Runs
<1>1. \A i \in DOMAIN turns : turns[i] \in LineOf
  BY ElementOfSeq, LenProperties DEF Shape
<1> QED BY <1>1 DEF Lines, RunsIn, LineOf

LEMMA LineInit == Init => LineInv
BY DEF Init, LineInv, Lines, RunsIn

LEMMA LineNext ==
  ASSUME Shape, RunInv, LineInv, [Next]_vars PROVE LineInv'
<1> USE DEF disk, turnVars, queueVars, procVars, bounds, history
<1>0. Lines \subseteq Runs /\ slipped \subseteq slipped'
  BY LinesAreRuns, SlippedStays
<1>1. ASSUME NEW r \in Lines, r \notin slipped'
      PROVE  pc'[r] = "committed" \/ (pc'[r] \in {"final", "gone"} /\ summary'[r] = "ok")
  <2>1. pc[r] = "committed" \/ (pc[r] \in {"final", "gone"} /\ summary[r] = "ok")
    BY <1>0, <1>1 DEF LineInv
  <2>2. kind[r] # "none" /\ Moves(r)
    BY <1>0, <2>1, MovesOn DEF RunInv
  <2>3. summary[r] = "ok" => summary'[r] = "ok"
    BY <1>0, <2>2, UsedStays
  <2> QED BY <1>1, <2>1, <2>2, <2>3 DEF Moves
<1>2. ASSUME NEW r \in Runs, CommitTurn(r) PROVE LineInv'
  <2>1. pc' = [pc EXCEPT ![r] = "committed"] /\ held = r /\ kind' = kind
    BY <1>2 DEF CommitTurn
  <2>2. \A q \in Runs : pc'[q] = "committed" => q = r
    BY <2>1 DEF RunInv, Shape
  <2>3. pc'[r] = "committed"
    BY <2>1 DEF Shape
  <2> QED BY <1>1, <1>2, <2>1, <2>2, <2>3, LinesGrow DEF LineInv
<1>3. CASE ~ \E r \in Runs : CommitTurn(r)
  <2>1. turns' = turns /\ Lines' = Lines
    BY <1>3, LinesStay
  <2>2. ASSUME NEW r \in Runs, pc'[r] = "committed" PROVE pc[r] = "committed" /\ kind'[r] = kind[r]
    <3>1. pc[r] # "unused"
      BY <2>2, Starts
    <3>2. pc[r] = "committed" \/ (pc[r] = "open" /\ pc'[r] = "committed")
      BY <2>2, <3>1, MovesOn DEF Moves
    <3>3. pc[r] # "open"
      <4> SUFFICES ASSUME pc[r] = "open" PROVE FALSE
        OBVIOUS
      <4>1. ASSUME NEW q \in Runs, NEW k, NEW es, Launched(q, k, es) PROVE FALSE
        BY <2>2, <4>1 DEF Launched, Shape
      <4>2. CASE LaunchPerson \/ DrainLaunches
        <5>1. pc' # pc
          BY <2>2
        <5> QED BY <4>1, <4>2, <5>1, PersonDoes, LaunchDoes DEF Launched
      <4>3. ASSUME NEW q \in Runs, OpenSession(q) \/ EndRun(q) \/ Untrack(q) \/ TurnEnded(q) PROVE FALSE
        BY <2>2, <4>3 DEF OpenSession, EndRun, Ended, Untrack, TurnEnded, Shape
      <4>4. CASE Crash
        BY <2>2, <4>4, CrashDoes
      <4>5. CASE Scan
        BY <2>2, <4>5, ScanDoes
      <4>6. pc' # pc
        BY <2>2
      <4> QED BY <1>3, <4>2, <4>3, <4>4, <4>5, <4>6
          DEF Next, RunStep, DrainStep, HearEnd, Consider, DrainEnter, DrainWaits, DrainDrops, DrainGoes,
              DrainWrites, RetryFires, SetDrain, LiftDrain, Boot, vars, HoldOther, ReleaseOther
    <3> QED BY <3>1, <3>2, <3>3, UsedStays DEF RunInv
  <2> QED BY <1>0, <1>1, <2>1, <2>2 DEF LineInv
<1> QED BY <1>2, <1>3

Going(r) == pc[r] \in {"launched", "open", "committed", "cut"}
LockTurn == IF Draining("write") THEN lock.f.turn ELSE NoRun

\* What each step of the lock does to the turn about to be on file.
LEMMA LockTurnIs ==
  ASSUME Shape
  PROVE  /\ lock = Free => LockTurn = NoRun
         /\ lock # Free => LockTurn = IF lock.at = "write" THEN lock.f.turn ELSE NoRun
BY LockFields DEF Shape, LockTurn, Draining, Free

LEMMA LockTurnPrime ==
  ASSUME Shape'
  PROVE  /\ lock' = Free => LockTurn' = NoRun
         /\ lock' # Free => LockTurn' = IF lock'.at = "write" THEN lock'.f.turn ELSE NoRun
<1>1. lock' # Free => lock'.by = "drain"
  BY LockFields DEF Shape, Free
<1> QED BY <1>1 DEF LockTurn, Draining, Free

\* A wake turn that goes is on file, or about to be.
TurnInv ==
  \A r \in Runs : (kind[r] = "wake" /\ Going(r) /\ r \notin slipped) => (r = file.turn \/ r = LockTurn)

LEMMA TurnInit == Init => TurnInv
BY DEF Init, TurnInv

\* What goes was going, or has just been launched.
LEMMA GoesOn ==
  ASSUME Shape, RunInv, [Next]_vars, NEW r \in Runs, kind'[r] = "wake", Going(r)'
  PROVE  \/ kind[r] = "wake" /\ Going(r) /\ pc[r] # "unused"
         \/ /\ pc[r] = "unused" /\ DrainLaunches /\ carries'[r] = lock.f.queued
            /\ lock' \in LockOf /\ lock'.at = "write" /\ lock'.f.turn = r /\ lock'.f.queued = {}
<1>1. CASE pc[r] = "unused"
  <2>1. pc'[r] # "unused"
    BY DEF Going
  <2> QED BY <1>1, <2>1, Starts
<1>2. CASE pc[r] # "unused"
  <2>1. kind'[r] = kind[r] /\ Moves(r)
    BY <1>2, UsedStays, MovesOn DEF RunInv
  <2> QED BY <1>2, <2>1 DEF Moves, Going
<1> QED BY <1>1, <1>2

LEMMA TurnNext ==
  ASSUME ~ Early, Shape, RunInv, FileInv, ScanInv, TurnInv, [Next]_vars PROVE TurnInv'
<1> USE DEF disk, turnVars, queueVars, procVars, bounds, history
<1>0. Shape'
  BY ShapeNext
<1> SUFFICES ASSUME NEW r \in Runs, kind'[r] = "wake", Going(r)', r \notin slipped'
             PROVE  r = file'.turn \/ r = LockTurn'
  BY DEF TurnInv
<1>r. r # NoRun
  BY NoRunIsNone
<1>1. CASE DrainLaunches /\ lock' \in LockOf /\ lock'.at = "write" /\ lock'.f.turn = r
  BY <1>0, <1>1, LockTurnPrime, LockFields
<1> SUFFICES ASSUME kind[r] = "wake", Going(r), r \notin slipped PROVE r = file'.turn \/ r = LockTurn'
  BY <1>1, GoesOn, SlippedStays
<1>2. r = file.turn \/ r = LockTurn
  BY DEF TurnInv
<1>3. CASE Crash
  <2>1. LockTurn # NoRun => LockTurn \in slipped'
    BY <1>3 DEF Crash, LockTurn
  <2>2. file' = file
    BY <1>3 DEF Crash
  <2> QED BY <1>r, <1>2, <2>1, <2>2
<1>4. ASSUME NEW e \in Ends, Consider(e) PROVE r = file'.turn \/ r = LockTurn'
  <2>1. file'.turn = file.turn /\ lock = Free
    BY <1>4, HeardDoes
  <2> QED BY <1>r, <1>2, <2>1, LockTurnIs
<1>5. ASSUME NEW q \in Runs, TurnEnded(q) PROVE r = file'.turn \/ r = LockTurn'
  <2>1. /\ pc[q] = "final" /\ lock = Free
        /\ file' = file \/ file.turn = q
    BY <1>5, OwnEndDoes
  <2> QED BY <1>r, <1>2, <2>1, LockTurnIs DEF Going
<1>6. CASE DrainEnter
  <2>1. lock = Free /\ file' = file
    BY <1>6 DEF DrainEnter
  <2> QED BY <1>r, <1>2, <2>1, LockTurnIs
<1>7. CASE DrainWaits \/ DrainGoes \/ DrainDrops \/ DrainLaunches
  <2>1. lock # Free /\ lock.at # "write"
    BY <1>7, CheckedDoes, DropsDoes, LaunchDoes, LockFields
  <2>2. file' = file
    BY <1>7 DEF DrainWaits, DrainGoes, DrainDrops, DrainLaunches
  <2> QED BY <1>r, <1>2, <2>1, <2>2, LockTurnIs
<1>8. CASE DrainWrites
  <2>1. lock # Free /\ lock.at = "write" /\ file' = lock.f
    BY <1>8, WrittenDoes, LockFields
  <2>2. r # file.turn
    BY <1>r, <2>1 DEF ScanInv, Going
  <2> QED BY <1>2, <2>1, <2>2, LockTurnIs
<1>9. CASE UNCHANGED <<file, lock>>
  BY <1>2, <1>9 DEF LockTurn, Draining
<1> QED BY <1>3, <1>4, <1>5, <1>6, <1>7, <1>8, <1>9, FileQuiet DEF DrainStep

\* What is queued or carried was taken on, and the newest of that is remembered.
SeenInv ==
  /\ file.seen = Newest(taken)
  /\ file.queued \subseteq TakenOn
  /\ lock # Free => lock.f.queued \subseteq TakenOn
  /\ \A r \in Runs : kind[r] = "wake" => carries[r] \subseteq TakenOn

LEMMA SeenInit == Init => SeenInv
<1>1. << >> \in Seq(Ends) /\ Len(<< >>) = 0 /\ 0 <= SeenMax
  BY WakesAssumption
<1>2. Newest(<< >>) = << >>
  BY <1>1, NewestIs
<1> QED BY <1>2 DEF Init, SeenInv, EmptyFile

LEMMA SeenNext ==
  ASSUME Shape, RunInv, FileInv, SeenInv, [Next]_vars PROVE SeenInv'
<1> USE DEF disk, turnVars, queueVars, procVars, bounds, history
<1>t. file.turn \in Runs \cup {NoRun}
  BY DEF Shape, Files
<1> DEFINE Grown == TakenOn \subseteq TakenOn' /\ file'.queued \subseteq TakenOn' /\ file'.seen = Newest(taken')
<1>k. ASSUME taken' = taken PROVE TakenOn' = TakenOn
  BY <1>k DEF TakenOn
<1>1. Grown
  <2>1. ASSUME NEW e \in Ends, Consider(e) PROVE Grown
    <3>1. CASE UNCHANGED <<file, taken>>
      BY <1>k, <3>1 DEF SeenInv
    <3>2. CASE /\ file'.seen = Newest(Append(file.seen, e)) /\ taken' = Append(taken, e)
               /\ file'.queued \subseteq file.queued \cup {e}
      <4>1. TakenOn' = TakenOn \cup {e} /\ Newest(Append(Newest(taken), e)) = Newest(Append(taken, e))
        BY <3>2, OneMoreTaken, NewestAgain DEF Shape
      <4> QED BY <3>2, <4>1 DEF SeenInv
    <3> QED BY <2>1, <3>1, <3>2, HeardDoes
  <2>2. ASSUME NEW r \in Runs, TurnEnded(r) PROVE Grown
    <3>1. kind[r] = "wake" /\ file'.seen = file.seen /\ file'.queued \subseteq file.queued \cup carries[r]
      BY <2>2, OwnEndDoes
    <3>2. taken' = taken
      BY <2>2 DEF TurnEnded
    <3> QED BY <1>k, <3>1, <3>2 DEF SeenInv
  <2>3. CASE DrainWrites
    <3>1. taken' = taken
      BY <2>3 DEF DrainWrites
    <3> QED BY <1>k, <2>3, <3>1, WrittenDoes, LockFields DEF SeenInv, FileInv
  <2>4. CASE file' = file /\ taken' = taken
    BY <1>k, <2>4 DEF SeenInv
  <2> QED BY <2>1, <2>2, <2>3, <2>4, FileQuiet
      DEF DrainStep, Crash, DrainEnter, DrainWaits, DrainGoes, DrainDrops, DrainLaunches
<1>2. ASSUME NEW r \in Runs, kind'[r] = "wake" PROVE carries'[r] \subseteq TakenOn'
  <2>1. CASE pc[r] = "unused"
    <3>1. pc'[r] # "unused"
      BY <1>2, RunNext DEF RunInv
    <3>2. DrainLaunches /\ carries'[r] = lock.f.queued
      BY <1>2, <2>1, <3>1, Starts
    <3>3. lock # Free
      BY <3>2, LaunchDoes, LockFields
    <3> QED BY <1>1, <3>2, <3>3 DEF SeenInv
  <2>2. CASE pc[r] # "unused"
    BY <1>1, <1>2, <2>2, UsedStays DEF RunInv, SeenInv
  <2> QED BY <2>1, <2>2
<1>3. lock' # Free => lock'.f.queued \subseteq TakenOn'
  <2>1. CASE DrainEnter
    <3>1. lock' # Free => lock'.f.queued \subseteq file.queued \/
                          (file.turn # NoRun /\ lock'.f.queued \subseteq file.queued \cup carries[file.turn])
      BY <2>1, EnterDoes, AfterTurnIs
    <3> QED BY <1>t, <1>1, <3>1 DEF SeenInv, FileInv
  <2>2. CASE DrainWaits \/ DrainGoes
    BY <1>1, <2>2, CheckedDoes, LockFields DEF SeenInv
  <2>3. CASE DrainDrops
    BY <2>3, DropsDoes
  <2>4. CASE DrainLaunches
    BY <1>1, <2>4, LaunchDoes
  <2>5. CASE lock' = lock \/ lock' = Free
    BY <1>1, <2>5 DEF SeenInv
  <2> QED BY <2>1, <2>2, <2>3, <2>4, <2>5, FileQuiet DEF DrainStep, Crash, DrainWrites, Consider, TurnEnded
<1> QED BY <1>1, <1>2, <1>3 DEF SeenInv

-----------------------------------------------------------------------------
(* An end is told once                                                     *)

\* A turn that has told of an end, or may yet.
Tells(r, e) == kind[r] = "wake" /\ e \in carries[r] /\ r \notin slipped /\ (r \in Lines \/ Going(r))

\* An end that r tells of is not queued in f, and no other turn there has it.
Clear(f, c, e, r) == e \notin f.queued /\ (f.turn # NoRun /\ e \in c[f.turn] => f.turn = r)

\* Of the ends not forgotten.
TellInv ==
  \A e \in Ends \ Forgotten, r \in Runs : Tells(r, e) =>
    /\ r = LockTurn \/ Clear(file, carries, e, r)
    /\ lock # Free => Clear(lock.f, carries, e, r)
    /\ \A q \in Runs : Tells(q, e) => q = r

LEMMA TellInit == Init => TellInv
BY DEF Init, TellInv, Tells

\* The turn that a drain launches.
Fresh(r, e) ==
  /\ DrainLaunches /\ e \in lock.f.queued
  /\ lock' \in LockOf /\ lock'.at = "write" /\ lock'.f.turn = r /\ lock'.f.queued = {}
  /\ carries'[r] = lock.f.queued

\* What tells of an end did so before, or has just been launched.
LEMMA ToldBefore ==
  ASSUME Shape, RunInv, LineInv, [Next]_vars, NEW e \in Ends, NEW r \in Runs, Tells(r, e)'
  PROVE  Tells(r, e) \/ Fresh(r, e)
<1>0. kind'[r] = "wake" /\ e \in carries'[r] /\ r \notin slipped /\ (r \in Lines' \/ Going(r)')
  BY SlippedStays DEF Tells
<1>1. CASE Going(r)'
  <2>1. CASE Fresh(r, e)
    BY <2>1
  <2>2. CASE kind[r] = "wake" /\ Going(r) /\ pc[r] # "unused"
    BY <1>0, <2>2, UsedStays DEF Tells
  <2> QED BY <1>0, <1>1, <2>1, <2>2, GoesOn DEF Fresh
<1>2. CASE ~ Going(r)' /\ r \in Lines'
  <2>1. r \in Lines
    <3>1. ASSUME NEW q \in Runs, CommitTurn(q), q = r PROVE FALSE
      BY <1>2, <3>1 DEF CommitTurn, Going, Shape
    <3> QED BY <1>2, <3>1, LinesGrow, LinesStay
  <2>2. pc[r] # "unused"
    BY <1>0, <2>1 DEF LineInv
  <2> QED BY <1>0, <2>1, <2>2, UsedStays DEF Tells, RunInv
<1> QED BY <1>0, <1>1, <1>2

LEMMA TellNext ==
  ASSUME ~ Early, Shape, RunInv, FileInv, ScanInv, LineInv, SeenInv, TellInv, [Next]_vars
  PROVE  TellInv'
<1> USE DEF disk, turnVars, queueVars, procVars, bounds, history
<1>0. Shape'
  BY ShapeNext
<1>t. /\ file \in Files /\ file.turn \in Runs \cup {NoRun}
      /\ lock # Free => lock \in LockOf /\ lock.f \in Files /\ lock.f.turn \in Runs \cup {NoRun}
  BY LockFields DEF Shape, Files
<1>e. Forgotten \subseteq Forgotten'
  <2>1. CASE taken' = taken
    BY <2>1 DEF Forgotten
  <2>2. ASSUME NEW d \in Ends, Consider(d), taken' # taken PROVE Forgotten \subseteq Forgotten'
    BY <2>2, HeardDoes, OneMoreTaken DEF Shape
  <2> QED BY <2>1, <2>2, FileQuiet DEF DrainStep, Crash, DrainEnter, DrainWaits, DrainGoes, DrainDrops, DrainLaunches,
            DrainWrites, TurnEnded
\* One turn tells of an end, and the drain that launches it found no other.
<1>1. ASSUME NEW e \in Ends \ Forgotten, NEW r \in Runs, Fresh(r, e) PROVE ~ \E q \in Runs : Tells(q, e)
  BY <1>1, LaunchDoes, LockFields DEF Fresh, TellInv, Clear
<1>2. ASSUME NEW e \in Ends \ Forgotten, NEW r \in Runs, NEW q \in Runs, Tells(r, e)', Tells(q, e)' PROVE q = r
  <2>1. CASE Tells(r, e) /\ Tells(q, e)
    BY <2>1 DEF TellInv
  <2>2. CASE Fresh(r, e) /\ Fresh(q, e)
    BY <2>2 DEF Fresh
  <2> QED BY <1>1, <1>2, <2>1, <2>2, ToldBefore
\* What is on file, or about to be, is clear of it.
<1>3. ASSUME NEW e \in Ends \ Forgotten, NEW r \in Runs, Fresh(r, e)
      PROVE  r = LockTurn' /\ (lock' # Free => Clear(lock'.f, carries', e, r))
  BY <1>0, <1>3, LockTurnPrime, LockFields DEF Fresh, Clear
<1>4. ASSUME NEW f, NEW e \in Ends \ Forgotten, NEW r \in Runs, f.turn \in Runs \cup {NoRun}, f.turn # NoRun => kind[f.turn] = "wake",
             Clear(f, carries, e, r)
      PROVE  Clear(f, carries', e, r)
  BY <1>4, UsedStays DEF Clear
<1>f. file.turn # NoRun => kind[file.turn] = "wake"
  BY DEF FileInv
<1>l. lock # Free /\ lock.f.turn # NoRun => kind[lock.f.turn] = "wake"
  BY DEF FileInv
<1>5. ASSUME NEW e \in Ends \ Forgotten, NEW r \in Runs, Tells(r, e), r \notin slipped',
             e \notin Forgotten'
      PROVE  r = LockTurn' \/ Clear(file', carries', e, r)
  <2>r. r # NoRun
    BY NoRunIsNone
  <2>0. r = LockTurn \/ Clear(file, carries', e, r)
    BY <1>4, <1>5, <1>t, <1>f DEF TellInv
  <2>1. CASE Crash
    <3>1. LockTurn # NoRun => LockTurn \in slipped'
      BY <2>1 DEF Crash, LockTurn
    <3>2. file' = file
      BY <2>1 DEF Crash
    <3> QED BY <1>5, <2>r, <2>0, <3>1, <3>2
  <2>2. ASSUME NEW d \in Ends, Consider(d) PROVE Clear(file', carries', e, r)
    <3>1. /\ file'.turn = file.turn /\ lock = Free
          /\ file'.queued \subseteq file.queued \cup {d}
          /\ file' # file => d \notin EndsIn(file.seen) /\ taken' = Append(taken, d)
      BY <2>2, HeardDoes
    <3>2. file' # file => d # e
      <4>1. e \in TakenOn /\ file.seen = Newest(taken)
        BY <1>5 DEF Tells, SeenInv
      <4> QED BY <1>5, <3>1, <4>1, OneMoreTaken DEF Shape
    <3> QED BY <2>r, <2>0, <3>1, <3>2, LockTurnIs DEF Clear
  <2>3. ASSUME NEW q \in Runs, TurnEnded(q) PROVE Clear(file', carries', e, r)
    <3>1. /\ pc[q] = "final" /\ kind[q] = "wake" /\ lock = Free
          /\ \/ file' = file
             \/ /\ file.turn = q /\ file'.turn = NoRun
                /\ file'.queued = IF summary[q] = "busy" THEN file.queued \cup carries[q] ELSE file.queued
      BY <2>3, OwnEndDoes
    <3>2. Clear(file, carries, e, r)
      BY <1>5, <2>r, <3>1, LockTurnIs DEF TellInv
    <3>3. CASE file' = file
      BY <1>4, <1>t, <1>f, <3>2, <3>3
    <3>4. CASE file' # file
      <4>1. q # NoRun
        BY NoRunIsNone
      <4>2. e \in carries[q] => q = r
        BY <3>1, <3>2, <3>4, <4>1 DEF Clear
      <4>3. q = r => summary[q] = "ok"
        BY <1>5, <3>1 DEF Tells, Going, LineInv
      <4> QED BY <3>1, <3>2, <3>4, <4>2, <4>3 DEF Clear
    <3> QED BY <3>3, <3>4
  <2>4. CASE DrainEnter
    BY <2>r, <2>0, <2>4, LockTurnIs DEF DrainEnter
  <2>5. CASE DrainWaits \/ DrainGoes \/ DrainDrops \/ DrainLaunches
    <3>1. lock # Free /\ lock.at # "write"
      BY <2>5, CheckedDoes, DropsDoes, LaunchDoes, LockFields
    <3>2. file' = file
      BY <2>5 DEF DrainWaits, DrainGoes, DrainDrops, DrainLaunches
    <3> QED BY <2>r, <2>0, <3>1, <3>2, LockTurnIs
  <2>6. CASE DrainWrites
    <3>1. lock # Free /\ file' = lock.f
      BY <2>6, WrittenDoes, LockFields
    <3>2. Clear(lock.f, carries, e, r)
      BY <1>5, <3>1 DEF TellInv
    <3> QED BY <1>4, <1>t, <1>l, <3>1, <3>2
  <2>7. CASE UNCHANGED <<file, lock>>
    BY <2>0, <2>7 DEF LockTurn, Draining
  <2> QED BY <2>1, <2>2, <2>3, <2>4, <2>5, <2>6, <2>7, FileQuiet DEF DrainStep
<1>6. ASSUME NEW e \in Ends \ Forgotten, NEW r \in Runs, Tells(r, e), lock' # Free
      PROVE  Clear(lock'.f, carries', e, r)
  <2>1. CASE DrainEnter
    <3>1. lock = Free /\ carries' = carries
      BY <2>1 DEF DrainEnter
    <3>2. Clear(file, carries, e, r)
      BY <1>6, <3>1, LockTurnIs, NoRunIsNone DEF TellInv
    <3>3. CASE lock'.f = file
      BY <3>1, <3>2, <3>3
    <3>4. CASE lock'.f # file
      <4>1. file.turn # NoRun /\ ~ Live(file.turn) /\ lock'.f = AfterTurn
        BY <1>6, <2>1, <3>4, EnterDoes
      <4>2. /\ lock'.f.turn = NoRun
            /\ lock'.f.queued = IF summary[file.turn] \in {"none", "busy"}
                                THEN file.queued \cup carries[file.turn] ELSE file.queued
        BY <4>1, AfterTurnIs
      <4>3. e \in carries[file.turn] => file.turn = r
        BY <3>2, <4>1 DEF Clear
      <4>4. scanned
        BY <2>1 DEF DrainEnter, ScanInv
      <4>5. file.turn = r => summary[r] = "ok"
        BY <1>6, <4>1, <4>4 DEF Tells, Going, LineInv, ScanInv, Live
      <4> QED BY <3>2, <4>2, <4>3, <4>5 DEF Clear
    <3> QED BY <3>3, <3>4
  <2>2. CASE DrainWaits \/ DrainGoes
    <3>1. lock # Free /\ lock'.f = lock.f
      BY <1>6, <2>2, CheckedDoes, LockFields
    <3> QED BY <1>4, <1>6, <1>t, <1>l, <3>1 DEF TellInv
  <2>3. CASE DrainDrops
    <3>1. lock # Free /\ lock.at = "check" /\ lock'.f.queued = {} /\ lock'.f.turn = lock.f.turn
      BY <2>3, DropsDoes, LockFields
    <3>2. lock'.f.turn = NoRun
      BY <3>1 DEF FileInv
    <3> QED BY <3>1, <3>2 DEF Clear
  <2>4. CASE DrainLaunches
    <3>1. PICK q \in Runs : carries' = [carries EXCEPT ![q] = lock.f.queued] /\ lock'.f.queued = {} /\ lock'.f.turn = q
      BY <1>6, <2>4, LaunchDoes
    <3>2. lock # Free /\ carries'[q] = lock.f.queued
      BY <2>4, <3>1, LaunchDoes, LockFields DEF Shape
    <3>3. e \notin lock.f.queued
      BY <1>6, <3>2 DEF TellInv, Clear
    <3> QED BY <3>1, <3>2, <3>3 DEF Clear
  <2>5. CASE lock' = lock
    BY <1>4, <1>6, <1>t, <1>l, <2>5 DEF TellInv
  <2> QED BY <1>6, <2>1, <2>2, <2>3, <2>4, <2>5, FileQuiet DEF DrainStep, Crash, DrainWrites, Consider, TurnEnded
\* A turn launched afresh leaves the others as clear as they were.
<1>7. ASSUME NEW e \in Ends \ Forgotten', NEW r \in Runs, Tells(r, e)'
      PROVE  /\ r = LockTurn' \/ Clear(file', carries', e, r)
             /\ lock' # Free => Clear(lock'.f, carries', e, r)
  <2>1. r \notin slipped'
    BY <1>7 DEF Tells
  <2> QED BY <1>e, <1>3, <1>5, <1>6, <1>7, <2>1, ToldBefore
<1>8. TellInv' <=> \A e \in Ends \ Forgotten', r \in Runs : Tells(r, e)' =>
                     /\ r = LockTurn' \/ Clear(file', carries', e, r)
                     /\ lock' # Free => Clear(lock'.f, carries', e, r)
                     /\ \A q \in Runs : Tells(q, e)' => q = r
  BY DEF TellInv, Free, Clear, NoRun
<1> QED BY <1>e, <1>2, <1>7, <1>8

LEMMA TellIsOnce == Shape /\ TellInv => ToldOnce
<1> SUFFICES ASSUME Shape, TellInv, NEW e \in Ends \ Forgotten PROVE Cardinality(Told(e) \ slipped) <= 1
  BY DEF ToldOnce
<1>1. \A r \in Told(e) \ slipped : r \in Runs /\ Tells(r, e)
  BY DEF Told, WakeRuns, Tells, Lines
<1>2. \A r, q \in Told(e) \ slipped : q = r
  BY <1>1 DEF TellInv
<1>3. CASE Told(e) \ slipped = {}
  BY <1>3, FS_EmptySet
<1>4. CASE Told(e) \ slipped # {}
  <2>1. PICK r : r \in Told(e) \ slipped
    BY <1>4
  <2>2. Told(e) \ slipped = {r}
    BY <1>2, <2>1
  <2> QED BY <2>2, FS_Singleton
<1> QED BY <1>3, <1>4

Turns == Shape /\ RunInv /\ FileInv /\ ScanInv /\ LineInv /\ TurnInv /\ SeenInv /\ TellInv

LEMMA TurnsInit == Init => Turns
BY ShapeInit, RunInit, FileInit, ScanInit, LineInit, TurnInit, SeenInit, TellInit DEF Turns

LEMMA TurnsNext == ASSUME ~ Early, Turns, [Next]_vars PROVE Turns'
BY ShapeNext, RunNext, FileNext, ScanNext, LineNext, TurnNext, SeenNext, TellNext DEF Turns

\* Where nothing is heard before the boot scan, the conversation hears an end in
\* one turn, but for turns a crash let slip, and ends heard of again once SEEN_MAX
\* others were: an end goes again (drain in wake.ts) only when the turn that had it
\* said nothing, whatever was launched, lost or written in between.
THEOREM EndsAreToldOnce == ASSUME ~ Early PROVE Spec => []ToldOnce
<1>1. Turns /\ [Next]_vars => Turns'
  BY TurnsNext
<1>2. Turns => ToldOnce
  BY TellIsOnce DEF Turns
<1> QED BY <1>1, <1>2, TurnsInit, PTL DEF Spec

-----------------------------------------------------------------------------
(* The wake turns in a row                                                 *)

Row(ts) == RunsIn(ts, Trailing(ts))

\* Those that did not slip.
InARow == Row(turns) \ slipped

LEMMA RowIsFinite ==
  ASSUME Shape
  PROVE  /\ IsFiniteSet(InARow) /\ InARow \subseteq Lines /\ Lines \subseteq Runs
         /\ Cardinality(InARow) \in Nat /\ Cardinality(Trailing(turns)) \in Nat
         /\ Cardinality(InARow) <= Cardinality(Trailing(turns))
<1> DEFINE T == Trailing(turns)
           f == [i \in T |-> turns[i].run]
<1>1. Len(turns) \in Nat /\ DOMAIN turns = 1 .. Len(turns)
  BY LenProperties DEF Shape
<1>2. T \subseteq DOMAIN turns
  BY DEF Trailing
<1>3. IsFiniteSet(T) /\ Cardinality(T) \in Nat
  <2>1. IsFiniteSet(1 .. Len(turns))
    BY <1>1, FS_Interval
  <2>2. IsFiniteSet(T)
    BY <1>1, <1>2, <2>1, FS_Subset
  <2> QED BY <2>2, FS_CardinalityType
<1>4. Row(turns) = {turns[i].run : i \in T}
  BY DEF Row, RunsIn
<1> HIDE DEF T
<1>5. f \in Surjection(T, Row(turns))
  BY <1>4 DEF Surjection
<1>6. IsFiniteSet(Row(turns)) /\ Cardinality(Row(turns)) <= Cardinality(T)
  BY <1>3, <1>5, FS_Surjection
<1>7. /\ IsFiniteSet(InARow) /\ Cardinality(InARow) <= Cardinality(Row(turns))
      /\ Cardinality(Row(turns)) \in Nat /\ Cardinality(InARow) \in Nat
  BY <1>6, FS_Subset, FS_CardinalityType DEF InARow
<1>8. InARow \subseteq Lines
  BY <1>2, <1>4 DEF InARow, Lines, RunsIn
<1>9. Cardinality(InARow) <= Cardinality(T)
  BY <1>3, <1>6, <1>7
<1> QED BY <1>3, <1>7, <1>8, <1>9, LinesAreRuns DEF T

\* A turn line is a person's, which starts the count anew, or adds to it.
LEMMA RowGrows ==
  ASSUME Shape, NEW r \in Runs, CommitTurn(r)
  PROVE  Row(turns') = IF kind[r] = "wake" THEN Row(turns) \cup {r} ELSE {}
<1> DEFINE n == Len(turns)
<1>1. /\ turns \in Seq(LineOf) /\ n \in Nat /\ DOMAIN turns = 1 .. n
  BY LenProperties DEF Shape
<1>2. /\ Len(turns') = n + 1 /\ turns'[n + 1] = [run |-> r, wake |-> kind[r] = "wake"]
      /\ \A i \in 1 .. n : turns'[i] = turns[i]
  BY <1>1, LinesGrow
<1>3. DOMAIN turns' = 1 .. (n + 1)
  <2>1. turns' \in Seq(LineOf)
    <3>1. [run |-> r, wake |-> kind[r] = "wake"] \in LineOf
      BY DEF LineOf
    <3> QED BY <1>1, <3>1, AppendProperties DEF CommitTurn
  <2> QED BY <1>2, <2>1, LenProperties
<1>4. turns'[n + 1].run = r /\ (turns'[n + 1].wake <=> kind[r] = "wake")
  <2> DEFINE line == [run |-> r, wake |-> kind[r] = "wake"]
  <2>1. line.run = r /\ line.wake = (kind[r] = "wake")
    OBVIOUS
  <2>2. turns'[n + 1] = line
    BY <1>2
  <2> HIDE DEF line
  <2> QED BY <2>1, <2>2
<1>5. ASSUME NEW i \in 1 .. n PROVE turns'[i].wake <=> turns[i].wake
  <2>1. turns'[i] = turns[i]
    BY <1>2
  <2> QED BY <2>1
<1> HIDE DEF n
<1>6. CASE kind[r] # "wake"
  <2>1. Trailing(turns') = {}
    <3> SUFFICES ASSUME NEW i \in 1 .. (n + 1), \A j \in i .. (n + 1) : turns'[j].wake PROVE FALSE
      BY <1>2, <1>3 DEF Trailing
    <3>1. n + 1 \in i .. (n + 1)
      BY <1>1
    <3> QED BY <1>4, <1>6, <3>1
  <2> QED BY <1>6, <2>1 DEF Row, RunsIn
<1>7. CASE kind[r] = "wake"
  <2>1. n + 1 \in Trailing(turns')
    <3>1. \A j \in (n + 1) .. (n + 1) : j = n + 1
      BY <1>1
    <3>2. n + 1 \in 1 .. (n + 1)
      BY <1>1
    <3> QED BY <1>2, <1>3, <1>4, <1>7, <3>1, <3>2 DEF Trailing
  <2>2. ASSUME NEW i \in 1 .. n PROVE i \in Trailing(turns') <=> i \in Trailing(turns)
    <3>1. i \in 1 .. (n + 1) /\ \A j \in i .. (n + 1) : j = n + 1 \/ j \in i .. n
      BY <1>1, <2>2
    <3>2. \A j \in i .. n : j \in 1 .. n /\ j \in i .. (n + 1)
      BY <1>1, <2>2
    <3>3. (\A j \in i .. (n + 1) : turns'[j].wake) <=> (\A j \in i .. n : turns[j].wake)
      BY <1>4, <1>5, <1>7, <3>1, <3>2
    <3>4. i \in Trailing(turns') <=> \A j \in i .. (n + 1) : turns'[j].wake
      BY <1>2, <1>3, <3>1 DEF Trailing
    <3>5. i \in Trailing(turns) <=> \A j \in i .. n : turns[j].wake
      BY <1>1, <2>2 DEF Trailing, n
    <3> QED BY <3>3, <3>4, <3>5
  <2>3. Trailing(turns') \subseteq 1 .. (n + 1) /\ Trailing(turns) \subseteq 1 .. n
    BY <1>1, <1>3 DEF Trailing
  <2>4. Trailing(turns') = Trailing(turns) \cup {n + 1}
    <3>1. \A i \in 1 .. (n + 1) : i \in 1 .. n \/ i = n + 1
      BY <1>1
    <3>2. \A i \in Trailing(turns) : i \in Trailing(turns')
      BY <2>2, <2>3
    <3>3. \A i \in Trailing(turns') : i = n + 1 \/ i \in Trailing(turns)
      BY <2>2, <2>3, <3>1
    <3> QED BY <2>1, <3>2, <3>3
  <2>5. \A i \in Trailing(turns) : turns'[i].run = turns[i].run
    BY <1>2, <2>3
  <2> QED BY <1>4, <1>7, <2>4, <2>5 DEF Row, RunsIn
<1> QED BY <1>6, <1>7

\* The turn on file that has no line yet, and one for all that is queued, or may be again.
Uncommitted(f, ls) == IF f.turn # NoRun /\ f.turn \notin ls THEN 1 ELSE 0
Waiting(f, sl) == IF f.queued # {} \/ f.turn \in sl THEN 1 ELSE 0
Load(f, ls, sl) == Uncommitted(f, ls) + Waiting(f, sl)

\* Wake turns in a row, and those that may still join them, are at most as many
\* as are allowed.
CountInv ==
  /\ Cardinality(InARow \ {LockTurn}) + Load(file, Lines, slipped) <= WakeMax + excused
  /\ lock # Free => Cardinality(InARow) + Load(lock.f, Lines, slipped) <= WakeMax + excused

\* Only a turn that was launched can slip, and a drain that goes on in the lock
\* has something to launch.
HandInv ==
  /\ \A r \in Runs : pc[r] = "unused" => r \notin slipped
  /\ NoRun \notin slipped
  /\ lock # Free /\ lock.at \in {"check", "launch"} => lock.f.queued # {}

LEMMA HandInit == Init => HandInv
BY DEF Init, HandInv

LEMMA HandNext ==
  ASSUME Shape, RunInv, FileInv, HandInv, [Next]_vars PROVE HandInv'
<1> USE DEF disk, turnVars, queueVars, procVars, bounds, history
<1>1. ASSUME NEW r \in Runs, pc'[r] = "unused" PROVE r \notin slipped' /\ pc[r] = "unused"
  <2>1. pc[r] = "unused"
    BY <1>1, MovesOn DEF Moves
  <2>2. CASE Crash
    <3>1. LockTurn # NoRun => LockTurn \in Runs /\ kind[LockTurn] = "wake"
      BY LockFields DEF LockTurn, Draining, FileInv, Shape, Free, Files
    <3>2. LockTurn # r
      BY <2>1, <3>1, NoRunIsNone DEF RunInv
    <3> QED BY <2>1, <2>2, <3>2 DEF Crash, HandInv, LockTurn
  <2> QED BY <2>1, <2>2, SlippedStays DEF HandInv
<1>2. NoRun \notin slipped'
  <2>1. CASE Crash
    BY <2>1, NoRunIsNone DEF Crash, HandInv
  <2> QED BY <2>1, SlippedStays DEF HandInv
<1>3. lock' # Free /\ lock'.at \in {"check", "launch"} => lock'.f.queued # {}
  <2>1. CASE DrainEnter
    <3> DEFINE g == IF file.turn # NoRun THEN AfterTurn ELSE file
    <3>1. \/ lock' = Free
          \/ g.queued # {} /\ lock' = [by |-> "drain", at |-> "check", f |-> g, changed |-> file.turn # NoRun]
          \/ lock' = [by |-> "drain", at |-> "write", f |-> g, changed |-> TRUE]
      BY <2>1 DEF DrainEnter, At, Write
    <3> HIDE DEF g
    <3> QED BY <3>1
  <2>2. CASE DrainWaits \/ DrainGoes
    BY <2>2, CheckedDoes, LockFields DEF HandInv
  <2>3. CASE DrainDrops
    BY <2>3, DropsDoes
  <2>4. CASE DrainLaunches
    BY <2>4, LaunchDoes
  <2>5. CASE lock' = lock \/ lock' = Free
    BY <2>5 DEF HandInv
  <2> QED BY <2>1, <2>2, <2>3, <2>4, <2>5, FileQuiet DEF DrainStep, Crash, DrainWrites, Consider, TurnEnded
<1> QED BY <1>1, <1>2, <1>3 DEF HandInv

LEMMA CountInit == Init => CountInv
<1> SUFFICES ASSUME Init PROVE CountInv
  OBVIOUS
<1>1. lock = Free /\ slipped = {} /\ turns = <<>> /\ file = EmptyFile /\ excused = 0
  BY DEF Init
<1>2. InARow = {} /\ Lines = {}
  BY <1>1 DEF InARow, Row, RunsIn, Trailing, Lines
<1>3. Cardinality(InARow \ {LockTurn}) = 0
  BY <1>2, FS_EmptySet
<1>4. Load(file, Lines, slipped) = 0
  BY <1>1, <1>2 DEF Load, Uncommitted, Waiting, EmptyFile
<1> QED BY <1>1, <1>3, <1>4, WakesAssumption DEF CountInv

LEMMA LoadIs ==
  ASSUME NEW f, NEW ls, NEW sl
  PROVE  /\ Uncommitted(f, ls) \in {0, 1} /\ Waiting(f, sl) \in {0, 1}
         /\ Load(f, ls, sl) = Uncommitted(f, ls) + Waiting(f, sl) /\ Load(f, ls, sl) \in {0, 1, 2}
BY DEF Load, Uncommitted, Waiting

\* Letting a turn that left no answer go again costs no more than it did.
LEMMA LoadAgain ==
  ASSUME NEW f, NEW g, NEW ls, NEW sl, NoRun \notin sl, f.turn # NoRun, g.turn = NoRun,
         f.turn \notin ls \/ f.turn \in sl \/ (g.queued # {} => f.queued # {})
  PROVE  Load(g, ls, sl) <= Load(f, ls, sl)
BY DEF Load, Uncommitted, Waiting

LEMMA RowStays ==
  ASSUME turns' = turns, slipped' = slipped
  PROVE  InARow' = InARow /\ Lines' = Lines /\ slipped' = slipped
BY DEF InARow, Row, RunsIn, Trailing, Lines

\* What taking on one more end adds to the count.
LEMMA AdmitCounts ==
  ASSUME Shape, NEW e \in Ends, Admit(e)
  PROVE  \/ file'.queued = file.queued /\ excused' = excused
         \/ file.queued # {} /\ excused' = excused
         \/ file'.queued # {} /\ excused' = excused + 1
         \/ /\ Cardinality(Trailing(turns)) + Uncommitted(file, Lines) < WakeMax
            /\ excused' = excused
<1> DEFINE no == (file.queued = {} /\ ~PersonInFlight) /\ WakesBefore(anchor[e].turns) >= WakeMax
<1>1. /\ file' = [file EXCEPT !.seen = Newest(Append(@, e)), !.queued = IF no THEN @ ELSE @ \cup {e}]
      /\ excused' = IF file.queued = {} /\ ~no /\ WakesBefore(turns) >= WakeMax THEN excused + 1 ELSE excused
  BY DEF Admit, Put
<1> HIDE DEF no
<1>2. file'.queued = IF no THEN file.queued ELSE file.queued \cup {e}
  BY <1>1 DEF Shape, Files
<1>3. WakesBefore(turns) = Cardinality(Trailing(turns)) + Uncommitted(file, Lines)
  BY DEF WakesBefore, Uncommitted, Lines
<1>4. WakesBefore(turns) \in Int /\ WakeMax \in Int
  BY <1>3, RowIsFinite, LoadIs, WakesAssumption
<1>5. WakesBefore(turns) >= WakeMax \/ WakesBefore(turns) < WakeMax
  BY <1>4
<1> QED BY <1>1, <1>2, <1>3, <1>5

LEMMA CountNext ==
  ASSUME ~ Early, Turns, HandInv, CountInv, [Next]_vars PROVE CountInv'
<1> USE DEF disk, turnVars, queueVars, procVars, bounds, history
<1>0. /\ Shape /\ RunInv /\ FileInv /\ ScanInv /\ LineInv /\ TurnInv
      /\ Shape' /\ HandInv' /\ Lines \subseteq Runs
  BY TurnsNext, HandNext, LinesAreRuns DEF Turns
<1> DEFINE N == Cardinality(InARow)
           M == WakeMax + excused
<1>n. /\ IsFiniteSet(InARow) /\ InARow \subseteq Lines /\ N \in Nat /\ M \in Nat /\ WakeMax \in Nat /\ excused \in Nat
      /\ N <= Cardinality(Trailing(turns)) /\ Cardinality(Trailing(turns)) \in Nat
  BY <1>0, RowIsFinite, WakesAssumption DEF Shape
<1>z. NoRun \notin Runs /\ InARow \ {NoRun} = InARow /\ NoRun \notin slipped
  BY <1>0, <1>n, NoRunIsNone DEF HandInv
<1>p. CountInv' <=> /\ Cardinality(InARow' \ {LockTurn'}) + Load(file', Lines', slipped') <= WakeMax + excused'
                    /\ lock' # Free => Cardinality(InARow') + Load(lock'.f, Lines', slipped') <= WakeMax + excused'
  BY DEF CountInv, Free
<1>t. /\ file \in Files /\ file.turn \in Runs \cup {NoRun}
      /\ lock # Free => lock \in LockOf /\ lock.f \in Files /\ lock.f.turn \in Runs \cup {NoRun}
  BY <1>0, LockFields DEF Shape, Files
\* A part of those in a row are as many at most.
<1>s. ASSUME NEW S \in SUBSET InARow PROVE Cardinality(S) \in Nat /\ Cardinality(S) <= N
  BY <1>n, FS_Subset, FS_CardinalityType
\* What the invariant says while the lock is free, and while it is held at the check or the launch.
<1>i. /\ LockTurn = NoRun => N + Load(file, Lines, slipped) <= M
      /\ Cardinality(InARow \ {LockTurn}) + Load(file, Lines, slipped) <= M
      /\ lock # Free => N + Load(lock.f, Lines, slipped) <= M
  BY <1>z DEF CountInv
<1>f. ASSUME lock = Free PROVE LockTurn = NoRun
  BY <1>0, <1>f, LockTurnIs
<1>1. ASSUME NEW e \in Ends, Consider(e) PROVE CountInv'
  <2>1. /\ lock = Free /\ lock' = Free /\ LockTurn = NoRun
        /\ InARow' = InARow /\ Lines' = Lines /\ slipped' = slipped
    BY <1>0, <1>1, <1>f, HeardDoes, RowStays DEF Consider
  <2>2. LockTurn' = NoRun
    BY <1>0, <2>1, LockTurnPrime
  <2>3. N + Load(file, Lines, slipped) <= M
    BY <1>i, <2>1
  <2>4. N + Load(file', Lines, slipped) <= WakeMax + excused'
    <3>1. CASE UNCHANGED <<file, excused>>
      BY <2>3, <3>1
    <3>2. CASE Admit(e)
      <4>1. file'.turn = file.turn /\ excused' \in Nat
        BY <1>0, <3>2, AdmitDoes DEF Shape
      <4>2. Uncommitted(file', Lines) = Uncommitted(file, Lines)
        BY <4>1 DEF Uncommitted
      <4>3. /\ Load(file', Lines, slipped) = Uncommitted(file, Lines) + Waiting(file', slipped)
            /\ Load(file, Lines, slipped) = Uncommitted(file, Lines) + Waiting(file, slipped)
            /\ Waiting(file', slipped) \in {0, 1} /\ Waiting(file, slipped) \in {0, 1}
            /\ Uncommitted(file, Lines) \in {0, 1}
        BY <4>2, LoadIs
      <4>4. CASE file'.queued = file.queued /\ excused' = excused
        <5>1. Waiting(file', slipped) = Waiting(file, slipped)
          BY <4>1, <4>4 DEF Waiting
        <5> QED BY <2>3, <4>3, <4>4, <5>1
      <4>5. CASE file.queued # {} /\ excused' = excused
        <5>1. Waiting(file, slipped) = 1
          BY <4>5 DEF Waiting
        <5> QED BY <1>n, <2>3, <4>3, <4>5, <5>1
      <4>6. CASE excused' = excused + 1
        BY <1>n, <2>3, <4>3, <4>6
      <4>7. CASE Cardinality(Trailing(turns)) + Uncommitted(file, Lines) < WakeMax /\ excused' = excused
        BY <1>n, <4>3, <4>7
      <4> QED BY <1>0, <3>2, <4>4, <4>5, <4>6, <4>7, AdmitCounts
    <3> QED BY <1>1, <3>1, <3>2 DEF Consider
  <2> QED BY <1>p, <1>z, <2>1, <2>2, <2>4
<1>2. ASSUME NEW r \in Runs, TurnEnded(r) PROVE CountInv'
  <2>1. /\ lock = Free /\ lock' = Free /\ LockTurn = NoRun /\ excused' = excused
        /\ InARow' = InARow /\ Lines' = Lines /\ slipped' = slipped
    BY <1>0, <1>2, <1>f, OwnEndDoes, RowStays DEF TurnEnded
  <2>2. LockTurn' = NoRun
    BY <1>0, <2>1, LockTurnPrime
  <2>3. N + Load(file, Lines, slipped) <= M
    BY <1>i, <2>1
  <2>4. Load(file', Lines, slipped) <= Load(file, Lines, slipped)
    <3>1. CASE file' = file
      BY <3>1, LoadIs
    <3>2. CASE file' # file
      <4>1. /\ file.turn = r /\ file'.turn = NoRun /\ pc[r] = "final"
            /\ file'.queued = IF summary[r] = "busy" THEN file.queued \cup carries[r] ELSE file.queued
        BY <1>0, <1>2, <3>2, OwnEndDoes
      <4>2. summary[r] = "busy" => r \notin Lines \/ r \in slipped
        BY <1>0, <4>1 DEF LineInv
      <4> QED BY <1>z, <4>1, <4>2, LoadAgain
    <3> QED BY <3>1, <3>2
  <2>5. N + Load(file', Lines, slipped) <= M
    BY <1>n, <2>3, <2>4, LoadIs
  <2> QED BY <1>p, <1>z, <2>1, <2>2, <2>5
<1>3. CASE DrainEnter
  <2>1. /\ lock = Free /\ LockTurn = NoRun /\ excused' = excused /\ file' = file /\ scanned
        /\ InARow' = InARow /\ Lines' = Lines /\ slipped' = slipped
    BY <1>0, <1>3, <1>f, RowStays DEF DrainEnter, ScanInv
  <2>2. LockTurn' = NoRun
    <3>1. CASE lock' = Free
      BY <1>0, <3>1, LockTurnPrime
    <3>2. CASE lock' # Free
      <4>1. lock'.f.turn = NoRun
        BY <1>0, <1>3, <3>2, EnterDoes, AfterTurnIs
      <4> QED BY <1>0, <3>2, <4>1, LockTurnPrime
    <3> QED BY <3>1, <3>2
  <2>3. N + Load(file, Lines, slipped) <= M
    BY <1>i, <2>1
  <2>4. ASSUME lock' # Free PROVE Load(lock'.f, Lines, slipped) <= Load(file, Lines, slipped)
    <3>1. CASE lock'.f = file
      BY <3>1, LoadIs
    <3>2. CASE lock'.f # file
      <4>1. file.turn # NoRun /\ ~ Live(file.turn) /\ lock'.f = AfterTurn
        BY <1>0, <1>3, <2>4, <3>2, EnterDoes
      <4>2. /\ lock'.f.turn = NoRun
            /\ lock'.f.queued = IF summary[file.turn] \in {"none", "busy"}
                                THEN file.queued \cup carries[file.turn] ELSE file.queued
        BY <1>0, <4>1, AfterTurnIs
      <4>3. summary[file.turn] \in {"none", "busy"} => file.turn \notin Lines \/ file.turn \in slipped
        BY <1>0, <4>1 DEF LineInv, Live
      <4> QED BY <1>z, <4>1, <4>2, <4>3, LoadAgain
    <3> QED BY <3>1, <3>2
  <2>5. lock' # Free => N + Load(lock'.f, Lines, slipped) <= M
    BY <1>n, <2>3, <2>4, LoadIs
  <2> QED BY <1>p, <1>z, <2>1, <2>2, <2>3, <2>5
<1>4. CASE DrainWaits \/ DrainGoes \/ DrainDrops
  <2>1. /\ lock # Free /\ lock.at = "check" /\ lock.f.turn = NoRun /\ excused' = excused /\ file' = file
        /\ InARow' = InARow /\ Lines' = Lines /\ slipped' = slipped
    <3>1. lock # Free /\ lock.at = "check"
      BY <1>0, <1>4, CheckedDoes, DropsDoes, LockFields
    <3>2. excused' = excused /\ file' = file /\ turns' = turns /\ slipped' = slipped
      BY <1>4 DEF DrainWaits, DrainGoes, DrainDrops
    <3> QED BY <1>0, <3>1, <3>2, RowStays DEF FileInv
  <2>2. lock' # Free => lock'.f.turn = NoRun /\ (lock'.f.queued = lock.f.queued \/ lock'.f.queued = {})
    BY <1>0, <1>4, <2>1, CheckedDoes, DropsDoes
  <2>3. LockTurn = NoRun /\ LockTurn' = NoRun
    BY <1>0, <2>1, <2>2, LockTurnIs, LockTurnPrime
  <2>4. N + Load(file, Lines, slipped) <= M /\ N + Load(lock.f, Lines, slipped) <= M
    BY <1>i, <2>1, <2>3
  <2>5. lock' # Free => Load(lock'.f, Lines, slipped) <= Load(lock.f, Lines, slipped)
    BY <1>z, <2>1, <2>2 DEF Load, Uncommitted, Waiting
  <2>6. lock' # Free => N + Load(lock'.f, Lines, slipped) <= M
    BY <1>n, <2>4, <2>5, LoadIs
  <2> QED BY <1>p, <1>z, <2>1, <2>3, <2>4, <2>6
<1>5. CASE DrainLaunches
  <2>1. /\ lock # Free /\ lock.at = "launch" /\ lock.f.turn = NoRun /\ excused' = excused /\ file' = file
        /\ lock.f.queued # {} /\ InARow' = InARow /\ Lines' = Lines /\ slipped' = slipped
    <3>1. lock # Free /\ lock.at = "launch"
      BY <1>0, <1>5, LaunchDoes, LockFields
    <3>2. excused' = excused /\ file' = file /\ turns' = turns /\ slipped' = slipped
      BY <1>5 DEF DrainLaunches
    <3> QED BY <1>0, <3>1, <3>2, RowStays DEF FileInv, HandInv
  <2>2. LockTurn = NoRun
    BY <1>0, <2>1, LockTurnIs
  <2>3. N + Load(file, Lines, slipped) <= M /\ N + Load(lock.f, Lines, slipped) <= M
    BY <1>i, <2>1, <2>2
  <2>4. Cardinality(InARow \ {LockTurn'}) + Load(file, Lines, slipped) <= M
    <3>1. Cardinality(InARow \ {LockTurn'}) \in Nat /\ Cardinality(InARow \ {LockTurn'}) <= N
      BY <1>s
    <3> QED BY <1>n, <2>3, <3>1, LoadIs
  <2>5. lock' # Free => N + Load(lock'.f, Lines, slipped) <= M
    <3> SUFFICES ASSUME lock' # Free PROVE N + Load(lock'.f, Lines, slipped) <= M
      OBVIOUS
    <3>1. PICK r \in Runs : pc[r] = "unused" /\ lock'.f.turn = r /\ lock'.f.queued = {}
      BY <1>0, <1>5, LaunchDoes
    <3>2. r \notin slipped
      BY <3>1 DEF HandInv
    <3>3. Waiting(lock'.f, slipped) = 0 /\ Waiting(lock.f, slipped) = 1
      BY <2>1, <3>1, <3>2 DEF Waiting
    <3> QED BY <1>n, <2>3, <3>3, LoadIs
  <2> QED BY <1>p, <2>1, <2>4, <2>5
<1>6. CASE DrainWrites
  <2>1. /\ lock # Free /\ file' = lock.f /\ lock' = Free /\ excused' = excused
        /\ InARow' = InARow /\ Lines' = Lines /\ slipped' = slipped
    <3>1. excused' = excused /\ turns' = turns /\ slipped' = slipped
      BY <1>6 DEF DrainWrites
    <3> QED BY <1>0, <1>6, <3>1, WrittenDoes, LockFields, RowStays
  <2>2. LockTurn' = NoRun
    BY <1>0, <2>1, LockTurnPrime
  <2>3. N + Load(lock.f, Lines, slipped) <= M
    BY <1>i, <2>1
  <2> QED BY <1>p, <1>z, <2>1, <2>2, <2>3
<1>7. ASSUME NEW r \in Runs, CommitTurn(r) PROVE CountInv'
  <2>1. /\ file' = file /\ lock' = lock /\ excused' = excused /\ slipped' = slipped /\ LockTurn' = LockTurn
        /\ pc[r] = "open" /\ kind' = kind
    BY <1>7 DEF CommitTurn, LockTurn, Draining
  <2>2. /\ Lines' = Lines \cup {r}
        /\ InARow' = (IF kind[r] = "wake" THEN Row(turns) \cup {r} ELSE {}) \ slipped
    BY <1>0, <1>7, <2>1, LinesGrow, RowGrows DEF InARow, Row, RunsIn, Trailing
  <2>3. ASSUME NEW f
        PROVE  /\ Load(f, Lines', slipped) <= Load(f, Lines, slipped)
               /\ f.turn = r /\ r # NoRun /\ r \notin Lines => Load(f, Lines', slipped) + 1 = Load(f, Lines, slipped)
    BY <2>2 DEF Load, Uncommitted, Waiting
  <2>4. CASE kind[r] # "wake"
    <3>1. InARow' = {} /\ InARow' \ {LockTurn} = {} /\ Cardinality(InARow') = 0 /\ Cardinality(InARow' \ {LockTurn}) = 0
      BY <2>2, <2>4, FS_EmptySet
    <3>2. Cardinality(InARow \ {LockTurn}) \in Nat
      BY <1>s
    <3>3. Load(file, Lines', slipped) <= M
      BY <1>n, <1>i, <2>3, <3>2, LoadIs
    <3>4. lock # Free => Load(lock.f, Lines', slipped) <= M
      BY <1>n, <1>i, <2>3, LoadIs
    <3> QED BY <1>p, <2>1, <3>1, <3>3, <3>4, LoadIs
  <2>5. CASE kind[r] = "wake" /\ r \in slipped
    <3>1. InARow' = InARow
      BY <2>2, <2>5 DEF InARow
    <3>2. Cardinality(InARow \ {LockTurn}) \in Nat
      BY <1>s
    <3>3. Cardinality(InARow \ {LockTurn}) + Load(file, Lines', slipped) <= M
      BY <1>n, <1>i, <2>3, <3>2, LoadIs
    <3>4. lock # Free => N + Load(lock.f, Lines', slipped) <= M
      BY <1>n, <1>i, <2>3, LoadIs
    <3> QED BY <1>p, <2>1, <3>1, <3>3, <3>4
  <2>6. CASE kind[r] = "wake" /\ r \notin slipped
    <3>1. InARow' = InARow \cup {r}
      BY <2>2, <2>6 DEF InARow
    <3>2. r \notin Lines /\ r \notin InARow /\ r # NoRun
      BY <1>0, <1>n, <1>z, <2>1, <2>6 DEF LineInv
    <3>3. Cardinality(InARow') = N + 1
      BY <1>n, <3>1, <3>2, FS_AddElement
    <3>4. r = file.turn \/ r = LockTurn
      BY <1>0, <2>1, <2>6 DEF TurnInv, Going
    <3>5. CASE r = LockTurn
      <4>1. lock # Free /\ lock.f.turn = r
        BY <1>0, <3>2, <3>5, LockTurnIs
      <4>2. InARow' \ {LockTurn} = InARow \ {LockTurn} /\ Cardinality(InARow \ {LockTurn}) \in Nat
        BY <1>s, <3>1, <3>5
      <4>3. Cardinality(InARow' \ {LockTurn}) + Load(file, Lines', slipped) <= M
        BY <1>n, <1>i, <2>3, <4>2, LoadIs
      <4>4. Load(lock.f, Lines', slipped) + 1 = Load(lock.f, Lines, slipped)
        BY <2>3, <3>2, <4>1
      <4>5. N + 1 + Load(lock.f, Lines', slipped) <= M
        BY <1>n, <1>i, <4>1, <4>4, LoadIs
      <4> QED BY <1>p, <2>1, <3>3, <4>3, <4>5
    <3>6. CASE r = file.turn /\ r # LockTurn
      <4>1. lock = Free
        BY <1>0, <2>1, <3>2, <3>6 DEF ScanInv
      <4>2. LockTurn = NoRun
        BY <1>f, <4>1
      <4>3. InARow' \ {LockTurn} = InARow'
        BY <1>z, <3>1, <3>2, <4>2
      <4>4. Load(file, Lines', slipped) + 1 = Load(file, Lines, slipped)
        BY <2>3, <3>2, <3>6
      <4>5. N + 1 + Load(file, Lines', slipped) <= M
        BY <1>n, <1>i, <4>2, <4>4, LoadIs
      <4> QED BY <1>p, <2>1, <3>3, <4>1, <4>3, <4>5
    <3> QED BY <3>4, <3>5, <3>6
  <2> QED BY <2>4, <2>5, <2>6
<1>8. CASE Crash
  <2>1. /\ file' = file /\ lock' = Free /\ excused' = excused /\ turns' = turns
        /\ slipped' = slipped \cup {r \in Runs : pc[r] = "committed"} \cup ({LockTurn} \ {NoRun})
    BY <1>8 DEF Crash, LockTurn, NoRun
  <2>2. LockTurn' = NoRun
    BY <1>0, <2>1, LockTurnPrime
  <2>3. Lines' = Lines /\ InARow' = Row(turns) \ slipped'
    BY <2>1 DEF Lines, InARow, Row, RunsIn, Trailing
  <2>4. InARow' \subseteq InARow \ {LockTurn} /\ InARow' \ {NoRun} = InARow'
    BY <1>z, <2>1, <2>3 DEF InARow
  <2>5. IsFiniteSet(InARow \ {LockTurn}) /\ Cardinality(InARow \ {LockTurn}) \in Nat
    BY <1>n, <1>s, FS_Subset
  <2>6. IsFiniteSet(InARow') /\ Cardinality(InARow') \in Nat /\ Cardinality(InARow') <= Cardinality(InARow \ {LockTurn})
    BY <2>4, <2>5, FS_Subset, FS_CardinalityType
  <2>7. CASE file.turn \in slipped' => file.turn \in slipped
    <3>1. Load(file, Lines, slipped') = Load(file, Lines, slipped)
      BY <2>1, <2>7 DEF Load, Uncommitted, Waiting
    <3>2. Cardinality(InARow') + Load(file, Lines, slipped') <= M
      BY <1>n, <1>i, <2>5, <2>6, <3>1, LoadIs
    <3> QED BY <1>p, <2>1, <2>2, <2>3, <2>4, <3>2
  <2>8. CASE file.turn \in slipped' /\ file.turn \notin slipped
    <3>1. file.turn # NoRun
      BY <1>0, <2>8 DEF HandInv
    <3>2. file.turn # LockTurn
      <4> SUFFICES ASSUME file.turn = LockTurn PROVE FALSE
        OBVIOUS
      <4>1. lock # Free /\ lock.f.turn = file.turn
        BY <1>0, <3>1, LockTurnIs
      <4>2. pc[file.turn] = "gone" /\ Live(file.turn)
        BY <1>0, <3>1, <4>1 DEF ScanInv, FileInv
      <4> QED BY <4>2 DEF Live
    <3>3. pc[file.turn] = "committed" /\ file.turn \in Runs
      BY <1>t, <2>1, <2>8, <3>1, <3>2
    <3>4. lock = Free
      BY <1>0, <3>1, <3>3 DEF ScanInv
    <3>5. LockTurn = NoRun
      BY <1>f, <3>4
    <3>6. file.turn \in Row(turns)
      <4>1. kind[file.turn] = "wake"
        BY <1>0, <3>1 DEF FileInv
      <4> DEFINE line == [run |-> file.turn, wake |-> kind[file.turn] = "wake"]
      <4>2. turns # <<>> /\ turns[Len(turns)] = line
        BY <1>0, <3>3 DEF LineInv
      <4>3. line.run = file.turn /\ (line.wake <=> kind[file.turn] = "wake")
        OBVIOUS
      <4> HIDE DEF line
      <4>4. Len(turns) \in 1 .. Len(turns) /\ DOMAIN turns = 1 .. Len(turns) /\ Len(turns) \in Nat
        BY <1>0, <4>2, LenProperties, EmptySeq DEF Shape
      <4>5. \A n \in Nat : \A j \in n .. n : j = n
        OBVIOUS
      <4>6. turns[Len(turns)].run = file.turn /\ turns[Len(turns)].wake
        BY <4>1, <4>2, <4>3
      <4>7. Len(turns) \in Trailing(turns)
        <5>1. \A j \in Len(turns) .. Len(turns) : j = Len(turns)
          BY <4>4, <4>5
        <5> QED BY <4>4, <4>6, <5>1 DEF Trailing
      <4> QED BY <4>6, <4>7 DEF Row, RunsIn
    <3>7. file.turn \in InARow /\ InARow' \subseteq InARow \ {file.turn}
      BY <2>1, <2>3, <2>8, <3>6 DEF InARow
    <3>8. Cardinality(InARow \ {file.turn}) = N - 1 /\ IsFiniteSet(InARow \ {file.turn})
      BY <1>n, <3>7, FS_RemoveElement
    <3>9. Cardinality(InARow') <= N - 1
      BY <3>7, <3>8, FS_Subset
    <3>10. Load(file, Lines, slipped') <= Load(file, Lines, slipped) + 1
      BY LoadIs DEF Load, Uncommitted, Waiting
    <3>11. Cardinality(InARow') + Load(file, Lines, slipped') <= M
      BY <1>n, <1>i, <2>6, <3>5, <3>9, <3>10, LoadIs
    <3> QED BY <1>p, <2>1, <2>2, <2>3, <2>4, <3>11
  <2> QED BY <2>7, <2>8
<1>9. CASE /\ ~ Crash /\ ~ \E r \in Runs : CommitTurn(r)
           /\ UNCHANGED <<file, lock, excused>>
  <2>1. InARow' = InARow /\ Lines' = Lines /\ slipped' = slipped
    BY <1>9, LinesStay, SlippedStays, RowStays
  <2>2. LockTurn' = LockTurn
    BY <1>9 DEF LockTurn, Draining
  <2> QED BY <1>p, <1>i, <1>9, <2>1, <2>2
<1> QED BY <1>1, <1>2, <1>3, <1>4, <1>5, <1>6, <1>7, <1>8, <1>9, FileQuiet DEF DrainStep

LEMMA CountIsCap == Shape /\ CountInv => CapKept
<1> SUFFICES ASSUME Shape, CountInv PROVE Cardinality(InARow) <= WakeMax + excused
  BY DEF CapKept, InARow, Row
<1>1. Cardinality(InARow) \in Nat /\ WakeMax + excused \in Nat /\ InARow \subseteq Runs
  BY RowIsFinite, WakesAssumption DEF Shape
<1>2. CASE lock = Free
  <2>1. InARow \ {LockTurn} = InARow
    BY <1>1, <1>2, LockTurnIs, NoRunIsNone
  <2> QED BY <1>1, <2>1, LoadIs DEF CountInv
<1>3. CASE lock # Free
  BY <1>1, <1>3, LoadIs DEF CountInv
<1> QED BY <1>2, <1>3

\* Where nothing is heard before the boot scan, strut answers itself at most
\* WakeMax times before a person speaks again, but for the turns a crash let
\* slip and the ends let in by turn lines read before the lock (jobEnded in
\* wake.ts): the turn in flight and the one being launched are counted too,
\* whatever crashes, drains and people's turns come in between.
THEOREM WakesAreCapped == ASSUME ~ Early PROVE Spec => []CapKept
<1>1. Init => Turns /\ HandInv /\ CountInv
  BY TurnsInit, HandInit, CountInit
<1>2. (Turns /\ HandInv /\ CountInv) /\ [Next]_vars => (Turns /\ HandInv /\ CountInv)'
  <2> SUFFICES ASSUME Turns, HandInv, CountInv, [Next]_vars PROVE (Turns /\ HandInv /\ CountInv)'
    OBVIOUS
  <2>1. Shape /\ RunInv /\ FileInv
    BY DEF Turns
  <2> QED BY <2>1, TurnsNext, HandNext, CountNext
<1>3. Turns /\ HandInv /\ CountInv => CapKept
  BY CountIsCap DEF Turns
<1> QED BY <1>1, <1>2, <1>3, PTL DEF Spec
=============================================================================
