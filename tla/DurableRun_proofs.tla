------------------------- MODULE DurableRun_proofs -------------------------
(***************************************************************************)
(* What holds of a durable run for any flow, any number of crashes, boots, *)
(* resumes and control requests.                                           *)
(***************************************************************************)
EXTENDS DurableRun, TLAPS, WellFoundedInduction, FiniteSetTheorems

-----------------------------------------------------------------------------
(* The newest event of a kind                                              *)

LEMMA LessWellFounded ==
  \E R : IsWellFoundedOn(R, Nat) /\ \A x, y \in Nat : <<y, x>> \in R <=> y < x
<1>1. \A x, y \in Nat : <<y, x>> \in OpToRel(<, Nat) <=> y < x
  BY DEF OpToRel
<1> DEFINE R == OpToRel(<, Nat)
<1>2. IsWellFoundedOn(R, Nat)
  BY NatLessThanWellFounded
<1>3. \A x, y \in Nat : <<y, x>> \in R <=> y < x
  BY <1>1
<1> HIDE DEF R
<1> QED BY <1>2, <1>3

\* A set of positions that is not empty has a last one.
LEMMA Greatest ==
  ASSUME NEW n \in Nat, NEW T \in SUBSET (1 .. n), T # {}
  PROVE  \E m \in T : \A k \in T : k <= m
<1> DEFINE D == {n - k : k \in T}
<1>a. \A k \in T : k \in Nat /\ 1 <= k /\ k <= n
  OBVIOUS
<1>0. D \in SUBSET Nat /\ D # {}
  <2>1. \A k \in T : n - k \in Nat
    BY <1>a
  <2> QED BY <2>1
<1>1. PICK R : IsWellFoundedOn(R, Nat) /\ \A x, y \in Nat : <<y, x>> \in R <=> y < x
  BY LessWellFounded
<1>2. PICK x \in D : \A y \in D : ~ (<<y, x>> \in R)
  <2> HIDE DEF D
  <2> QED BY <1>0, <1>1, WFMin
<1>3. PICK m \in T : x = n - m
  OBVIOUS
<1>4. ASSUME NEW k \in T PROVE k <= m
  <2>1. n - k \in D /\ n - k \in Nat /\ n - m \in Nat
    BY <1>4
  <2>2. ~ (n - k < n - m)
    BY <1>0, <1>1, <1>2, <1>3, <2>1
  <2>3. k \in Nat /\ m \in Nat
    BY <1>a, <1>3, <1>4
  <2> QED BY <2>2, <2>3
<1> QED BY <1>4

\* The last of a set of positions, 0 when it is empty.
LastIn(T) == IF T = {} THEN 0 ELSE CHOOSE i \in T : \A j \in T : j <= i

LEMMA LastInIs ==
  ASSUME NEW n \in Nat, NEW T \in SUBSET (1 .. n)
  PROVE  /\ LastIn(T) = 0 <=> T = {}
         /\ T # {} => LastIn(T) \in T /\ \A j \in T : j <= LastIn(T)
<1>1. CASE T = {}
  BY <1>1 DEF LastIn
<1>2. CASE T # {}
  <2>1. \E m \in T : \A k \in T : k <= m
    BY <1>2, Greatest
  <2>2. LastIn(T) \in T /\ \A j \in T : j <= LastIn(T)
    BY <1>2, <2>1 DEF LastIn
  <2>3. LastIn(T) # 0
    BY <2>2
  <2> QED BY <1>2, <2>2, <2>3
<1> QED BY <1>1, <1>2

\* A position behind all others becomes the last.
LEMMA LastInMore ==
  ASSUME NEW n \in Nat, NEW T \in SUBSET (1 .. n)
  PROVE  LastIn(T \cup {n + 1}) = n + 1
<1> DEFINE U == T \cup {n + 1}
<1>1. U \in SUBSET (1 .. (n + 1)) /\ U # {} /\ n + 1 \in Nat
  OBVIOUS
<1>2. LastIn(U) \in U /\ \A j \in U : j <= LastIn(U)
  <2> HIDE DEF U
  <2> QED BY <1>1, LastInIs
<1>3. n + 1 \in U /\ (\A j \in U : j \in Nat /\ j <= n + 1)
  OBVIOUS
<1>4. n + 1 <= LastIn(U) /\ LastIn(U) \in Nat /\ LastIn(U) <= n + 1
  <2> HIDE DEF U
  <2> QED BY <1>2, <1>3
<1> QED BY <1>4

Starts(l) == {i \in 1 .. Len(l) : IsStart(l[i])}
Openings(l) == {i \in 1 .. Len(l) : IsOpening(l[i])}
Controls(l) == {i \in 1 .. Len(l) : IsControl(l[i])}
Boundaries(l) == {i \in 1 .. Len(l) : IsBound(l[i])}
Outputs(l, s, p) == {i \in 1 .. Len(l) : l[i].type = "step" /\ l[i].step = s /\ l[i].place = p}

LEMMA NewestIs ==
  /\ \A l : Newest(l, IsStart) = LastIn(Starts(l))
  /\ \A l : Newest(l, IsOpening) = LastIn(Openings(l))
  /\ \A l : Newest(l, IsControl) = LastIn(Controls(l))
  /\ \A l : Newest(l, IsBound) = LastIn(Boundaries(l))
<1>1. \A l : Newest(l, IsStart) = LastIn(Starts(l))
  BY DEF Newest, LastIn, Starts
<1>2. \A l : Newest(l, IsOpening) = LastIn(Openings(l))
  BY DEF Newest, LastIn, Openings
<1>3. \A l : Newest(l, IsControl) = LastIn(Controls(l))
  BY DEF Newest, LastIn, Controls
<1>4. \A l : Newest(l, IsBound) = LastIn(Boundaries(l))
  BY DEF Newest, LastIn, Boundaries
<1> QED BY <1>1, <1>2, <1>3, <1>4

LEMMA JournalDef ==
  \A l : Journal(l) = [x \in Steps \X Places |->
                         IF LastIn(Outputs(l, x[1], x[2])) = 0 THEN NoOutput
                         ELSE l[LastIn(Outputs(l, x[1], x[2]))].out]
BY DEF Journal, Newest, LastIn, Outputs

-----------------------------------------------------------------------------
(* The shape of the state                                                  *)

Defs == {Def[v][s] : v \in Versions, s \in Steps}
OutOf == [val : Values, def : Defs, ins : UNION {[Deps[s] -> Values] : s \in Steps}]
OutputOf == OutOf \cup {NoOutput}
JournalOf == [Steps \X Places -> OutputOf]

OpeningOf == [type : {"start", "resumed"}, ver : Versions]
MarkOf == [type : {"paused", "live", "cancelling"}]
EndOf == [type : Outcomes]
StepOf == [type : {"step"}, step : Steps, place : Places, out : OutOf]
EventOf == OpeningOf \cup MarkOf \cup EndOf \cup StepOf

Doings == {"wait", "primary", "fallback", "done", "failed", "stopped"}
RunningOf ==
  [by : {"caller", "boot", "hand"}, pc : {"clear", "open", "flow", "end", "finalize", "teardown"},
   ver : Versions, journal : JournalOf, doing : [Steps -> Doings], out : [Steps -> OutputOf],
   outcome : Outcomes \cup {"none"}]
AskOf == [req : Requests, live : BOOLEAN]
ScanOf ==
  [pc : {"off", "wait", "cancelled", "record", "done"}] \cup [pc : {"finalize"}, outcome : Outcomes]
    \cup [pc : {"launch"}, ver : Versions, journal : JournalOf]

Shape ==
  /\ log \in Seq(EventOf) /\ torn \in BOOLEAN /\ up \in BOOLEAN
  /\ epoch \in Nat /\ 1 <= epoch /\ written \in 0 .. epoch /\ bootRec \in 0 .. epoch
  /\ summary \in Outcomes \cup {"none"} /\ ctl \in {"none", "running", "pausing", "cancelling"}
  /\ exec \in RunningOf \cup {NoExec} /\ (exec = NoExec <=> ctl = "none")
  /\ pending \in Seq(MarkOf) /\ ask \in AskOf \cup {NoAsk} /\ (ask.live => ctl # "none")
  /\ scan \in ScanOf /\ (\A p \in prep : p.ver \in Versions /\ p.journal \in JournalOf)

\* A step that is done has an output, one that is not has none, and one that was begun had its
\* dependencies done.
DoneInv ==
  exec # NoExec =>
    /\ exec.pc \in {"clear", "open"} => \A s \in Steps : exec.doing[s] = "wait"
    /\ exec.pc \in {"end", "finalize"} => exec.outcome \in Outcomes
    /\ \A s \in Steps :
         /\ exec.doing[s] = "done" <=> exec.out[s] # NoOutput
         /\ exec.doing[s] \notin {"wait", "stopped"} => DepsDone(s)

Typed == Shape /\ DoneInv


LEMMA OutIs ==
  ASSUME NEW o \in OutOf
  PROVE  o # NoOutput /\ o.val \in Values /\ DOMAIN o.ins \subseteq Steps
<1>1. o.val \in Values /\ o.ins \in UNION {[Deps[s] -> Values] : s \in Steps}
  BY DEF OutOf
<1>2. PICK s \in Steps : o.ins \in [Deps[s] -> Values]
  BY <1>1
<1>3. DOMAIN o.ins \subseteq Steps
  BY <1>2, FlowAssumption
<1>4. o # NoOutput
  <2>1. DOMAIN o = {"val", "def", "ins"}
    BY DEF OutOf
  <2>2. DOMAIN NoOutput = {"none"}
    BY DEF NoOutput
  <2>3. "val" \in DOMAIN o /\ "val" \notin DOMAIN NoOutput
    BY <2>1, <2>2
  <2> QED BY <2>3
<1> QED BY <1>1, <1>3, <1>4

LEMMA EventIs ==
  ASSUME NEW e \in EventOf
  PROVE  /\ e.type \in Outcomes \cup {"start", "resumed", "step", "paused", "live", "cancelling"}
         /\ e.type \in {"start", "resumed"} => e.ver \in Versions
         /\ e.type = "step" => e.step \in Steps /\ e.place \in Places /\ e.out \in OutOf
<1>1. CASE e \in OpeningOf
  BY <1>1 DEF OpeningOf
<1>2. CASE e \in MarkOf
  BY <1>2 DEF MarkOf
<1>3. CASE e \in EndOf
  BY <1>3 DEF EndOf, Outcomes
<1>4. CASE e \in StepOf
  BY <1>4 DEF StepOf
<1> QED BY <1>1, <1>2, <1>3, <1>4 DEF EventOf

LEMMA EventsAre ==
  /\ \A v \in Versions : Start(v) \in EventOf /\ Resumed(v) \in EventOf
  /\ \A m \in {"paused", "live", "cancelling"} : Marker(m) \in EventOf /\ Marker(m) \in MarkOf
  /\ \A o \in Outcomes : End(o) \in EventOf
  /\ \A s \in Steps, p \in Places, o \in OutOf : StepEnd(s, p, o) \in EventOf
  /\ \A m \in MarkOf : m \in EventOf
BY DEF EventOf, OpeningOf, MarkOf, EndOf, StepOf, Start, Resumed, Marker, End, StepEnd

\* An event is appended to the log.
LEMMA AppendIs ==
  ASSUME NEW l \in Seq(EventOf), NEW e \in EventOf
  PROVE  /\ Append(l, e) \in Seq(EventOf) /\ Append(l, e) # <<>>
         /\ Len(Append(l, e)) = Len(l) + 1 /\ Len(l) \in Nat
         /\ \A i \in 1 .. Len(l) : Append(l, e)[i] = l[i] /\ l[i] \in EventOf
         /\ Append(l, e)[Len(l) + 1] = e
         /\ 1 .. Len(Append(l, e)) = (1 .. Len(l)) \cup {Len(l) + 1}
OBVIOUS

LEMMA NewestAppend ==
  ASSUME NEW l \in Seq(EventOf), NEW e \in EventOf
  PROVE  /\ Starts(Append(l, e)) = Starts(l) \cup (IF IsStart(e) THEN {Len(l) + 1} ELSE {})
         /\ Openings(Append(l, e)) = Openings(l) \cup (IF IsOpening(e) THEN {Len(l) + 1} ELSE {})
         /\ Boundaries(Append(l, e)) = Boundaries(l) \cup (IF IsBound(e) THEN {Len(l) + 1} ELSE {})
         /\ \A s, p : Outputs(Append(l, e), s, p)
                        = Outputs(l, s, p) \cup (IF e.type = "step" /\ e.step = s /\ e.place = p
                                                 THEN {Len(l) + 1} ELSE {})
<1> DEFINE m == Append(l, e)  n == Len(l)
<1>1. /\ n \in Nat /\ Len(m) = n + 1 /\ 1 .. Len(m) = (1 .. n) \cup {n + 1}
      /\ (\A i \in 1 .. n : m[i] = l[i]) /\ m[n + 1] = e
  BY AppendIs
<1> HIDE DEF m, n
<1>2. Starts(m) = {i \in 1 .. n : IsStart(l[i])} \cup (IF IsStart(e) THEN {n + 1} ELSE {})
  BY <1>1 DEF Starts
<1>3. Openings(m) = {i \in 1 .. n : IsOpening(l[i])} \cup (IF IsOpening(e) THEN {n + 1} ELSE {})
  BY <1>1 DEF Openings
<1>4. Boundaries(m) = {i \in 1 .. n : IsBound(l[i])}
                    \cup (IF IsBound(e) THEN {n + 1} ELSE {})
  BY <1>1 DEF Boundaries
<1>5. \A s, p : Outputs(m, s, p) = {i \in 1 .. n : l[i].type = "step" /\ l[i].step = s /\ l[i].place = p}
                  \cup (IF e.type = "step" /\ e.step = s /\ e.place = p THEN {n + 1} ELSE {})
  BY <1>1 DEF Outputs
<1> QED BY <1>2, <1>3, <1>4, <1>5 DEF m, n, Starts, Openings, Boundaries, Outputs

LEMMA HitsAre ==
  ASSUME NEW l \in Seq(EventOf)
  PROVE  /\ Len(l) \in Nat /\ Starts(l) \in SUBSET (1 .. Len(l)) /\ Openings(l) \in SUBSET (1 .. Len(l))
         /\ Boundaries(l) \in SUBSET (1 .. Len(l)) /\ \A s, p : Outputs(l, s, p) \in SUBSET (1 .. Len(l))
         /\ \A i \in 1 .. Len(l) : l[i] \in EventOf
BY DEF Starts, Openings, Boundaries, Outputs

\* The journal holds the newest output of a place.
LEMMA JournalIs ==
  ASSUME NEW l \in Seq(EventOf), NEW s \in Steps, NEW p \in Places
  PROVE  /\ Journal(l) \in JournalOf
         /\ Journal(l)[<<s, p>>] = IF Outputs(l, s, p) = {} THEN NoOutput ELSE l[LastIn(Outputs(l, s, p))].out
<1>1. ASSUME NEW x \in Steps \X Places PROVE Journal(l)[x] \in OutputOf
  <2> DEFINE T == Outputs(l, x[1], x[2])  n == LastIn(T)
  <2>1. T \in SUBSET (1 .. Len(l)) /\ Len(l) \in Nat
    BY HitsAre
  <2>2. n = 0 \/ n \in T
    <3> HIDE DEF T
    <3> QED BY <2>1, LastInIs
  <2>3. CASE n = 0
    <3>1. Journal(l)[x] = NoOutput
      BY <2>3, JournalDef
    <3> QED BY <3>1 DEF OutputOf
  <2>4. CASE n # 0
    <3>1. n \in T /\ Journal(l)[x] = l[n].out
      BY <2>2, <2>4, JournalDef
    <3>2. l[n] \in EventOf /\ l[n].type = "step"
      BY <3>1, HitsAre DEF Outputs
    <3> QED BY <3>1, <3>2, EventIs DEF OutputOf
  <2> QED BY <2>3, <2>4
<1>2. Journal(l) \in JournalOf
  <2>1. Journal(l) = [x \in Steps \X Places |-> Journal(l)[x]]
    BY JournalDef
  <2> QED BY <1>1, <2>1 DEF JournalOf
<1>3. Outputs(l, s, p) \in SUBSET (1 .. Len(l)) /\ Len(l) \in Nat
  BY HitsAre
<1>4. LastIn(Outputs(l, s, p)) = 0 <=> Outputs(l, s, p) = {}
  BY <1>3, LastInIs
<1>5. <<s, p>> \in Steps \X Places /\ <<s, p>>[1] = s /\ <<s, p>>[2] = p
  OBVIOUS
<1>6. Journal(l)[<<s, p>>] = IF LastIn(Outputs(l, s, p)) = 0 THEN NoOutput ELSE l[LastIn(Outputs(l, s, p))].out
  BY <1>5, JournalDef
<1> QED BY <1>2, <1>4, <1>6

\* An output that is appended replaces the one of its place; any other event leaves the journal.
LEMMA JournalAppend ==
  ASSUME NEW l \in Seq(EventOf), NEW e \in EventOf, NEW s \in Steps, NEW p \in Places
  PROVE  Journal(Append(l, e))[<<s, p>>] = IF e.type = "step" /\ e.step = s /\ e.place = p THEN e.out
                                       ELSE Journal(l)[<<s, p>>]
<1> DEFINE m == Append(l, e)  n == Len(l)  T == Outputs(l, s, p)
<1>1. m \in Seq(EventOf) /\ n \in Nat /\ T \in SUBSET (1 .. n) /\ (\A i \in 1 .. n : m[i] = l[i]) /\ m[n + 1] = e
  BY AppendIs, HitsAre
<1>2. Outputs(m, s, p) = T \cup (IF e.type = "step" /\ e.step = s /\ e.place = p THEN {n + 1} ELSE {})
  BY NewestAppend
<1>3. Journal(m)[<<s, p>>] = IF Outputs(m, s, p) = {} THEN NoOutput ELSE m[LastIn(Outputs(m, s, p))].out
  BY <1>1, JournalIs
<1>4. Journal(l)[<<s, p>>] = IF T = {} THEN NoOutput ELSE l[LastIn(T)].out
  BY JournalIs
<1> HIDE DEF m, n, T
<1>5. CASE e.type = "step" /\ e.step = s /\ e.place = p
  <2>1. Outputs(m, s, p) = T \cup {n + 1} /\ LastIn(T \cup {n + 1}) = n + 1
    BY <1>1, <1>2, <1>5, LastInMore
  <2>2. Journal(m)[<<s, p>>] = m[n + 1].out
    BY <1>3, <2>1
  <2> QED BY <1>1, <1>5, <2>2 DEF m
<1>6. CASE ~ (e.type = "step" /\ e.step = s /\ e.place = p)
  <2>1. Outputs(m, s, p) = T
    BY <1>2, <1>6
  <2>2. T # {} => LastIn(T) \in 1 .. n
    BY <1>1, LastInIs
  <2>3. Journal(m)[<<s, p>>] = Journal(l)[<<s, p>>]
    BY <1>1, <1>3, <1>4, <2>1, <2>2
  <2> QED BY <1>6, <2>3 DEF m
<1> QED BY <1>5, <1>6


-----------------------------------------------------------------------------
(* The executor's state                                                    *)

Pcs == {"clear", "open", "flow", "end", "finalize", "teardown"}

LEMMA ExecIs == ASSUME Shape PROVE /\ exec.pc = "idle" <=> exec = NoExec
                                   /\ exec # NoExec => exec \in RunningOf
                                   /\ exec \in RunningOf => exec # NoExec /\ Live /\ exec.pc \in Pcs
<1>1. exec \in RunningOf => exec.pc \in Pcs
  BY DEF RunningOf, Pcs
<1>2. exec = NoExec => exec.pc = "idle"
  BY DEF NoExec
<1>3. exec \in RunningOf => exec.pc # "idle"
  BY <1>1 DEF Pcs
<1>4. exec \in RunningOf \/ exec = NoExec
  BY DEF Shape
<1> QED BY <1>1, <1>2, <1>3, <1>4 DEF Shape, Live

LEMMA RunningIs ==
  ASSUME NEW x \in RunningOf
  PROVE  /\ x.pc \in Pcs /\ x.ver \in Versions /\ x.journal \in JournalOf /\ x.doing \in [Steps -> Doings]
         /\ x.out \in [Steps -> OutputOf] /\ x.outcome \in Outcomes \cup {"none"}
         /\ x.by \in {"caller", "boot", "hand"}
BY DEF RunningOf, Pcs

\* The executor goes to another point of its way, comes to its outcome; a step of the flow moves,
\* has its output.
At(x, q) == [x EXCEPT !.pc = q]
Comes(x, o) == [x EXCEPT !.pc = "end", !.outcome = o]
Does(x, s, d) == [x EXCEPT !.doing[s] = d]
Has(x, s, o) == [x EXCEPT !.doing[s] = "done", !.out[s] = o]

LEMMA RunningAt ==
  ASSUME NEW x \in RunningOf, NEW q \in Pcs
  PROVE  /\ At(x, q) \in RunningOf /\ At(x, q).pc = q /\ At(x, q).ver = x.ver
         /\ At(x, q).journal = x.journal /\ At(x, q).doing = x.doing
         /\ At(x, q).out = x.out /\ At(x, q).outcome = x.outcome /\ At(x, q).by = x.by
BY DEF RunningOf, Pcs, At

LEMMA RunningEnds ==
  ASSUME NEW x \in RunningOf, NEW o \in Outcomes
  PROVE  /\ Comes(x, o) \in RunningOf /\ Comes(x, o).pc = "end" /\ Comes(x, o).ver = x.ver
         /\ Comes(x, o).journal = x.journal /\ Comes(x, o).doing = x.doing
         /\ Comes(x, o).out = x.out /\ Comes(x, o).outcome = o /\ Comes(x, o).by = x.by
BY DEF RunningOf, Comes

LEMMA RunningDoes ==
  ASSUME NEW x \in RunningOf, NEW s \in Steps, NEW d \in Doings
  PROVE  /\ Does(x, s, d) \in RunningOf /\ Does(x, s, d).pc = x.pc /\ Does(x, s, d).ver = x.ver
         /\ Does(x, s, d).journal = x.journal
         /\ Does(x, s, d).outcome = x.outcome /\ Does(x, s, d).by = x.by /\ Does(x, s, d).out = x.out
         /\ Does(x, s, d).doing[s] = d
         /\ \A t \in Steps : t # s => Does(x, s, d).doing[t] = x.doing[t]
<1> DEFINE f == [x.doing EXCEPT ![s] = d]
<1>1. Does(x, s, d) = [x EXCEPT !.doing = f]
  BY DEF Does
<1>2. x.doing \in [Steps -> Doings]
  BY RunningIs
<1>3. f \in [Steps -> Doings] /\ f[s] = d /\ \A t \in Steps : t # s => f[t] = x.doing[t]
  BY <1>2
<1> HIDE DEF f
<1> QED BY <1>1, <1>3 DEF RunningOf

LEMMA RunningHas ==
  ASSUME NEW x \in RunningOf, NEW s \in Steps, NEW o \in OutputOf
  PROVE  /\ Has(x, s, o) \in RunningOf /\ Has(x, s, o).pc = x.pc /\ Has(x, s, o).ver = x.ver
         /\ Has(x, s, o).journal = x.journal
         /\ Has(x, s, o).outcome = x.outcome /\ Has(x, s, o).by = x.by
         /\ Has(x, s, o).doing[s] = "done" /\ Has(x, s, o).out[s] = o
         /\ \A t \in Steps : t # s => Has(x, s, o).doing[t] = x.doing[t] /\ Has(x, s, o).out[t] = x.out[t]
<1> DEFINE f == [x.doing EXCEPT ![s] = "done"]  g == [x.out EXCEPT ![s] = o]
<1>1. Has(x, s, o) = [x EXCEPT !.doing = f, !.out = g]
  BY DEF Has
<1>2. x.doing \in [Steps -> Doings] /\ x.out \in [Steps -> OutputOf]
  BY RunningIs
<1>3. f \in [Steps -> Doings] /\ f[s] = "done" /\ \A t \in Steps : t # s => f[t] = x.doing[t]
  BY <1>2 DEF Doings
<1>4. g \in [Steps -> OutputOf] /\ g[s] = o /\ \A t \in Steps : t # s => g[t] = x.out[t]
  BY <1>2
<1> HIDE DEF f, g
<1> QED BY <1>1, <1>3, <1>4 DEF RunningOf

\* An executor that begins.
LEMMA NewExecIs ==
  ASSUME NEW by \in {"caller", "boot", "hand"}, NEW q \in {"clear", "open"}, NEW v \in Versions, NEW j \in JournalOf
  PROVE  /\ Exec(by, q, v, j) \in RunningOf
         /\ Exec(by, q, v, j).pc = q /\ Exec(by, q, v, j).ver = v /\ Exec(by, q, v, j).journal = j
         /\ \A s \in Steps : Exec(by, q, v, j).doing[s] = "wait" /\ Exec(by, q, v, j).out[s] = NoOutput
         /\ Exec(by, q, v, j).by = by /\ Exec(by, q, v, j).outcome = "none"
BY DEF Exec, RunningOf, Doings, OutputOf

LEMMA ScanIs ==
  ASSUME NEW x \in ScanOf
  PROVE  /\ x.pc \in {"off", "wait", "cancelled", "record", "done", "finalize", "launch"}
         /\ x.pc = "finalize" => x.outcome \in Outcomes
         /\ x.pc = "launch" => x.ver \in Versions /\ x.journal \in JournalOf
<1>1. CASE x \in [pc : {"off", "wait", "cancelled", "record", "done"}]
  BY <1>1
<1>2. CASE x \in [pc : {"finalize"}, outcome : Outcomes]
  BY <1>2
<1>3. CASE x \in [pc : {"launch"}, ver : Versions, journal : JournalOf]
  BY <1>3
<1> QED BY <1>1, <1>2, <1>3 DEF ScanOf

LEMMA ScansAre ==
  /\ \A q \in {"off", "wait", "cancelled", "record", "done"} : [pc |-> q] \in ScanOf
  /\ \A o \in Outcomes : [pc |-> "finalize", outcome |-> o] \in ScanOf
  /\ \A v \in Versions, j \in JournalOf : [pc |-> "launch", ver |-> v, journal |-> j] \in ScanOf
BY DEF ScanOf

LEMMA PreparedIs ==
  \A v \in Versions, j \in JournalOf : Prepared(v, j).ver = v /\ Prepared(v, j).journal = j
BY DEF Prepared

LEMMA AskIs ==
  /\ NoAsk.live = FALSE
  /\ \A x \in AskOf : /\ x # NoAsk /\ x.req \in Requests /\ x.req \in {"pause", "resume", "cancel"}
                      /\ [x EXCEPT !.live = FALSE] \in AskOf
                      /\ [x EXCEPT !.live = FALSE].live = FALSE
                      /\ [x EXCEPT !.live = FALSE].req = x.req
  /\ [NoAsk EXCEPT !.live = FALSE] = NoAsk
  /\ \A q \in Requests : [req |-> q, live |-> TRUE] \in AskOf
<1>1. ASSUME NEW x \in AskOf PROVE x # NoAsk /\ x.req \in Requests /\ x.req \in {"pause", "resume", "cancel"}
  <2>1. x.req \in Requests
    BY DEF AskOf
  <2>2. x.req \in {"pause", "resume", "cancel"}
    BY <2>1, FlowAssumption
  <2>3. x.req # NoAsk.req
    BY <2>2 DEF NoAsk
  <2> QED BY <2>1, <2>2, <2>3
<1>2. \A x \in AskOf : /\ [x EXCEPT !.live = FALSE] \in AskOf /\ [x EXCEPT !.live = FALSE].live = FALSE
                       /\ [x EXCEPT !.live = FALSE].req = x.req
  BY DEF AskOf
<1>3. NoAsk.live = FALSE /\ [NoAsk EXCEPT !.live = FALSE] = NoAsk
  <2>1. NoAsk \in [req : {"none"}, live : {FALSE}]
    BY DEF NoAsk
  <2>2. \A x \in [req : {"none"}, live : {FALSE}] : [x EXCEPT !.live = FALSE] = x /\ x.live = FALSE
    OBVIOUS
  <2> QED BY <2>1, <2>2
<1>4. \A q \in Requests : [req |-> q, live |-> TRUE] \in AskOf
  BY DEF AskOf
<1> QED BY <1>1, <1>2, <1>3, <1>4

\* Each request leaves its own marker.
LEMMA MarksAre ==
  /\ Mark("pause") = "paused" /\ Mark("resume") = "live" /\ Mark("cancel") = "cancelling"
  /\ \A x \in AskOf : Marker(Mark(x.req)) \in MarkOf
<1>1. Mark("pause") = "paused" /\ Mark("resume") = "live" /\ Mark("cancel") = "cancelling"
  BY DEF Mark
<1> QED BY <1>1, AskIs, EventsAre

\* The controller after a request.
LEMMA AskedIs ==
  ASSUME NEW c \in {"none", "running", "pausing", "cancelling"}, NEW x \in AskOf
  PROVE  /\ Asked(c, x.req) \in {"none", "running", "pausing", "cancelling"}
         /\ c # "none" => Asked(c, x.req) # "none"
BY AskIs DEF Asked


-----------------------------------------------------------------------------
(* What a step does to the state                                           *)

FlowStep(s) == Stop(s) \/ Begin(s) \/ FallbackReplays(s) \/ Throws(s) \/ \E v \in Values : Returns(s, v)
Hands == \E p \in prep : ByHand(p)
Resumes == \E v \in Versions, from \in {{}} \cup {{s} : s \in FromSteps} : Prepare(v, from)

LEMMA NextIs ==
  Next <=> \/ Launch \/ Clear \/ OpenLog \/ (\E s \in Steps : FlowStep(s)) \/ FlowEnds \/ AppendEnd \/ Finalize
           \/ Untrack \/ (\E q \in Requests : Find(q)) \/ Act \/ Miss \/ MarkerLands \/ Resumes \/ Hands
           \/ Crash \/ Boot \/ ScanReads \/ ScanCancels \/ ScanFinalizes \/ ScanLaunches \/ ScanRecords
BY DEF Next, Executor, Bodies, Scan, FlowStep, Resumes, Hands

\* What an output is made of fits the state.
LEMMA OutputIs ==
  ASSUME Typed, exec \in RunningOf, NEW s \in Steps, DepsDone(s), NEW v \in Values
  PROVE  Output(s, v) \in OutOf /\ Output(s, v) \in OutputOf /\ Output(s, v) # NoOutput
<1>1. exec.ver \in Versions /\ exec # NoExec /\ exec.out \in [Steps -> OutputOf]
  BY RunningIs, ExecIs DEF Typed
<1>2. Deps[s] \subseteq Steps
  BY FlowAssumption
<1>3. ASSUME NEW d \in Deps[s] PROVE exec.out[d].val \in Values
  <2>1. exec.out[d] # NoOutput /\ exec.out[d] \in OutputOf
    BY <1>1, <1>2 DEF DepsDone, Typed, DoneInv
  <2> QED BY <2>1, OutIs DEF OutputOf
<1> DEFINE i == [d \in Deps[s] |-> exec.out[d].val]
<1>4. i \in [Deps[s] -> Values]
  BY <1>3
<1>5. i \in UNION {[Deps[t] -> Values] : t \in Steps} /\ Def[exec.ver][s] \in Defs
  BY <1>1, <1>4 DEF Defs
<1>6. Output(s, v) = [val |-> v, def |-> Def[exec.ver][s], ins |-> i]
  BY DEF Output
<1>7. Output(s, v) \in OutOf
  <2> HIDE DEF i
  <2> QED BY <1>5, <1>6 DEF OutOf
<1> QED BY <1>7, OutIs DEF OutputOf

\* A step of the flow moves: it is stopped, begun, replayed, thrown out of or returned from.
Moved(s) ==
  /\ UNCHANGED <<torn, summary, bootRec, up, epoch, ctl, pending, ask, scan, prep, stopped, left>>
  /\ exec \in RunningOf /\ exec' \in RunningOf /\ exec.pc = "flow" /\ exec'.pc = "flow"
  /\ exec'.ver = exec.ver /\ exec'.journal = exec.journal
  /\ \A t \in Steps : t # s => exec'.doing[t] = exec.doing[t] /\ exec'.out[t] = exec.out[t]
  /\ exec.doing[s] \in {"wait", "primary", "fallback"}
  /\ exec'.doing[s] = "done" <=> exec'.out[s] # NoOutput
  /\ exec'.doing[s] # "wait" /\ (exec'.doing[s] # "stopped" => DepsDone(s))
  /\ exec'.doing[s] = "fallback" => s \in Fallible
  /\ exec'.doing[s] = "primary" => exec.journal[<<s, "own">>] = NoOutput
  /\ \/ /\ log' = log /\ written' = written
        /\ exec'.doing[s] = "done" =>
             \E p \in Places : /\ exec'.out[s] = exec.journal[<<s, p>>]
                               /\ p = "onError" => exec.doing[s] = "fallback"
     \/ /\ pending = <<>> /\ written' = epoch /\ exec'.doing[s] = "done"
        /\ \E p \in Places, v \in Values :
             /\ log' = Append(log, StepEnd(s, p, Output(s, v))) /\ exec'.out[s] = Output(s, v)
             /\ Output(s, v) \in OutOf
             /\ p = "onError" => exec.doing[s] = "fallback"
             /\ p = "own" => exec.doing[s] = "primary"

LEMMA FlowStepMoves ==
  ASSUME Typed, NEW s \in Steps, FlowStep(s)
  PROVE  Moved(s)
<1>1. exec.pc = "flow" /\ exec \in RunningOf /\ exec # NoExec
  BY ExecIs DEF Typed, FlowStep, Stop, Begin, FallbackReplays, Throws, Returns
<1>2. /\ exec.journal \in JournalOf /\ exec.doing \in [Steps -> Doings] /\ exec.out \in [Steps -> OutputOf]
      /\ exec.ver \in Versions
  BY <1>1, RunningIs
<1>3. exec.doing[s] = "done" <=> exec.out[s] # NoOutput
  BY <1>1 DEF Typed, DoneInv
<1>4. exec.doing[s] \notin {"wait", "stopped"} => DepsDone(s)
  BY <1>1 DEF Typed, DoneInv
<1>5. \A p \in Places : exec.journal[<<s, p>>] \in OutputOf
  BY <1>2 DEF JournalOf
<1>p. "own" \in Places /\ "onError" \in Places /\ "own" # "onError"
  BY DEF Places
<1> DEFINE Rest == UNCHANGED <<torn, summary, bootRec, up, epoch, ctl, pending, ask, scan, prep, stopped, left>>
\* The step goes on without an output.
<1>10. ASSUME NEW d \in Doings \ {"done", "wait"}, exec' = Does(exec, s, d),
              exec.doing[s] \in {"wait", "primary", "fallback"}
       PROVE  /\ exec' \in RunningOf /\ exec'.pc = "flow" /\ exec'.ver = exec.ver /\ exec'.journal = exec.journal
              /\ \A t \in Steps : t # s => exec'.doing[t] = exec.doing[t] /\ exec'.out[t] = exec.out[t]
              /\ exec'.doing[s] = "done" <=> exec'.out[s] # NoOutput
              /\ exec'.doing[s] = d
  <2>1. d \in Doings
    OBVIOUS
  <2>2. /\ exec' \in RunningOf /\ exec'.pc = exec.pc /\ exec'.ver = exec.ver /\ exec'.journal = exec.journal
        /\ exec'.out = exec.out /\ exec'.doing[s] = d /\ \A t \in Steps : t # s => exec'.doing[t] = exec.doing[t]
    BY <1>1, <2>1, <1>10, RunningDoes
  <2> QED BY <1>1, <1>3, <1>10, <2>2
\* The step has an output.
<1>11. ASSUME NEW o \in OutputOf, o # NoOutput, exec' = Has(exec, s, o)
       PROVE  /\ exec' \in RunningOf /\ exec'.pc = "flow" /\ exec'.ver = exec.ver /\ exec'.journal = exec.journal
              /\ \A t \in Steps : t # s => exec'.doing[t] = exec.doing[t] /\ exec'.out[t] = exec.out[t]
              /\ exec'.doing[s] = "done" /\ exec'.out[s] = o
  BY <1>1, <1>11, RunningHas
<1>12. ASSUME Stop(s) PROVE Moved(s)
  <2>1. exec' = Does(exec, s, "stopped") /\ exec.doing[s] \in {"wait", "primary", "fallback"}
    BY <1>12 DEF Does, Stop
  <2>2. Rest /\ log' = log /\ written' = written
    BY <1>12 DEF Stop, disk, proc, history
  <2>3. "stopped" \in Doings \ {"done", "wait"}
    BY DEF Doings
  <2> QED BY <1>1, <1>10, <2>1, <2>2, <2>3 DEF Moved
<1>13. ASSUME Begin(s) PROVE Moved(s)
  <2>1. exec.doing[s] = "wait" /\ DepsDone(s)
    BY <1>13 DEF Begin
  <2>2. Rest /\ log' = log /\ written' = written
    BY <1>13 DEF Begin, disk, proc, history
  <2>3. CASE exec.journal[<<s, "own">>] # NoOutput
    <3>1. exec' = Has(exec, s, exec.journal[<<s, "own">>])
      BY <1>13, <2>3 DEF Has, Begin
    <3>2. exec'.out[s] = exec.journal[<<s, "own">>] /\ exec'.doing[s] = "done"
      BY <1>5, <1>p, <1>11, <2>3, <3>1
    <3>3. \E p \in Places : exec'.out[s] = exec.journal[<<s, p>>] /\ (p = "onError" => exec.doing[s] = "fallback")
      BY <1>p, <3>2
    <3> QED BY <1>1, <1>5, <1>p, <1>11, <2>1, <2>2, <2>3, <3>1, <3>3 DEF Moved
  <2>4. CASE exec.journal[<<s, "own">>] = NoOutput
    <3>1. exec' = Does(exec, s, "primary") /\ "primary" \in Doings \ {"done", "wait"}
      BY <1>13, <2>4 DEF Does, Begin, Doings
    <3> QED BY <1>1, <1>10, <2>1, <2>2, <2>4, <3>1 DEF Moved
  <2> QED BY <2>3, <2>4
<1>14. ASSUME FallbackReplays(s) PROVE Moved(s)
  <2>1. exec.doing[s] = "fallback" /\ DepsDone(s) /\ exec.journal[<<s, "onError">>] # NoOutput
    BY <1>4, <1>14 DEF FallbackReplays
  <2>2. Rest /\ log' = log /\ written' = written
    BY <1>14 DEF FallbackReplays, disk, proc, history
  <2>3. exec' = Has(exec, s, exec.journal[<<s, "onError">>])
    BY <1>14 DEF Has, FallbackReplays
  <2>4. exec'.out[s] = exec.journal[<<s, "onError">>] /\ exec'.doing[s] = "done"
    BY <1>5, <1>p, <1>11, <2>1, <2>3
  <2>5. \E p \in Places : exec'.out[s] = exec.journal[<<s, p>>] /\ (p = "onError" => exec.doing[s] = "fallback")
    BY <1>p, <2>1, <2>4
  <2> QED BY <1>1, <1>5, <1>p, <1>11, <2>1, <2>2, <2>3, <2>5 DEF Moved
<1>15. ASSUME Throws(s) PROVE Moved(s)
  <2>1. exec.doing[s] \in {"primary", "fallback"} /\ DepsDone(s)
    BY <1>4, <1>15 DEF Throws
  <2>2. Rest /\ log' = log /\ written' = written
    BY <1>15 DEF Throws, disk, proc, history
  <2> DEFINE d == IF exec.doing[s] = "primary" /\ s \in Fallible THEN "fallback" ELSE "failed"
  <2>3. exec' = Does(exec, s, d) /\ d \in Doings \ {"done", "wait"} /\ (d = "fallback" => s \in Fallible)
        /\ d # "primary"
    BY <1>15 DEF Does, Throws, Doings
  <2> HIDE DEF d
  <2> QED BY <1>1, <1>10, <2>1, <2>2, <2>3 DEF Moved
<1>16. ASSUME NEW v \in Values, Returns(s, v) PROVE Moved(s)
  <2>1. exec.doing[s] \in {"primary", "fallback"} /\ DepsDone(s)
    BY <1>4, <1>16 DEF Returns
  <2>2. Rest /\ pending = <<>> /\ written' = epoch
    BY <1>16 DEF Returns, Write, Append1, proc, history
  <2>3. Output(s, v) \in OutOf /\ Output(s, v) \in OutputOf /\ Output(s, v) # NoOutput
    BY <1>1, <2>1, OutputIs
  <2>4. exec' = Has(exec, s, Output(s, v))
    BY <1>16 DEF Has, Returns
  <2>5. exec'.out[s] = Output(s, v) /\ exec'.doing[s] = "done"
    BY <1>11, <2>3, <2>4
  <2>6. \/ exec.doing[s] = "primary" /\ log' = Append(log, StepEnd(s, "own", Output(s, v)))
        \/ exec.doing[s] = "fallback" /\ log' = Append(log, StepEnd(s, "onError", Output(s, v)))
    BY <1>16 DEF Returns, Write, Append1
  <2>7. \E p \in Places, u \in Values :
          /\ log' = Append(log, StepEnd(s, p, Output(s, u))) /\ exec'.out[s] = Output(s, u)
          /\ Output(s, u) \in OutOf
          /\ p = "onError" => exec.doing[s] = "fallback"
          /\ p = "own" => exec.doing[s] = "primary"
    BY <1>p, <2>3, <2>5, <2>6
  <2> QED BY <1>1, <1>11, <2>1, <2>2, <2>3, <2>4, <2>5, <2>7 DEF Moved
<1> QED BY <1>12, <1>13, <1>14, <1>15, <1>16 DEF FlowStep


\* Dropping steps leaves a journal.
LEMMA WithoutIs ==
  ASSUME NEW j \in JournalOf, NEW g
  PROVE  Without(j, g) \in JournalOf
<1>1. \A x \in Steps \X Places : j[x] \in OutputOf /\ NoOutput \in OutputOf
  BY DEF JournalOf, OutputOf
<1> QED BY <1>1 DEF Without, JournalOf

\* A log that was opened says which version ran last.
LEMMA ExecutedIs ==
  ASSUME NEW l \in Seq(EventOf), Newest(l, IsStart) # 0
  PROVE  Executed(l) \in Versions /\ l # <<>> /\ Len(l) \in Nat /\ 1 <= Len(l)
<1>1. Starts(l) # {} /\ Starts(l) \subseteq Openings(l) /\ Len(l) \in Nat
  <2>1. LastIn(Starts(l)) # 0
    BY NewestIs
  <2>2. Starts(l) \subseteq Openings(l)
    BY DEF Starts, Openings, IsStart, IsOpening
  <2> QED BY <2>1, <2>2, HitsAre, LastInIs
<1>2. LastIn(Openings(l)) \in Openings(l) /\ Openings(l) \in SUBSET (1 .. Len(l))
  <2>1. Openings(l) \in SUBSET (1 .. Len(l)) /\ Openings(l) # {}
    BY <1>1, HitsAre
  <2> QED BY <1>1, <2>1, LastInIs
<1>3. Executed(l) = l[LastIn(Openings(l))].ver
  BY NewestIs DEF Executed
<1>4. l[LastIn(Openings(l))] \in EventOf /\ l[LastIn(Openings(l))].type \in {"start", "resumed"}
  BY <1>2, HitsAre DEF Openings, IsOpening
<1>5. l # <<>> /\ 1 <= Len(l)
  BY <1>1, <1>2
<1> QED BY <1>1, <1>3, <1>4, <1>5, EventIs

LEMMA EndedIs ==
  ASSUME NEW l \in Seq(EventOf)
  PROVE  /\ Ended(l) => LastOf(l).type \in Outcomes /\ l # <<>>
         /\ l # <<>> => LastOf(l) \in EventOf
BY DEF Ended, LastOf, IsTerminal

LEMMA Empty ==
  /\ \A x : <<x>> # <<>>
  /\ <<>> \in Seq(EventOf) /\ <<>> \in Seq(MarkOf)
  /\ Ended(<<>>) = FALSE
BY DEF Ended

LEMMA ShapeInit == Init => Typed
<1> SUFFICES ASSUME Init PROVE Typed
  OBVIOUS
<1>1. [pc |-> "wait"] \in ScanOf
  BY ScansAre
<1>2. /\ log \in Seq(EventOf) /\ torn \in BOOLEAN /\ up \in BOOLEAN /\ summary = "none" /\ ctl = "none" /\ exec = NoExec
      /\ pending \in Seq(MarkOf) /\ ask = NoAsk /\ prep = {} /\ ~ ask.live
  BY Empty, AskIs DEF Init
<1>3. epoch \in Nat /\ 1 <= epoch /\ written \in 0 .. epoch /\ bootRec \in 0 .. epoch /\ scan \in ScanOf
  BY <1>1 DEF Init
<1>4. Shape
  BY <1>2, <1>3 DEF Shape
<1>5. DoneInv
  BY DEF Init, DoneInv
<1> QED BY <1>4, <1>5 DEF Typed

\* An executor that is started: nothing is done, nothing is out.
Begun(q, v, j) ==
  /\ exec' \in RunningOf /\ exec'.pc = q /\ exec'.ver = v /\ exec'.journal = j
  /\ \A s \in Steps : exec'.doing[s] = "wait" /\ exec'.out[s] = NoOutput
\* An executor that goes on to another point of its way.
Goes(q, r) ==
  /\ exec \in RunningOf /\ exec' \in RunningOf /\ exec.pc = q /\ exec'.pc = r
  /\ exec'.ver = exec.ver /\ exec'.journal = exec.journal /\ exec'.doing = exec.doing /\ exec'.out = exec.out
  /\ IF q = "flow" THEN exec'.outcome \in Outcomes ELSE exec'.outcome = exec.outcome

LEMMA JournalTyped == \A l \in Seq(EventOf) : Journal(l) \in JournalOf
<1> SUFFICES ASSUME NEW l \in Seq(EventOf) PROVE Journal(l) \in JournalOf
  OBVIOUS
<1>1. Journal(l) = [x \in Steps \X Places |-> Journal(l)[x]]
  BY JournalDef
<1>2. ASSUME NEW x \in Steps \X Places PROVE Journal(l)[x] \in OutputOf
  <2>1. PICK t \in Steps, q \in Places : x = <<t, q>>
    OBVIOUS
  <2>2. Journal(l) \in JournalOf
    BY JournalIs
  <2> QED BY <2>2 DEF JournalOf
<1> QED BY <1>1, <1>2 DEF JournalOf

\* What the scan decided for the log it read.
LEMMA DecisionIs ==
  ASSUME log \in Seq(EventOf), ~ PassedOver
  PROVE  /\ Decision \in ScanOf
         /\ Decision.pc \in {"finalize", "cancelled", "record", "launch"}
         /\ Decision.pc = "finalize" => Ended(log) /\ Decision.outcome = LastOf(log).type
         /\ Decision.pc = "cancelled" => ~ Ended(log)
         /\ Decision.pc = "launch" => /\ ~ Ended(log) /\ Decision.ver = Executed(log)
                                      /\ Decision.journal = Journal(log)
<1>1. Executed(log) \in Versions /\ Journal(log) \in JournalOf
  <2>1. Newest(log, IsStart) # 0
    BY DEF PassedOver
  <2> QED BY <2>1, ExecutedIs, JournalTyped
<1> DEFINE j == Journal(log)  v == Executed(log)
<1>2. Ended(log) => LastOf(log).type \in Outcomes
  BY EndedIs
<1>3. \/ Ended(log) /\ Decision = [pc |-> "finalize", outcome |-> LastOf(log).type]
      \/ ~ Ended(log) /\ Decision = [pc |-> "cancelled"]
      \/ ~ Ended(log) /\ Decision = [pc |-> "record"]
      \/ ~ Ended(log) /\ Decision = [pc |-> "launch", ver |-> v, journal |-> j]
  <2>1. CASE Ended(log)
    BY <2>1 DEF Decision, Resumable
  <2>2. CASE ~ Ended(log) /\ LastControl(log) = "cancelling"
    BY <2>2 DEF Decision, Resumable
  <2>3. CASE ~ Ended(log) /\ LastControl(log) # "cancelling" /\ Resumable
    <3>1. Decision = [pc |-> "launch", ver |-> v, journal |-> j]
      BY <2>3 DEF Decision
    <3> QED BY <2>3, <3>1
  <2>4. CASE ~ Ended(log) /\ LastControl(log) # "cancelling" /\ ~ Resumable
    BY <2>4 DEF Decision
  <2> QED BY <2>1, <2>2, <2>3, <2>4
<1> HIDE DEF j, v
<1>4. j \in JournalOf /\ v \in Versions
  BY <1>1 DEF j, v
<1>5. Decision \in ScanOf
  BY <1>2, <1>3, <1>4, ScansAre
<1>6. /\ Decision.pc \in {"finalize", "cancelled", "record", "launch"}
      /\ Decision.pc = "finalize" => Ended(log) /\ Decision.outcome = LastOf(log).type
      /\ Decision.pc = "cancelled" => ~ Ended(log)
      /\ Decision.pc = "launch" => ~ Ended(log) /\ Decision.ver = v /\ Decision.journal = j
  BY <1>3
<1> QED BY <1>5, <1>6 DEF j, v

\* What the scan makes of the log it comes to.
LEMMA ReadsIs ==
  ASSUME ScanReads
  PROVE  /\ scan.pc = "wait"
         /\ UNCHANGED <<log, written, summary, bootRec, up, epoch, ctl, exec, pending, ask, prep, stopped>>
         /\ \/ PassedOver /\ scan' = [pc |-> "record"] /\ torn' = torn /\ left' = left
            \/ ~ PassedOver /\ scan' = [pc |-> "record"] /\ left' = "older" /\ torn' = torn
            \/ ~ PassedOver /\ scan' = Decision /\ left' = "none" /\ torn' = FALSE
            \/ ~ PassedOver /\ scan' = [pc |-> "record"] /\ left' \in Skips /\ torn' = FALSE
BY DEF ScanReads, proc, SkippedFor

\* What each action does to the executor.
LEMMA ExecMoves ==
  ASSUME Typed, Next
  PROVE  \/ exec' = exec /\ (ctl' = "none" <=> ctl = "none")
         \/ \E s \in Steps : Moved(s)
         \/ Goes("clear", "open") /\ ctl' = ctl
         \/ Goes("open", "flow") /\ ctl' = ctl
         \/ Goes("flow", "end") /\ ctl' = ctl
         \/ Goes("end", "finalize") /\ ctl' = ctl
         \/ Goes("finalize", "teardown") /\ ctl' = ctl
         \/ exec' = NoExec /\ ctl' = "none"
         \/ exec = NoExec /\ ctl' = "running" /\ \E q \in {"clear", "open"}, v \in Versions, j \in JournalOf : Begun(q, v, j)
<1>a. Shape
  BY DEF Typed
<1>p. {"clear", "open", "flow", "end", "finalize", "teardown"} \subseteq Pcs
  BY DEF Pcs
<1>r. exec.pc \in Pcs => exec \in RunningOf
  BY <1>a, ExecIs DEF Pcs
<1>j. [x \in Steps \X Places |-> NoOutput] \in JournalOf
  BY DEF JournalOf, OutputOf
<1>n. 1 \in Versions
  BY FlowAssumption
<1>g. ASSUME NEW q \in Pcs \ {"flow"}, NEW r \in Pcs, exec.pc = q, exec' = At(exec, r) PROVE Goes(q, r)
  BY <1>r, <1>g, RunningAt DEF Goes
<1>b. ASSUME NEW by \in {"caller", "boot", "hand"}, NEW q \in {"clear", "open"}, NEW v \in Versions,
             NEW j \in JournalOf, exec' = Exec(by, q, v, j)
      PROVE  Begun(q, v, j)
  BY <1>b, NewExecIs DEF Begun
<1>1. CASE Launch
  <2>1. exec = NoExec /\ ctl' = "running"
    BY <1>1, <1>a DEF Launch, Live, Shape
  <2> QED BY <1>1, <1>j, <1>n, <1>b, <2>1 DEF Launch
<1>2. CASE Clear
  BY <1>2, <1>p, <1>g DEF Clear, At
<1>3. CASE OpenLog
  BY <1>3, <1>p, <1>g DEF OpenLog, At
<1>4. CASE \E s \in Steps : FlowStep(s)
  BY <1>4, FlowStepMoves
<1>5. CASE FlowEnds
  <2> DEFINE o == IF \E s \in Steps : exec.doing[s] = "failed" THEN "error"
                  ELSE IF \E s \in Steps : exec.doing[s] = "stopped" THEN "cancelled" ELSE "success"
  <2>1. exec' = Comes(exec, o) /\ exec.pc = "flow" /\ ctl' = ctl
    BY <1>5 DEF FlowEnds, Comes
  <2>2. o \in Outcomes
    BY DEF Outcomes
  <2> HIDE DEF o
  <2> QED BY <1>p, <1>r, <2>1, <2>2, RunningEnds DEF Goes
<1>6. CASE AppendEnd
  BY <1>6, <1>p, <1>g DEF AppendEnd, At
<1>7. CASE Finalize
  BY <1>7, <1>p, <1>g DEF Finalize, At
<1>8. CASE Untrack
  BY <1>8 DEF Untrack
<1>9. CASE \E q \in Requests : Find(q)
  BY <1>9 DEF Find
<1>10. CASE Act
  <2>1. ask \in AskOf /\ exec' = exec /\ ctl' = IF ask.live THEN Asked(ctl, ask.req) ELSE ctl
    BY <1>10, <1>a DEF Act, Shape
  <2>2. ctl \in {"none", "running", "pausing", "cancelling"} /\ (ask.live => ctl # "none")
    BY <1>a DEF Shape
  <2>3. ctl # "none" => Asked(ctl, ask.req) # "none"
    BY <2>1, <2>2, AskedIs
  <2> QED BY <2>1, <2>2, <2>3
<1>11. CASE Miss \/ MarkerLands \/ Resumes \/ Boot \/ ScanReads \/ ScanCancels \/ ScanFinalizes \/ ScanRecords
  BY <1>11 DEF Miss, MarkerLands, Resumes, Prepare, Boot, ScanReads, ScanCancels, ScanFinalizes, ScanRecords
<1>12. CASE Hands
  <2>1. PICK p \in prep : ByHand(p)
    BY <1>12 DEF Hands
  <2>2. p.ver \in Versions /\ p.journal \in JournalOf
    BY <1>a DEF Shape
  <2>3. CASE Live
    BY <2>1, <2>3 DEF ByHand
  <2>4. CASE ~ Live
    <3>1. exec = NoExec /\ ctl' = "running" /\ exec' = Exec("hand", "clear", p.ver, p.journal)
      BY <2>1, <1>a, <2>4 DEF ByHand, Live, Shape
    <3> QED BY <1>b, <2>2, <3>1
  <2> QED BY <2>3, <2>4
<1>13. CASE Crash
  BY <1>13 DEF Crash
<1>14. CASE ScanLaunches
  <2>1. scan \in ScanOf /\ scan.pc = "launch"
    BY <1>14, <1>a DEF ScanLaunches, Shape
  <2>2. scan.ver \in Versions /\ scan.journal \in JournalOf
    BY <2>1, ScanIs
  <2>3. CASE Live
    BY <1>14, <2>3 DEF ScanLaunches
  <2>4. CASE ~ Live
    <3>1. exec = NoExec /\ ctl' = "running" /\ exec' = Exec("boot", "clear", scan.ver, scan.journal)
      BY <1>14, <1>a, <2>4 DEF ScanLaunches, Live, Shape
    <3> QED BY <1>b, <2>2, <3>1
  <2> QED BY <2>3, <2>4
<1> QED BY <1>1, <1>2, <1>3, <1>4, <1>5, <1>6, <1>7, <1>8, <1>9, <1>10, <1>11, <1>12, <1>13, <1>14, NextIs


\* What each action does to the log.
LEMMA LogMoves ==
  ASSUME Typed, Next
  PROVE  \/ log' = log /\ written' = written
         \/ \E s \in Steps : Moved(s)
         \/ /\ written' = epoch /\ epoch' = epoch /\ up' = up
            /\ \/ /\ Goes("open", "flow") /\ pending = <<>>
                  /\ \E v \in Versions : log' = Append(log, Start(v)) \/ log' = Append(log, Resumed(v))
               \/ /\ Goes("end", "finalize") /\ pending = <<>>
                  /\ exec.outcome \in Outcomes /\ log' = Append(log, End(exec.outcome))
               \/ /\ pending # <<>> /\ Head(pending) \in MarkOf /\ exec' = exec
                  /\ log' = Append(log, Head(pending))
               \/ scan.pc = "cancelled" /\ exec' = exec /\ log' = Append(log, End("cancelled"))
<1>a. Shape
  BY DEF Typed
<1>p. {"clear", "open", "flow", "end", "finalize", "teardown"} \subseteq Pcs
  BY DEF Pcs
<1>r. exec.pc \in Pcs => exec \in RunningOf /\ exec # NoExec
  BY <1>a, ExecIs DEF Pcs
<1>g. ASSUME NEW q \in Pcs \ {"flow"}, NEW r \in Pcs, exec.pc = q, exec' = At(exec, r) PROVE Goes(q, r)
  BY <1>r, <1>g, RunningAt DEF Goes
<1>1. CASE Launch \/ Clear \/ FlowEnds \/ Finalize \/ Untrack \/ (\E q \in Requests : Find(q)) \/ Act \/ Miss
           \/ Resumes \/ Hands
  BY <1>1 DEF Launch, Clear, FlowEnds, Finalize, Untrack, Find, Act, Miss, Resumes, Prepare, Hands, ByHand, disk
<1>2. CASE Crash \/ Boot \/ ScanReads \/ ScanFinalizes \/ ScanLaunches \/ ScanRecords
  BY <1>2 DEF Crash, Boot, ScanReads, ScanFinalizes, ScanLaunches, ScanRecords, disk
<1>3. CASE \E s \in Steps : FlowStep(s)
  BY <1>3, FlowStepMoves
<1>4. CASE OpenLog
  <2>1. exec.pc = "open" /\ exec' = At(exec, "flow") /\ exec.pc \in Pcs
    BY <1>4, <1>p DEF OpenLog, At
  <2>2. Goes("open", "flow") /\ exec.ver \in Versions
    BY <1>g, <1>p, <1>r, <2>1, RunningIs
  <2>3. pending = <<>> /\ written' = epoch /\ epoch' = epoch /\ up' = up
    BY <1>4 DEF OpenLog, Write, Append1, proc
  <2>4. log' = Append(log, Start(exec.ver)) \/ log' = Append(log, Resumed(exec.ver))
    BY <1>4 DEF OpenLog, Write, Append1
  <2> QED BY <2>2, <2>3, <2>4
<1>5. CASE AppendEnd
  <2>1. exec.pc = "end" /\ exec' = At(exec, "finalize") /\ exec.pc \in Pcs
    BY <1>5, <1>p DEF AppendEnd, At
  <2>2. Goes("end", "finalize") /\ exec.outcome \in Outcomes
    BY <1>g, <1>p, <1>r, <2>1 DEF Typed, DoneInv
  <2>3. pending = <<>> /\ written' = epoch /\ epoch' = epoch /\ up' = up /\ log' = Append(log, End(exec.outcome))
    BY <1>5 DEF AppendEnd, Write, Append1, proc
  <2> QED BY <2>2, <2>3
<1>6. CASE MarkerLands
  <2>1. pending \in Seq(MarkOf) /\ pending # <<>>
    BY <1>6, <1>a DEF MarkerLands, Shape
  <2>2. Head(pending) \in MarkOf
    BY <2>1
  <2> QED BY <1>6, <2>2 DEF MarkerLands, Append1, proc
<1>7. CASE ScanCancels
  BY <1>7 DEF ScanCancels, Append1, proc
<1> QED BY <1>1, <1>2, <1>3, <1>4, <1>5, <1>6, <1>7, NextIs

LEMMA LogKept ==
  ASSUME Typed, Next
  PROVE  log' \in Seq(EventOf) /\ epoch' \in Nat /\ epoch <= epoch' /\ written' \in 0 .. epoch' /\ (log # <<>> => log' # <<>>)
<1>a. log \in Seq(EventOf) /\ epoch \in Nat /\ written \in 0 .. epoch /\ 1 <= epoch
  BY DEF Typed, Shape
<1>b. epoch' = epoch \/ epoch' = epoch + 1
  <2>1. ASSUME NEW s \in Steps, FlowStep(s) PROVE epoch' = epoch
    BY <2>1, FlowStepMoves DEF Moved
  <2> QED BY <2>1, NextIs DEF Launch, Clear, OpenLog, FlowEnds, AppendEnd, Finalize, Untrack, Find, Act, Miss,
             MarkerLands, Resumes, Prepare, Hands, ByHand, Crash, Boot, ScanReads, ScanCancels, ScanFinalizes,
             ScanLaunches, ScanRecords, proc
<1>c. \A e \in EventOf : Append(log, e) \in Seq(EventOf) /\ Append(log, e) # <<>>
  BY <1>a, AppendIs
<1>d. epoch \in 0 .. epoch' /\ (\A n \in 0 .. epoch : n \in 0 .. epoch') /\ epoch' \in Nat /\ epoch <= epoch'
  BY <1>a, <1>b
<1>1. CASE log' = log /\ written' = written
  BY <1>1, <1>a, <1>d
<1>2. ASSUME NEW s \in Steps, Moved(s) PROVE log' \in Seq(EventOf) /\ written' \in 0 .. epoch' /\ (log # <<>> => log' # <<>>)
  <2>1. CASE log' = log /\ written' = written
    BY <2>1, <1>a, <1>d
  <2>2. CASE /\ written' = epoch
             /\ \E p \in Places, v \in Values : log' = Append(log, StepEnd(s, p, Output(s, v))) /\ Output(s, v) \in OutOf
    BY <2>2, <1>c, <1>d, EventsAre
  <2> QED BY <1>2, <2>1, <2>2 DEF Moved
<1>3. CASE /\ written' = epoch
           /\ \/ \E v \in Versions : log' = Append(log, Start(v)) \/ log' = Append(log, Resumed(v))
              \/ exec.outcome \in Outcomes /\ log' = Append(log, End(exec.outcome))
              \/ Head(pending) \in MarkOf /\ log' = Append(log, Head(pending))
              \/ log' = Append(log, End("cancelled"))
  <2>1. "cancelled" \in Outcomes
    BY DEF Outcomes
  <2>2. \E e \in EventOf : log' = Append(log, e)
    BY <1>3, <2>1, EventsAre
  <2> QED BY <1>3, <1>c, <1>d, <2>2
<1> QED BY <1>1, <1>2, <1>3, <1>d, LogMoves

LEMMA ExecKept ==
  ASSUME Typed, Next
  PROVE  /\ exec' \in RunningOf \cup {NoExec}
         /\ exec' = NoExec <=> ctl' = "none"
<1>a. exec \in RunningOf \cup {NoExec} /\ (exec = NoExec <=> ctl = "none")
  BY DEF Typed, Shape
<1>b. \A x \in RunningOf : x # NoExec
  <2>1. \A x \in RunningOf : x.pc \in Pcs
    BY RunningIs
  <2> QED BY <2>1 DEF NoExec, Pcs
<1>1. ASSUME NEW s \in Steps, Moved(s) PROVE exec' \in RunningOf /\ exec \in RunningOf /\ ctl' = ctl
  BY <1>1 DEF Moved
<1>2. ASSUME NEW q, NEW r, Goes(q, r) PROVE exec' \in RunningOf /\ exec \in RunningOf
  BY <1>2 DEF Goes
<1>3. ASSUME NEW q, NEW v, NEW j, Begun(q, v, j) PROVE exec' \in RunningOf
  BY <1>3 DEF Begun
<1> QED BY <1>a, <1>b, <1>1, <1>2, <1>3, ExecMoves

LEMMA CtlKept ==
  ASSUME Typed, Next
  PROVE  ctl' \in {"none", "running", "pausing", "cancelling"}
<1>a. ctl \in {"none", "running", "pausing", "cancelling"} /\ ask \in AskOf \cup {NoAsk}
  BY DEF Typed, Shape
<1>1. CASE Act
  <2>1. ask \in AskOf
    BY <1>1, <1>a DEF Act
  <2> QED BY <1>1, <1>a, <2>1, AskedIs DEF Act
<1>2. ASSUME NEW s \in Steps, FlowStep(s) PROVE ctl' = ctl
  BY <1>2, FlowStepMoves DEF Moved
<1> QED BY <1>a, <1>1, <1>2, NextIs DEF Launch, Clear, OpenLog, FlowEnds, AppendEnd, Finalize, Untrack, Find,
           Miss, MarkerLands, Resumes, Prepare, Hands, ByHand, Crash, Boot, ScanReads, ScanCancels, ScanFinalizes,
           ScanLaunches, ScanRecords

LEMMA DiskKept ==
  ASSUME Typed, Next
  PROVE  /\ torn' \in BOOLEAN /\ up' \in BOOLEAN
         /\ bootRec' \in 0 .. epoch' /\ summary' \in Outcomes \cup {"none"}
<1>a. /\ torn \in BOOLEAN /\ up \in BOOLEAN /\ bootRec \in 0 .. epoch /\ summary \in Outcomes \cup {"none"}
      /\ epoch \in Nat /\ scan \in ScanOf
  BY DEF Typed, Shape
<1>b. epoch' \in Nat /\ epoch <= epoch'
  BY LogKept
<1>c. bootRec \in 0 .. epoch' /\ epoch \in 0 .. epoch'
  BY <1>a, <1>b
<1>1. CASE Finalize
  <2>1. exec \in RunningOf /\ exec.outcome \in Outcomes \cup {"none"}
    BY <1>1, ExecIs, RunningIs DEF Typed, Finalize
  <2> QED BY <1>1, <1>a, <1>c, <2>1 DEF Finalize, proc
<1>2. CASE ScanFinalizes
  BY <1>2, <1>a, <1>c, ScanIs DEF ScanFinalizes, proc
<1>3. ASSUME NEW s \in Steps, FlowStep(s)
      PROVE  torn' = torn /\ up' = up /\ bootRec' = bootRec /\ summary' = summary
  BY <1>3, FlowStepMoves DEF Moved
<1>4. CASE Launch \/ Clear \/ OpenLog \/ FlowEnds \/ AppendEnd \/ Untrack \/ (\E q \in Requests : Find(q)) \/ Act
           \/ Miss \/ MarkerLands
  BY <1>4, <1>a, <1>c DEF Launch, Clear, OpenLog, FlowEnds, AppendEnd, Untrack, Find, Act, Miss, MarkerLands,
     Write, disk, proc
<1>5. CASE Resumes \/ Hands \/ Boot \/ ScanReads \/ ScanCancels \/ ScanLaunches \/ ScanRecords
  BY <1>5, <1>a, <1>c DEF Resumes, Prepare, Hands, ByHand, Boot, ScanReads, ScanCancels, ScanLaunches, ScanRecords,
     disk, proc
<1>6. CASE Crash
  BY <1>6, <1>a, <1>c DEF Crash
<1> QED BY <1>a, <1>c, <1>1, <1>2, <1>3, <1>4, <1>5, <1>6, NextIs

LEMMA QueuesKept ==
  ASSUME Typed, Next
  PROVE  /\ pending' \in Seq(MarkOf) /\ ask' \in AskOf \cup {NoAsk} /\ (ask'.live => ctl' # "none")
         /\ scan' \in ScanOf /\ (\A p \in prep' : p.ver \in Versions /\ p.journal \in JournalOf)
<1>a. /\ log \in Seq(EventOf) /\ pending \in Seq(MarkOf) /\ ask \in AskOf \cup {NoAsk} /\ (ask.live => ctl # "none")
      /\ scan \in ScanOf /\ (\A p \in prep : p.ver \in Versions /\ p.journal \in JournalOf) /\ ctl \in {"none", "running", "pausing", "cancelling"}
  BY DEF Typed, Shape
<1>n. ~ NoAsk.live
  BY AskIs
<1>1. CASE Untrack
  <2>1. ask' \in AskOf \cup {NoAsk} /\ ~ ask'.live
    BY <1>1, <1>a, AskIs DEF Untrack
  <2> QED BY <1>1, <1>a, <2>1 DEF Untrack
<1>2. ASSUME NEW q \in Requests, Find(q)
      PROVE  ask' \in AskOf /\ ctl' # "none" /\ pending' = pending /\ scan' = scan /\ prep' = prep
  BY <1>2, AskIs DEF Find, Live
<1>3. CASE Act
  <2>1. ask \in AskOf
    BY <1>3, <1>a DEF Act
  <2>2. Append(pending, Marker(Mark(ask.req))) \in Seq(MarkOf)
    BY <1>a, <2>1, MarksAre
  <2> QED BY <1>3, <1>a, <1>n, <2>2 DEF Act
<1>4. CASE MarkerLands
  BY <1>4, <1>a DEF MarkerLands
<1>5. ASSUME NEW v \in Versions, NEW g, Prepare(v, g)
      PROVE  /\ \A p \in prep' : p.ver \in Versions /\ p.journal \in JournalOf
             /\ UNCHANGED <<pending, ask, ctl, scan>>
  <2>1. Journal(log) \in JournalOf
    BY <1>a, ExecutedIs, JournalTyped
  <2>2. Without(Journal(log), Changed(Executed(log), v) \cup g) \in JournalOf
    BY <2>1, WithoutIs
  <2>3. \A p \in prep' : p \in prep \/ (p.ver \in Versions /\ p.journal \in JournalOf)
    BY <1>5, <2>2, PreparedIs DEF Prepare
  <2> QED BY <1>5, <1>a, <2>3 DEF Prepare
<1>6. CASE Crash
  BY <1>6, <1>n, Empty, ScansAre DEF Crash
<1>7. CASE Boot \/ ScanCancels \/ ScanFinalizes \/ ScanRecords
  <2>1. /\ [pc |-> "wait"] \in ScanOf /\ [pc |-> "finalize", outcome |-> "cancelled"] \in ScanOf
        /\ [pc |-> "record"] \in ScanOf /\ [pc |-> "done"] \in ScanOf
    BY ScansAre DEF Outcomes
  <2> QED BY <1>7, <1>a, <2>1 DEF Boot, ScanCancels, ScanFinalizes, ScanRecords
<1>8. CASE ScanReads
  <2>1. [pc |-> "record"] \in ScanOf /\ (~ PassedOver => Decision \in ScanOf)
    BY <1>a, ScansAre, DecisionIs
  <2>2. scan' = [pc |-> "record"] \/ (~ PassedOver /\ scan' = Decision)
    BY <1>8, ReadsIs
  <2> QED BY <1>8, <1>a, <2>1, <2>2 DEF ScanReads
<1>9. CASE ScanLaunches
  <2>1. [pc |-> "record"] \in ScanOf /\ (ctl' = ctl \/ ctl' = "running")
    BY <1>9, ScansAre DEF ScanLaunches
  <2> QED BY <1>9, <1>a, <2>1 DEF ScanLaunches
<1>10. ASSUME NEW s \in Steps, FlowStep(s)
       PROVE  UNCHANGED <<pending, ask, ctl, scan, prep>>
  BY <1>10, FlowStepMoves DEF Moved
<1>11. CASE Launch \/ Hands \/ Miss
  BY <1>11, <1>a, <1>n DEF Launch, Hands, ByHand, Miss
<1>12. CASE Clear \/ OpenLog \/ FlowEnds \/ AppendEnd \/ Finalize
  BY <1>12, <1>a DEF Clear, OpenLog, FlowEnds, AppendEnd, Finalize, Write
<1>13. Resumes => /\ \A p \in prep' : p.ver \in Versions /\ p.journal \in JournalOf
                  /\ UNCHANGED <<pending, ask, ctl, scan>>
  BY <1>5 DEF Resumes
<1> QED BY <1>a, <1>1, <1>2, <1>3, <1>4, <1>6, <1>7, <1>8, <1>9, <1>10, <1>11, <1>12, <1>13, NextIs

LEMMA DoneKept ==
  ASSUME Typed, Next
  PROVE  DoneInv'
<1>a. Shape /\ DoneInv
  BY DEF Typed
<1>b. exec \in RunningOf => exec # NoExec
  BY <1>a, ExecIs
<1>d. \A s \in Steps : Deps[s] \subseteq Steps
  BY FlowAssumption
<1>1. CASE exec' = exec
  BY <1>1, <1>a DEF DoneInv, DepsDone
<1>2. CASE exec' = NoExec
  BY <1>2 DEF DoneInv
<1>3. ASSUME NEW s \in Steps, Moved(s) PROVE DoneInv'
  <2>1. /\ exec # NoExec /\ exec'.pc = "flow" /\ exec.doing[s] # "done"
        /\ \A t \in Steps : t # s => exec'.doing[t] = exec.doing[t] /\ exec'.out[t] = exec.out[t]
        /\ exec'.doing[s] = "done" <=> exec'.out[s] # NoOutput
        /\ exec'.doing[s] # "stopped" => DepsDone(s)
    BY <1>3, <1>b DEF Moved
  <2>2. ASSUME NEW t \in Steps, DepsDone(t) PROVE DepsDone(t)'
    BY <1>d, <2>1, <2>2 DEF DepsDone
  <2>3. ASSUME NEW t \in Steps PROVE (exec.doing[t] = "done" <=> exec.out[t] # NoOutput)
                                    /\ (exec.doing[t] \notin {"wait", "stopped"} => DepsDone(t))
    BY <1>a, <2>1 DEF DoneInv
  <2>4. ASSUME NEW t \in Steps PROVE (exec'.doing[t] = "done" <=> exec'.out[t] # NoOutput)
                                    /\ (exec'.doing[t] \notin {"wait", "stopped"} => DepsDone(t)')
    BY <2>1, <2>2, <2>3
  <2>5. \A t \in Steps : (exec'.doing[t] = "done" <=> exec'.out[t] # NoOutput)
    BY <2>4
  <2>6. \A t \in Steps : exec'.doing[t] \notin {"wait", "stopped"} => DepsDone(t)'
    BY <2>4
  <2>7. exec'.pc \notin {"clear", "open", "end", "finalize"}
    BY <2>1
  <2> QED BY <2>5, <2>6, <2>7 DEF DoneInv
<1>4. ASSUME NEW q \in Pcs, NEW r \in Pcs, Goes(q, r), <<q, r>> \in {<<"clear", "open">>, <<"open", "flow">>, <<"flow", "end">>, <<"end", "finalize">>, <<"finalize", "teardown">>}
      PROVE  DoneInv'
  <2>1. exec # NoExec /\ exec.pc = q /\ exec'.pc = r /\ exec'.doing = exec.doing /\ exec'.out = exec.out
    BY <1>4, <1>b DEF Goes
  <2>2. r \in {"clear", "open"} => q \in {"clear", "open"}
    BY <1>4
  <2>3. r \in {"end", "finalize"} => exec'.outcome \in Outcomes
    <3>1. CASE r = "end"
      <4>1. q = "flow"
        BY <1>4, <3>1
      <4> QED BY <1>4, <3>1 DEF Goes
    <3>2. CASE r = "finalize"
      BY <1>4, <1>a, <2>1, <3>2 DEF Goes, DoneInv
    <3> QED BY <3>1, <3>2
  <2>4. \A s \in Steps : DepsDone(s) => DepsDone(s)'
    BY <2>1 DEF DepsDone
  <2> QED BY <1>a, <2>1, <2>2, <2>3, <2>4 DEF DoneInv
<1>5. ASSUME NEW q \in {"clear", "open"}, NEW v, NEW j, Begun(q, v, j) PROVE DoneInv'
  BY <1>5 DEF Begun, DoneInv
<1>p. {"clear", "open", "flow", "end", "finalize", "teardown"} \subseteq Pcs
  BY DEF Pcs
<1> QED BY <1>1, <1>2, <1>3, <1>4, <1>5, <1>p, ExecMoves

LEMMA TypedKept ==
  Typed /\ [Next]_vars => Typed'
<1> SUFFICES ASSUME Typed, [Next]_vars PROVE Typed'
  OBVIOUS
<1>1. CASE Next
  <2>1. 1 <= epoch /\ epoch \in Nat
    BY DEF Typed, Shape
  <2>2. 1 <= epoch'
    BY <1>1, <2>1, LogKept
  <2>3. Shape'
    BY <1>1, <2>2, LogKept, ExecKept, CtlKept, DiskKept, QueuesKept DEF Shape
  <2> QED BY <1>1, <2>3, DoneKept DEF Typed
<1>2. CASE UNCHANGED vars
  BY <1>2 DEF vars, disk, proc, bounds, Typed, Shape, DoneInv, DepsDone
<1> QED BY <1>1, <1>2

LEMMA TypedIsTypeOK == Typed => TypeOK
<1> SUFFICES ASSUME Typed PROVE TypeOK
  OBVIOUS
<1>a. Shape
  BY DEF Typed
<1>1. \A i \in 1 .. Len(log) : log[i].type \in Outcomes \cup {"start", "resumed", "step", "paused", "live", "cancelling"}
  BY <1>a, EventIs DEF Shape
<1>2. exec.pc \in {"idle", "clear", "open", "flow", "end", "finalize", "teardown"}
  BY <1>a, ExecIs DEF Shape, Pcs
<1>3. exec.pc = "idle" <=> ~ Live
  BY <1>a, ExecIs DEF Shape, Live
<1>4. exec # NoExec => \A s \in Steps : IsOutput(exec.out[s])
  <2>1. ASSUME exec # NoExec, NEW s \in Steps PROVE IsOutput(exec.out[s])
    <3>1. exec \in RunningOf
      BY <1>a, <2>1, ExecIs
    <3>2. exec.out \in [Steps -> OutputOf]
      BY <3>1, RunningIs
    <3>3. exec.out[s] \in OutputOf
      BY <3>2
    <3> QED BY <3>3, OutIs DEF IsOutput, OutputOf
  <2> QED BY <2>1
<1>5. scan.pc \in {"off", "wait", "cancelled", "finalize", "launch", "record", "done"}
  BY <1>a, ScanIs DEF Shape
<1> QED BY <1>a, <1>1, <1>2, <1>3, <1>4, <1>5 DEF Shape, TypeOK

\* The log, the summary, the executor, the scan and a prepared resume stay what the code declares
\* them to be, whatever crashes, is resumed or is asked of the run.
THEOREM DurableTypeCorrect == Spec => []TypeOK
<1>1. Init => Typed
  BY ShapeInit
<1>2. Typed /\ [Next]_vars => Typed'
  BY TypedKept
<1>3. Typed => TypeOK
  BY TypedIsTypeOK
<1> QED BY <1>1, <1>2, <1>3, PTL DEF Spec


-----------------------------------------------------------------------------
(* A fragment is healed before anything is written behind it               *)

\* A process that is down has nothing; one that is up on a torn log has not healed it yet, and
\* nothing of it writes.
Idle == exec = NoExec /\ pending = <<>> /\ ask = NoAsk /\ prep = {}
Deciding == scan.pc \in {"cancelled", "finalize", "launch"}

TornInv ==
  /\ ~ up => Idle /\ scan.pc = "off"
  /\ up /\ torn => Idle /\ ~ Deciding /\ 1 < epoch

\* The actions of something that is at work leave the process and the fragment alone.
Works ==
  \/ Clear \/ OpenLog \/ (\E s \in Steps : FlowStep(s)) \/ FlowEnds \/ AppendEnd \/ Finalize \/ Untrack
  \/ (\E q \in Requests : Find(q)) \/ Act \/ Miss \/ MarkerLands \/ Hands
  \/ ScanCancels \/ ScanFinalizes \/ ScanLaunches

LEMMA WorksIs ==
  ASSUME Typed, Works
  PROVE  /\ ~ Idle \/ Deciding
         /\ up' = up /\ torn' = torn /\ epoch' = epoch
<1>a. Shape /\ (exec = NoExec => exec.pc = "idle") /\ (Live => exec # NoExec)
  BY ExecIs DEF Typed, Shape, Live
<1>1. ASSUME NEW s \in Steps, FlowStep(s)
      PROVE  exec # NoExec /\ up' = up /\ torn' = torn /\ epoch' = epoch
  <2>1. Moved(s)
    BY <1>1, FlowStepMoves
  <2> QED BY <1>a, <2>1 DEF Moved
<1>2. CASE Clear \/ OpenLog \/ FlowEnds \/ AppendEnd \/ Finalize \/ Untrack
  BY <1>2, <1>a DEF Idle, Clear, OpenLog, FlowEnds, AppendEnd, Finalize, Untrack, Write, disk, proc
<1>3. CASE (\E q \in Requests : Find(q)) \/ Act \/ Miss \/ MarkerLands \/ Hands
  BY <1>3, <1>a DEF Idle, Find, Act, Miss, MarkerLands, Hands, ByHand, disk, proc
<1>4. CASE ScanCancels \/ ScanFinalizes \/ ScanLaunches
  BY <1>4 DEF Deciding, ScanCancels, ScanFinalizes, ScanLaunches, disk, proc
<1> QED BY <1>1, <1>2, <1>3, <1>4 DEF Works, Idle

LEMMA NextWorks ==
  Next <=> Works \/ Launch \/ Resumes \/ Crash \/ Boot \/ ScanReads \/ ScanRecords
BY NextIs DEF Works

LEMMA TornKept ==
  Typed /\ TornInv /\ [Next]_vars => TornInv'
<1> SUFFICES ASSUME Typed, TornInv, [Next]_vars PROVE TornInv'
  OBVIOUS
<1>a. epoch \in Nat /\ 1 <= epoch
  BY DEF Typed, Shape
<1>1. CASE Works
  <2>1. up /\ ~ torn
    BY <1>1, WorksIs DEF TornInv, Deciding, Typed, Shape
  <2> QED BY <1>1, <2>1, WorksIs DEF TornInv
<1>2. CASE Launch
  <2>1. up /\ ~ torn
    BY <1>2, <1>a DEF Launch, TornInv
  <2> QED BY <1>2, <2>1 DEF Launch, TornInv, disk, proc
<1>3. CASE Resumes
  BY <1>3 DEF Resumes, Prepare, TornInv, proc
<1>4. CASE Crash
  BY <1>4 DEF Crash, TornInv, Idle
<1>5. CASE Boot
  <2>1. Idle' /\ ~ Deciding'
    BY <1>5 DEF Boot, TornInv, Idle, Deciding
  <2>2. up' /\ 1 < epoch'
    BY <1>5, <1>a DEF Boot
  <2> QED BY <2>1, <2>2 DEF TornInv
<1>6. CASE ScanReads
  <2>1. up' = up /\ epoch' = epoch /\ (Idle => Idle') /\ up
    <3>1. /\ scan.pc = "wait"
          /\ UNCHANGED <<up, epoch, exec, pending, ask, prep>>
      BY <1>6, ReadsIs
    <3>2. up \in BOOLEAN
      BY DEF Typed, Shape
    <3> QED BY <3>1, <3>2 DEF TornInv, Idle
  <2>2. torn' = FALSE \/ (torn' = torn /\ scan' = [pc |-> "record"])
    BY <1>6, ReadsIs
  <2>3. scan' = [pc |-> "record"] => ~ Deciding'
    BY DEF Deciding
  <2> QED BY <2>1, <2>2, <2>3 DEF TornInv
<1>7. CASE ScanRecords
  <2>1. up' = up /\ epoch' = epoch /\ torn' = torn /\ (Idle => Idle') /\ ~ Deciding' /\ up
    BY <1>7 DEF ScanRecords, TornInv, Idle, Deciding, proc
  <2> QED BY <2>1 DEF TornInv
<1>8. CASE UNCHANGED vars
  BY <1>8 DEF vars, disk, proc, TornInv, Idle, Deciding
<1> QED BY <1>1, <1>2, <1>3, <1>4, <1>5, <1>6, <1>7, <1>8, NextWorks

LEMMA NoGlue ==
  Typed /\ TornInv /\ [Next]_vars => [Len(log') > Len(log) => ~ torn]_vars
<1> SUFFICES ASSUME Typed, TornInv, Next, Len(log') > Len(log) PROVE ~ torn
  OBVIOUS
<1>a. Len(log) \in Nat
  BY DEF Typed, Shape
<1>1. log' # log
  BY <1>a
<1>2. Works
  BY <1>1, NextWorks DEF Launch, Resumes, Prepare, Crash, Boot, ScanReads, ScanRecords, disk
<1>3. up
  BY <1>2, WorksIs DEF TornInv, Deciding
<1> QED BY <1>2, <1>3, WorksIs DEF TornInv

\* A kill may leave half a line; nothing is ever appended to it, so the log stays readable.
THEOREM NothingIsGlued == Spec => NeverGlued
<1>1. Init => Typed /\ TornInv
  <2>1. Init => TornInv
    BY DEF Init, TornInv
  <2> QED BY <2>1, ShapeInit
<1>2. Typed /\ TornInv /\ [Next]_vars => (Typed /\ TornInv)'
  BY TypedKept, TornKept
<1>3. Typed /\ TornInv /\ [Next]_vars => [Len(log') > Len(log) => ~ torn]_vars
  BY NoGlue
<1> QED BY <1>1, <1>2, <1>3, PTL DEF Spec, NeverGlued

-----------------------------------------------------------------------------
(* The boot scan and a resume by hand each have the run to themselves      *)

\* What a run that runs is resumed from is gone from its summary; who decides about a run that is
\* not live is alone with it.  A resume by hand waits for the boot scan and, unless resumes overlap,
\* for the one before it.
AloneInv ==
  /\ Deciding => exec = NoExec /\ prep = {} /\ log # <<>> /\ summary = "none"
  /\ prep # {} => scan.pc = "done" /\ log # <<>> /\ (~ Overlap => exec = NoExec)
  /\ ~ Overlap => \A p, q \in prep : p = q
  /\ summary # "none" => log # <<>>
  /\ exec.pc \in {"flow", "end", "finalize", "teardown"} => log # <<>>
  /\ exec.pc \in {"open", "flow", "end", "finalize"} => summary = "none"

LEMMA AloneKept ==
  ASSUME ~ Early
  PROVE  Typed /\ TornInv /\ AloneInv /\ [Next]_vars => AloneInv'
<1> SUFFICES ASSUME Typed, TornInv, AloneInv, [Next]_vars PROVE AloneInv'
  OBVIOUS
<1>a. Shape /\ (exec = NoExec <=> exec.pc = "idle") /\ (Live <=> exec # NoExec)
  BY ExecIs DEF Typed, Shape, Live
<1>i. NoExec.pc = "idle"
  BY DEF NoExec
<1>l. Next => (log # <<>> => log' # <<>>)
  BY LogKept
<1>1. CASE Launch
  <2>1. exec = NoExec /\ log = <<>>
    BY <1>1, <1>a DEF Launch
  <2>2. ~ Deciding /\ prep = {} /\ summary = "none"
    BY <2>1 DEF AloneInv
  <2>3. exec'.pc = "open"
    BY <1>1 DEF Launch, Exec
  <2>4. ~ Deciding' /\ prep' = {} /\ summary' = "none"
    BY <1>1, <2>2 DEF Launch, disk, Deciding
  <2> QED BY <2>3, <2>4 DEF AloneInv
<1>2. ASSUME exec # NoExec, exec' # NoExec, Next, prep' = prep, scan' = scan,
             summary' # "none" => (exec'.pc = "teardown" \/ (summary' = summary /\ exec'.pc # "open" /\ (exec'.pc = exec.pc))),
             exec'.pc \in {"flow", "end", "finalize", "teardown"} => log' # <<>>
      PROVE  AloneInv'
  <2>1. ~ Deciding /\ (prep # {} => scan.pc = "done" /\ log # <<>> /\ Overlap)
    BY <1>2 DEF AloneInv
  <2>2. ~ Deciding' /\ (prep' # {} => scan'.pc = "done" /\ log' # <<>> /\ Overlap)
    BY <1>2, <1>l, <2>1 DEF Deciding
  <2>3. summary' # "none" => log' # <<>>
    BY <1>2, <1>l DEF AloneInv
  <2>4. exec'.pc \in {"open", "flow", "end", "finalize"} => summary' = "none"
    BY <1>2 DEF AloneInv
  <2> QED BY <1>2, <2>2, <2>3, <2>4 DEF AloneInv
<1>3. ASSUME Next, exec' = exec, scan' = scan, prep' = prep, summary' = summary PROVE AloneInv'
  BY <1>3, <1>l DEF AloneInv, Deciding
<1>10. CASE Clear
  <2>1. exec # NoExec /\ prep' = prep /\ scan' = scan /\ summary' = "none" /\ exec.pc = "clear" /\ exec' = At(exec, "open")
    BY <1>10, <1>a DEF Clear, At
  <2>2. exec'.pc = "open"
    BY <1>a, <2>1, ExecIs, RunningAt DEF Pcs
  <2> QED BY <1>2, <1>10, <1>i, <2>1, <2>2, NextIs
<1>11. CASE OpenLog
  <2>1. exec # NoExec /\ prep' = prep /\ scan' = scan /\ summary' = summary /\ exec.pc = "open" /\ exec' = At(exec, "flow")
    BY <1>11, <1>a DEF OpenLog, Write, At
  <2>2. exec'.pc = "flow" /\ summary' = "none"
    BY <1>a, <2>1, ExecIs, RunningAt DEF Pcs, AloneInv
  <2>3. log' # <<>>
    <3>1. \E e : log' = Append(log, e)
      BY <1>11 DEF OpenLog, Write, Append1
    <3> QED BY <1>a, <3>1 DEF Shape
  <2> QED BY <1>2, <1>11, <1>i, <2>1, <2>2, <2>3, NextIs
<1>12. ASSUME NEW s \in Steps, FlowStep(s) PROVE AloneInv'
  <2>1. Moved(s) /\ Next
    BY <1>12, FlowStepMoves, NextIs
  <2>2. exec # NoExec /\ exec' # NoExec /\ exec.pc = "flow" /\ exec'.pc = "flow" /\ prep' = prep /\ scan' = scan /\ summary' = summary
    BY <1>a, <1>i, <2>1 DEF Moved
  <2>3. summary' = "none" /\ log' # <<>>
    BY <1>l, <2>1, <2>2 DEF AloneInv
  <2> QED BY <1>2, <2>1, <2>2, <2>3
<1>13. CASE FlowEnds
  <2>1. /\ exec # NoExec /\ prep' = prep /\ scan' = scan /\ summary' = summary /\ exec.pc = "flow" /\ log' = log
        /\ exec'.pc = "end"
    <3>1. exec \in RunningOf /\ exec.pc = "flow"
      BY <1>13, <1>a, ExecIs DEF FlowEnds
    <3>2. \E o \in Outcomes : exec' = Comes(exec, o)
      BY <1>13 DEF FlowEnds, Comes, Outcomes
    <3>3. exec'.pc = "end"
      BY <3>1, <3>2, RunningEnds
    <3> QED BY <1>13, <1>a, <3>1, <3>3 DEF FlowEnds, disk
  <2>2. summary' = "none" /\ log' # <<>>
    BY <2>1 DEF AloneInv
  <2> QED BY <1>2, <1>13, <1>i, <2>1, <2>2, NextIs
<1>14. CASE AppendEnd
  <2>1. exec # NoExec /\ prep' = prep /\ scan' = scan /\ summary' = summary /\ exec.pc = "end" /\ exec' = At(exec, "finalize")
    BY <1>14, <1>a DEF AppendEnd, Write, At
  <2>2. exec'.pc = "finalize" /\ summary' = "none"
    BY <1>a, <2>1, ExecIs, RunningAt DEF Pcs, AloneInv
  <2>3. log' # <<>>
    BY <1>l, <1>14, <2>1, NextIs DEF AloneInv
  <2> QED BY <1>2, <1>14, <1>i, <2>1, <2>2, <2>3, NextIs
<1>15. CASE Finalize
  <2>1. exec # NoExec /\ prep' = prep /\ scan' = scan /\ exec.pc = "finalize" /\ exec' = At(exec, "teardown") /\ log' = log
    BY <1>15, <1>a DEF Finalize, At
  <2>2. exec'.pc = "teardown" /\ log' # <<>>
    BY <1>a, <2>1, ExecIs, RunningAt DEF Pcs, AloneInv
  <2> QED BY <1>2, <1>15, <1>i, <2>1, <2>2, NextIs
<1>16. CASE Untrack
  <2>1. exec # NoExec /\ exec' = NoExec /\ prep' = prep /\ scan' = scan /\ summary' = summary /\ log' = log
    BY <1>16, <1>a DEF Untrack, disk
  <2>2. ~ Deciding
    BY <2>1 DEF AloneInv
  <2> QED BY <1>i, <2>1, <2>2 DEF AloneInv, Deciding
<1>17. CASE (\E q \in Requests : Find(q)) \/ Act \/ Miss \/ MarkerLands
  <2>1. exec' = exec /\ scan' = scan /\ prep' = prep /\ summary' = summary
    BY <1>17 DEF Find, Act, Miss, MarkerLands, disk
  <2> QED BY <1>3, <1>17, <2>1, NextIs
<1>18. CASE Resumes
  <2>1. PICK v \in Versions, g \in {{}} \cup {{s} : s \in FromSteps} : Prepare(v, g)
    BY <1>18 DEF Resumes
  <2>2. scan.pc = "done" /\ exec = NoExec /\ log # <<>>
    BY <1>a, <2>1, ExecutedIs DEF Prepare, Shape
  <2>3. exec' = exec /\ scan' = scan /\ summary' = summary /\ log' = log
    BY <2>1 DEF Prepare
  <2>4. ~ Overlap => \A p, q \in prep' : p = q
    BY <2>1 DEF Prepare
  <2> QED BY <1>i, <2>2, <2>3, <2>4 DEF AloneInv, Deciding
<1>19. CASE Hands
  <2>1. PICK p \in prep : ByHand(p)
    BY <1>19 DEF Hands
  <2>2. /\ scan.pc = "done" /\ log # <<>> /\ prep' = prep \ {p} /\ scan' = scan /\ summary' = summary /\ log' = log
        /\ ~ Overlap => prep' = {}
    BY <2>1 DEF ByHand, AloneInv, disk
  <2>3. exec' = exec \/ exec'.pc = "clear"
    BY <2>1 DEF ByHand, Exec
  <2>4. ~ Overlap => \A x, y \in prep' : x = y
    BY <2>2
  <2> QED BY <2>2, <2>3, <2>4 DEF AloneInv, Deciding
<1>20. CASE Crash
  BY <1>20, <1>i DEF Crash, AloneInv, Deciding
<1>21. CASE Boot
  <2>1. prep = {}
    BY <1>21 DEF Boot, TornInv, Idle
  <2> QED BY <1>21, <2>1 DEF Boot, AloneInv, Deciding, disk
<1>22. CASE ScanReads
  <2>1. prep = {} /\ prep' = prep /\ exec' = exec /\ summary' = summary /\ log' = log
    BY <1>22, ReadsIs DEF AloneInv
  <2>2. CASE PassedOver
    <3>1. ~ Deciding'
      BY <1>22, <2>2, ReadsIs DEF Deciding
    <3> QED BY <2>1, <3>1 DEF AloneInv
  <2>3. CASE ~ PassedOver
    <3>1. exec = NoExec /\ summary = "none" /\ log # <<>>
      BY <1>a, <2>3, ExecutedIs DEF PassedOver, Shape
    <3> QED BY <1>i, <2>1, <3>1 DEF AloneInv
  <2> QED BY <2>2, <2>3
<1>23. CASE ScanCancels
  <2>1. /\ exec = NoExec /\ prep = {} /\ summary = "none" /\ exec' = exec /\ prep' = prep /\ summary' = summary
        /\ log # <<>>
    BY <1>23 DEF ScanCancels, AloneInv, Deciding
  <2>2. log' # <<>>
    BY <1>l, <1>23, <2>1, NextIs
  <2> QED BY <1>i, <2>1, <2>2 DEF AloneInv
<1>24. CASE ScanFinalizes
  <2>1. /\ exec = NoExec /\ prep = {} /\ exec' = exec /\ prep' = prep /\ log' = log /\ log # <<>> /\ ~ Deciding'
    BY <1>24 DEF ScanFinalizes, AloneInv, Deciding
  <2> QED BY <1>i, <2>1 DEF AloneInv
<1>25. CASE ScanLaunches
  <2>1. /\ exec = NoExec /\ prep = {} /\ prep' = prep /\ log' = log /\ log # <<>> /\ summary' = summary /\ summary = "none"
        /\ ~ Deciding' /\ (exec' = exec \/ exec'.pc = "clear")
    BY <1>25 DEF ScanLaunches, AloneInv, Deciding, Exec, disk
  <2> QED BY <1>i, <2>1 DEF AloneInv
<1>26. CASE ScanRecords
  <2>1. prep = {} /\ prep' = prep /\ log' = log /\ exec' = exec /\ summary' = summary /\ ~ Deciding'
    BY <1>26 DEF ScanRecords, AloneInv, Deciding
  <2> QED BY <2>1 DEF AloneInv
<1>27. CASE UNCHANGED vars
  BY <1>27 DEF vars, disk, proc, AloneInv, Deciding
<1> QED BY <1>1, <1>10, <1>11, <1>12, <1>13, <1>14, <1>15, <1>16, <1>17, <1>18, <1>19, <1>20, <1>21, <1>22,
           <1>23, <1>24, <1>25, <1>26, <1>27, NextIs

\* While a run runs, its summary never shows the outcome of the attempt it is resumed from.
THEOREM RunsReadLive ==
  ASSUME ~ Early
  PROVE  Spec => []RunningReadsLive
<1>1. Init => Typed /\ TornInv /\ AloneInv
  <2>1. Init => AloneInv
    BY DEF Init, AloneInv, Deciding, NoExec
  <2>2. Init => TornInv
    BY DEF Init, TornInv
  <2> QED BY <2>1, <2>2, ShapeInit
<1>2. Typed /\ TornInv /\ AloneInv /\ [Next]_vars => (Typed /\ TornInv /\ AloneInv)'
  BY TypedKept, TornKept, AloneKept
<1>3. AloneInv => RunningReadsLive
  BY DEF AloneInv, RunningReadsLive
<1> QED BY <1>1, <1>2, <1>3, PTL DEF Spec


-----------------------------------------------------------------------------
(* A plain resume replays what the log holds                               *)

\* One version of the workflow, no resume `from` a step, none before the boot scan is done, and none
\* prepared while another is: the second may be launched when the first has run and ended, with the
\* journal it was prepared with.
Plain == ~ Early /\ ~ Overlap /\ Versions = {1} /\ FromSteps = {}

\* An event that is no output leaves the journal.
LEMMA SameJournal ==
  ASSUME NEW l \in Seq(EventOf), NEW e \in EventOf, e.type # "step"
  PROVE  Journal(Append(l, e)) = Journal(l)
<1> DEFINE m == Append(l, e)
<1>1. m \in Seq(EventOf) /\ \A t \in Steps, q \in Places : Journal(m)[<<t, q>>] = Journal(l)[<<t, q>>]
  BY AppendIs, JournalAppend
<1> HIDE DEF m
<1>2. Journal(m) \in JournalOf /\ Journal(l) \in JournalOf
  BY <1>1, JournalTyped
<1>3. \A x \in Steps \X Places : Journal(m)[x] = Journal(l)[x]
  BY <1>1
<1>4. Journal(m) = Journal(l)
  BY <1>2, <1>3 DEF JournalOf
<1> QED BY <1>4 DEF m

LEMMA JournalMoves ==
  ASSUME Typed, Next
  PROVE  Journal(log') = Journal(log) \/ \E s \in Steps : Moved(s)
<1>a. log \in Seq(EventOf)
  BY DEF Typed, Shape
<1>1. \A e \in EventOf : e.type # "step" => Journal(Append(log, e)) = Journal(log)
  BY <1>a, SameJournal
<1>2. /\ \A v \in Versions : Start(v).type # "step" /\ Resumed(v).type # "step"
      /\ \A o \in Outcomes : End(o).type # "step"
      /\ \A m \in MarkOf : m.type # "step"
  BY DEF Start, Resumed, End, MarkOf, Outcomes
<1>3. "cancelled" \in Outcomes
  BY DEF Outcomes
<1>4. CASE \E v \in Versions : log' = Append(log, Start(v)) \/ log' = Append(log, Resumed(v))
  <2>1. PICK v \in Versions : log' = Append(log, Start(v)) \/ log' = Append(log, Resumed(v))
    BY <1>4
  <2>2. Start(v) \in EventOf /\ Resumed(v) \in EventOf /\ Start(v).type # "step" /\ Resumed(v).type # "step"
    BY <1>2, EventsAre
  <2>3. PICK e \in EventOf : e.type # "step" /\ log' = Append(log, e)
    BY <2>1, <2>2
  <2> QED BY <1>1, <2>3
<1>5. CASE \E o \in Outcomes : log' = Append(log, End(o))
  BY <1>1, <1>2, <1>5, EventsAre
<1>6. CASE \E m \in MarkOf : log' = Append(log, m)
  BY <1>1, <1>2, <1>6, EventsAre
<1> QED BY <1>3, <1>4, <1>5, <1>6, LogMoves

LEMMA WithoutNothing ==
  ASSUME NEW j \in JournalOf
  PROVE  Without(j, {}) = j
<1>1. {} \cup UNION {Below[s] : s \in {}} = {}
  OBVIOUS
<1>2. Without(j, {}) = [x \in Steps \X Places |-> j[x]]
  BY <1>1 DEF Without
<1> QED BY <1>2 DEF JournalOf

\* What is about to be replayed is what the log holds, and stays so for a step until it is done.
QuietInv ==
  /\ scan.pc = "launch" => scan.journal = Journal(log)
  /\ \A p \in prep : p.journal = Journal(log)

ReplayInv ==
  /\ exec.pc \in {"clear", "open"} => exec.journal = Journal(log)
  /\ exec.pc = "flow" =>
       \A s \in Steps : exec.doing[s] # "done" =>
         \A q \in Places : exec.journal[<<s, q>>] = Journal(log)[<<s, q>>]

JournalInv == QuietInv /\ ReplayInv

\* What the journal becomes when a step of the flow moves.
LEMMA MovedJournal ==
  ASSUME Typed, NEW s \in Steps, Moved(s)
  PROVE  /\ \A t \in Steps, q \in Places : t # s => Journal(log')[<<t, q>>] = Journal(log)[<<t, q>>]
         /\ exec'.doing[s] # "done" => log' = log
         /\ \/ log' = log
            \/ \E q \in Places, v \in Values :
                 /\ Output(s, v) \in OutOf /\ exec'.out[s] = Output(s, v) /\ Journal(log')[<<s, q>>] = Output(s, v)
                 /\ \A r \in Places : r # q => Journal(log')[<<s, r>>] = Journal(log)[<<s, r>>]
                 /\ q = "onError" => exec.doing[s] = "fallback"
                 /\ q = "own" => exec.doing[s] = "primary"
<1>a. log \in Seq(EventOf)
  BY DEF Typed, Shape
<1>1. CASE log' = log
  BY <1>1
<1>2. CASE log' # log
  <2>1. PICK q \in Places, v \in Values :
          /\ log' = Append(log, StepEnd(s, q, Output(s, v))) /\ exec'.out[s] = Output(s, v)
          /\ Output(s, v) \in OutOf
          /\ q = "onError" => exec.doing[s] = "fallback"
          /\ q = "own" => exec.doing[s] = "primary"
    BY <1>2 DEF Moved
  <2> DEFINE o == Output(s, v)  e == StepEnd(s, q, o)
  <2>2. e \in EventOf /\ e.type = "step" /\ e.step = s /\ e.place = q /\ e.out = o
    <3>1. e \in EventOf
      BY <2>1, EventsAre
    <3> QED BY <3>1 DEF StepEnd
  <2> HIDE DEF e
  <2>3. \A t \in Steps, r \in Places :
          Journal(log')[<<t, r>>] = IF t = s /\ r = q THEN o ELSE Journal(log)[<<t, r>>]
    <3>1. log' = Append(log, e)
      BY <2>1 DEF e
    <3> HIDE DEF o
    <3> QED BY <1>a, <2>2, <3>1, JournalAppend
  <2>4. exec'.doing[s] = "done"
    BY <1>2 DEF Moved
  <2>5. Journal(log')[<<s, q>>] = Output(s, v)
    BY <2>3
  <2>6. \A r \in Places : r # q => Journal(log')[<<s, r>>] = Journal(log)[<<s, r>>]
    BY <2>3
  <2>7. \A t \in Steps, r \in Places : t # s => Journal(log')[<<t, r>>] = Journal(log)[<<t, r>>]
    BY <2>3
  <2> HIDE DEF o
  <2> QED BY <2>1, <2>4, <2>5, <2>6, <2>7
<1> QED BY <1>1, <1>2

LEMMA JournalKept ==
  ASSUME Plain
  PROVE  Typed /\ TornInv /\ AloneInv /\ JournalInv /\ [Next]_vars => JournalInv'
<1> SUFFICES ASSUME Typed, TornInv, AloneInv, JournalInv, [Next]_vars PROVE JournalInv'
  OBVIOUS
<1>a. Shape /\ (exec = NoExec <=> exec.pc = "idle") /\ (Live <=> exec # NoExec) /\ log \in Seq(EventOf)
  BY ExecIs DEF Typed, Shape, Live
<1>i. NoExec.pc = "idle"
  BY DEF NoExec
<1>q. QuietInv /\ ReplayInv
  BY DEF JournalInv
<1> USE DEF JournalInv, QuietInv, ReplayInv
\* The executor.
<1>1. ASSUME Next, Journal(log') = Journal(log), exec' = exec PROVE ReplayInv'
  BY <1>1, <1>q
<1>2. ASSUME NEW q, NEW r, Goes(q, r), Journal(log') = Journal(log),
             <<q, r>> \in {<<"clear", "open">>, <<"open", "flow">>, <<"flow", "end">>, <<"end", "finalize">>, <<"finalize", "teardown">>}
      PROVE  ReplayInv'
  <2>1. exec.pc = q /\ exec'.pc = r /\ exec'.journal = exec.journal
    BY <1>2 DEF Goes
  <2>2. CASE q = "clear" /\ r = "open"
    BY <1>2, <1>q, <2>1, <2>2
  <2>3. CASE q = "open" /\ r = "flow"
    <3>1. exec'.journal = Journal(log)
      BY <1>q, <2>1, <2>3
    <3> QED BY <1>2, <2>1, <2>3, <3>1
  <2>4. CASE r \notin {"clear", "open", "flow"}
    BY <2>1, <2>4
  <2>5. r \in {"open", "flow", "end", "finalize", "teardown"} /\ (r = "open" => q = "clear") /\ (r = "flow" => q = "open")
    BY <1>2
  <2> QED BY <2>2, <2>3, <2>4, <2>5
<1>3. ASSUME exec' = NoExec PROVE ReplayInv'
  BY <1>3, <1>i
<1>4. ASSUME NEW s \in Steps, Moved(s) PROVE ReplayInv' /\ QuietInv'
  <2>1. /\ exec.pc = "flow" /\ exec'.pc = "flow" /\ exec'.journal = exec.journal /\ exec # NoExec
        /\ scan' = scan /\ prep' = prep
        /\ \A t \in Steps : t # s => exec'.doing[t] = exec.doing[t]
        /\ exec.doing[s] # "done"
    BY <1>4, <1>a, <1>i DEF Moved
  <2>2. \A t \in Steps, q \in Places : t # s => Journal(log')[<<t, q>>] = Journal(log)[<<t, q>>]
    BY <1>4, MovedJournal
  <2>3. exec'.doing[s] # "done" => log' = log
    BY <1>4, MovedJournal
  <2>4. ASSUME NEW t \in Steps, exec'.doing[t] # "done", NEW q \in Places
        PROVE  exec'.journal[<<t, q>>] = Journal(log')[<<t, q>>]
    <3>1. CASE t = s
      BY <1>q, <2>1, <2>3, <2>4, <3>1
    <3>2. CASE t # s
      BY <1>q, <2>1, <2>2, <2>4, <3>2
    <3> QED BY <3>1, <3>2
  <2>5. scan.pc # "launch" /\ prep = {}
    BY <2>1 DEF AloneInv, Deciding, Plain
  <2> QED BY <2>1, <2>4, <2>5
\* The scan, and resumes by hand.
<1>5. ASSUME Next, Journal(log') = Journal(log), scan' = scan, prep' = prep PROVE QuietInv'
  BY <1>5, <1>q
<1>6. CASE Launch
  <2>1. Journal(log) = [x \in Steps \X Places |-> NoOutput]
    <3>1. log = <<>>
      BY <1>6 DEF Launch
    <3>2. \A s \in Steps, q \in Places : Outputs(<<>>, s, q) = {}
      BY DEF Outputs
    <3>3. \A s \in Steps, q \in Places : Journal(log)[<<s, q>>] = NoOutput
      BY <3>1, <3>2, Empty, JournalIs
    <3>4. Journal(log) \in JournalOf
      BY <1>a, JournalTyped
    <3> QED BY <3>3, <3>4 DEF JournalOf
  <2>2. exec'.journal = Journal(log) /\ exec'.pc = "open" /\ log' = log /\ scan' = scan /\ prep' = prep
    BY <1>6, <2>1 DEF Launch, Exec, disk
  <2>3. QuietInv'
    BY <1>q, <2>2
  <2> QED BY <1>q, <2>2, <2>3
<1>7. CASE Resumes
  <2>1. PICK v \in Versions, g \in {{}} \cup {{s} : s \in FromSteps} : Prepare(v, g)
    BY <1>7 DEF Resumes
  <2>2. g = {} /\ v = 1
    BY <2>1 DEF Plain
  <2>3. Executed(log) = 1
    BY <1>a, <2>1, ExecutedIs DEF Prepare, Plain
  <2>4. Changed(Executed(log), v) \cup g = {}
    BY <2>2, <2>3 DEF Changed
  <2>5. Without(Journal(log), {}) = Journal(log)
    BY <1>a, JournalTyped, WithoutNothing
  <2>6. (\A p \in prep' : p \in prep \/ p.journal = Journal(log)) /\ log' = log /\ exec' = exec /\ scan' = scan
    BY <2>1, <2>4, <2>5 DEF Prepare, Prepared
  <2> QED BY <1>q, <2>6
<1>8. CASE Hands
  <2>a. PICK p \in prep : ByHand(p)
    BY <1>8 DEF Hands
  <2>1. exec = NoExec /\ prep' \subseteq prep /\ scan' = scan /\ log' = log /\ p.journal = Journal(log)
    BY <2>a, <1>q DEF ByHand, AloneInv, disk, Plain
  <2>2. exec'.journal = Journal(log) /\ exec'.pc = "clear"
    BY <2>a, <1>a, <2>1 DEF ByHand, Exec
  <2>3. QuietInv'
    BY <1>q, <2>1
  <2> QED BY <1>q, <2>1, <2>2, <2>3
<1>9. CASE Crash
  <2>1. exec' = NoExec /\ scan'.pc = "off" /\ prep' = {}
    BY <1>9 DEF Crash
  <2> QED BY <1>q, <1>3, <2>1
<1>10. CASE Boot
  <2>1. exec' = exec /\ scan'.pc = "wait" /\ prep' = prep /\ log' = log
    BY <1>10 DEF Boot, disk
  <2> QED BY <1>q, <2>1
<1>11. CASE ScanReads
  <2>1. log' = log /\ exec' = exec /\ prep' = prep
    BY <1>11 DEF ScanReads
  <2>2. scan'.pc = "launch" => scan'.journal = Journal(log)
    <3>1. scan' = [pc |-> "record"] \/ (~ PassedOver /\ scan' = Decision)
      BY <1>11, ReadsIs
    <3> QED BY <1>a, <3>1, DecisionIs
  <2> QED BY <1>q, <2>1, <2>2
<1>12. CASE ScanCancels \/ ScanFinalizes
  <2>1. exec = NoExec /\ prep = {} /\ exec' = exec /\ prep' = prep /\ scan'.pc # "launch"
    BY <1>12 DEF ScanCancels, ScanFinalizes, AloneInv, Deciding
  <2> QED BY <1>q, <1>3, <2>1
<1>13. CASE ScanLaunches
  <2>1. /\ exec = NoExec /\ prep = {} /\ prep' = prep /\ log' = log /\ scan'.pc # "launch"
        /\ scan.journal = Journal(log)
    BY <1>13, <1>q DEF ScanLaunches, AloneInv, Deciding, disk
  <2>2. exec'.journal = Journal(log) /\ exec'.pc = "clear"
    BY <1>13, <1>a, <2>1 DEF ScanLaunches, Exec
  <2> QED BY <1>q, <2>1, <2>2
<1>14. CASE ScanRecords
  <2>1. exec' = exec /\ prep' = prep /\ log' = log /\ scan'.pc # "launch"
    BY <1>14 DEF ScanRecords
  <2> QED BY <1>q, <2>1
<1>15. CASE \/ Clear \/ OpenLog \/ FlowEnds \/ AppendEnd \/ Finalize \/ Untrack \/ (\E q \in Requests : Find(q))
            \/ Act \/ Miss \/ MarkerLands
  <2>1. Next /\ scan' = scan /\ prep' = prep
    BY <1>15, NextIs DEF Clear, OpenLog, FlowEnds, AppendEnd, Finalize, Untrack, Find, Act, Miss, MarkerLands
  <2>2. CASE \E s \in Steps : Moved(s)
    BY <1>4, <1>q, <2>2
  <2>3. CASE ~ \E s \in Steps : Moved(s)
    <3>1. Journal(log') = Journal(log)
      BY <2>1, <2>3, JournalMoves
    <3>2. ~ (exec = NoExec /\ ctl' = "running" /\ \E q \in {"clear", "open"}, v \in Versions, j \in JournalOf : Begun(q, v, j))
      <4>1. exec # NoExec \/ exec' = exec \/ exec' = NoExec
        BY <1>15, <1>a DEF Clear, OpenLog, FlowEnds, AppendEnd, Finalize, Untrack, Find, Act, Miss, MarkerLands
      <4>2. \A q, v, j : Begun(q, v, j) => exec' # NoExec
        <5>1. \A x \in RunningOf : x # NoExec
          <6>1. \A x \in RunningOf : x.pc \in Pcs
            BY RunningIs
          <6> QED BY <1>i, <6>1 DEF Pcs
        <5> QED BY <5>1 DEF Begun
      <4> QED BY <4>1, <4>2
    <3>3. ReplayInv'
      BY <1>1, <1>2, <1>3, <2>1, <2>3, <3>1, <3>2, ExecMoves
    <3> QED BY <1>5, <1>q, <2>1, <3>1, <3>3
  <2> QED BY <2>2, <2>3
<1>16. ASSUME NEW s \in Steps, FlowStep(s) PROVE JournalInv'
  BY <1>4, <1>16, <1>q, FlowStepMoves
<1>17. CASE UNCHANGED vars
  BY <1>17 DEF vars, disk, proc
<1> QED BY <1>6, <1>7, <1>8, <1>9, <1>10, <1>11, <1>12, <1>13, <1>14, <1>15, <1>16, <1>17, NextIs

LEMMA AllInit == Init => TornInv /\ AloneInv /\ JournalInv
BY DEF Init, TornInv, AloneInv, Deciding, JournalInv, QuietInv, ReplayInv, NoExec

LEMMA NothingRunsAgain ==
  Typed /\ JournalInv /\ [Next]_vars =>
    [\A s \in Steps :
       (exec # NoExec /\ exec' # NoExec /\ exec.pc = "flow" /\ exec.doing[s] = "wait" /\ exec'.doing[s] = "primary")
         => Journal(log)[<<s, "own">>] = NoOutput]_vars
<1> SUFFICES ASSUME Typed, JournalInv, Next, NEW s \in Steps, exec # NoExec, exec' # NoExec, exec.pc = "flow",
                    exec.doing[s] = "wait", exec'.doing[s] = "primary"
             PROVE  Journal(log)[<<s, "own">>] = NoOutput
  OBVIOUS
<1>1. PICK t \in Steps : Moved(t)
  <2>1. exec' # exec
    OBVIOUS
  <2>2. \A q, r : Goes(q, r) => exec'.doing = exec.doing
    BY DEF Goes
  <2> QED BY <2>1, <2>2, ExecMoves
<1>2. t = s
  BY <1>1 DEF Moved
<1>3. exec.journal[<<s, "own">>] = NoOutput
  BY <1>1, <1>2 DEF Moved
<1>4. exec.journal[<<s, "own">>] = Journal(log)[<<s, "own">>]
  BY DEF JournalInv, ReplayInv, Places
<1> QED BY <1>3, <1>4

\* However often the server dies and the run is resumed, a step whose output the log holds is not
\* begun again by a plain resume, as long as no resume is prepared while another is.
THEOREM NothingIsReworked ==
  ASSUME Plain
  PROVE  Spec => NoRework
<1> DEFINE I == Typed /\ TornInv /\ AloneInv /\ JournalInv
<1>1. Init => I
  BY ShapeInit, AllInit DEF I
<1>2. I /\ [Next]_vars => I'
  BY TypedKept, TornKept, AloneKept, JournalKept DEF Plain
<1>3. I /\ [Next]_vars =>
        [\A s \in Steps :
           (exec # NoExec /\ exec' # NoExec /\ exec.pc = "flow" /\ exec.doing[s] = "wait" /\ exec'.doing[s] = "primary")
             => Journal(log)[<<s, "own">>] = NoOutput]_vars
  BY NothingRunsAgain
<1> HIDE DEF I
<1> QED BY <1>1, <1>2, <1>3, PTL DEF Spec, NoRework


-----------------------------------------------------------------------------
(* What is replayed fits what runs                                         *)

\* A step that other steps consume has no fallback: what a fallback made is journaled under a path
\* of its own, which a resume of its step does not look at before the step has thrown again.
Firm == \A s \in Steps : Deps[s] \cap Fallible = {}

\* An output was made, in the version there is, from the outputs on record of its dependencies.
Made(j, o, s) ==
  /\ o.def = Def[1][s]
  /\ \A d \in Deps[s] : j[<<d, "own">>] # NoOutput /\ o.ins[d] = j[<<d, "own">>].val

Recorded(j) == \A s \in Steps, q \in Places : j[<<s, q>>] # NoOutput => Made(j, j[<<s, q>>], s)
\* What a step is doing fits the journal.
Fits(j, x, s) ==
  /\ x.doing[s] = "done" => Made(j, x.out[s], s)
  /\ x.doing[s] = "done" /\ s \notin Fallible => x.out[s] = j[<<s, "own">>]
  /\ x.doing[s] = "fallback" => s \in Fallible
  /\ x.doing[s] = "primary" => j[<<s, "own">>] = NoOutput

MadeInv == Recorded(Journal(log)) /\ (exec # NoExec => \A s \in Steps : Fits(Journal(log), exec, s))

LEMMA MadeByMoving ==
  ASSUME Plain, Firm, Typed, AloneInv, JournalInv, MadeInv, NEW s \in Steps, Moved(s)
  PROVE  MadeInv'
<1> DEFINE j == Journal(log)  k == Journal(log')
<1>a. exec # NoExec /\ exec.ver = 1 /\ exec.pc = "flow" /\ exec'.doing[s] # "wait"
  <2>1. exec \in RunningOf
    BY DEF Moved
  <2> QED BY <2>1, ExecIs, RunningIs DEF Moved, Plain, Typed
<1>b. Deps[s] \subseteq Steps /\ \A t \in Steps : Deps[t] \subseteq Steps
  BY FlowAssumption
<1>c. "own" \in Places /\ Places = {"own", "onError"}
  BY DEF Places
<1>d. Recorded(j) /\ \A t \in Steps : Fits(j, exec, t)
  BY <1>a DEF MadeInv
<1>e. \A t \in Steps : t # s => exec'.doing[t] = exec.doing[t] /\ exec'.out[t] = exec.out[t]
  BY DEF Moved
<1>f. exec.doing[s] # "done" /\ \A q \in Places : exec.journal[<<s, q>>] = j[<<s, q>>]
  <2>1. exec.doing[s] # "done"
    BY DEF Moved
  <2> QED BY <1>a, <2>1 DEF JournalInv, ReplayInv
<1>1. CASE log' = log
  <2>1. k = j
    BY <1>1
  <2>2. ASSUME NEW t \in Steps, t # s PROVE Fits(j, exec', t)
    BY <1>d, <1>e, <2>2 DEF Fits
  <2>3. Fits(j, exec', s)
    <3>1. CASE exec'.doing[s] = "done"
      <4>1. PICK q \in Places : exec'.out[s] = exec.journal[<<s, q>>] /\ (q = "onError" => exec.doing[s] = "fallback")
        <5>1. CASE written' = written
          BY <1>1, <3>1, <5>1 DEF Moved
        <5>2. ~ \E q \in Places, v \in Values : log' = Append(log, StepEnd(s, q, Output(s, v)))
          <6>1. \A e : Append(log, e) # log
            <7>1. log \in Seq(EventOf)
              BY DEF Typed, Shape
            <7>2. ASSUME NEW e, Append(log, e) = log PROVE FALSE
              <8>1. Len(Append(log, e)) = Len(log) + 1 /\ Len(log) \in Nat
                BY <7>1
              <8> QED BY <7>2, <8>1
            <7> QED BY <7>2
          <6> QED BY <1>1, <6>1
        <5> QED BY <3>1, <5>2 DEF Moved
      <4>2. exec'.out[s] = j[<<s, q>>] /\ j[<<s, q>>] # NoOutput
        BY <1>f, <3>1, <4>1 DEF Moved
      <4>3. Made(j, exec'.out[s], s)
        BY <1>d, <4>2 DEF Recorded
      <4>4. s \notin Fallible => q = "own"
        BY <1>c, <1>d, <4>1 DEF Fits
      <4> QED BY <3>1, <4>2, <4>3, <4>4 DEF Fits
    <3>2. CASE exec'.doing[s] # "done"
      <4>1. exec'.doing[s] = "fallback" => s \in Fallible
        BY DEF Moved
      <4>2. exec'.doing[s] = "primary" => j[<<s, "own">>] = NoOutput
        BY <1>c, <1>f DEF Moved
      <4> QED BY <3>2, <4>1, <4>2 DEF Fits
    <3> QED BY <3>1, <3>2
  <2> HIDE DEF j, k
  <2>4. Recorded(k) /\ \A t \in Steps : Fits(k, exec', t)
    BY <1>d, <2>1, <2>2, <2>3
  <2> QED BY <2>4 DEF MadeInv, k
<1>2. CASE log' # log
  <2>1. PICK q \in Places, v \in Values :
          /\ Output(s, v) \in OutOf /\ exec'.out[s] = Output(s, v) /\ k[<<s, q>>] = Output(s, v)
          /\ \A r \in Places : r # q => k[<<s, r>>] = j[<<s, r>>]
          /\ q = "onError" => exec.doing[s] = "fallback"
          /\ q = "own" => exec.doing[s] = "primary"
    BY <1>2, MovedJournal
  <2>2. \A t \in Steps, r \in Places : t # s => k[<<t, r>>] = j[<<t, r>>]
    BY MovedJournal
  <2>3. exec'.doing[s] = "done" /\ DepsDone(s)
    BY <1>2, MovedJournal DEF Moved
  <2> DEFINE o == Output(s, v)
  <2>4. o.def = Def[1][s] /\ \A d \in Deps[s] : o.ins[d] = exec.out[d].val
    BY <1>a DEF Output
  <2>5. ASSUME NEW d \in Deps[s] PROVE d \in Steps /\ d # s /\ exec.out[d] = j[<<d, "own">>] /\ j[<<d, "own">>] # NoOutput
    <3>1. d \in Steps /\ exec.doing[d] = "done" /\ d \notin Fallible
      BY <1>b, <2>3 DEF DepsDone, Firm
    <3>2. exec.out[d] # NoOutput
      BY <1>a, <3>1 DEF Typed, DoneInv
    <3> QED BY <1>d, <1>f, <3>1, <3>2 DEF Fits
  <2>6. \A d \in Steps : j[<<d, "own">>] # NoOutput => k[<<d, "own">>] = j[<<d, "own">>]
    <3>1. q = "own" => j[<<s, "own">>] = NoOutput
      BY <1>d, <2>1 DEF Fits
    <3> QED BY <1>c, <2>1, <2>2, <3>1
  <2> HIDE DEF j, k, o
  <2>7. ASSUME NEW t \in Steps, NEW u, Made(j, u, t) PROVE Made(k, u, t)
    BY <1>b, <2>6, <2>7 DEF Made
  <2>8. Made(k, o, s)
    <3>1. Made(j, o, s)
      BY <2>4, <2>5 DEF Made
    <3> QED BY <2>7, <3>1
  <2>9. Recorded(k)
    <3>1. ASSUME NEW t \in Steps, NEW r \in Places, k[<<t, r>>] # NoOutput PROVE Made(k, k[<<t, r>>], t)
      <4>1. CASE t = s /\ r = q
        BY <2>1, <2>8, <4>1 DEF o
      <4>2. CASE ~ (t = s /\ r = q)
        <5>1. k[<<t, r>>] = j[<<t, r>>]
          BY <2>1, <2>2, <4>2
        <5>2. Made(j, j[<<t, r>>], t)
          BY <1>d, <3>1, <5>1 DEF Recorded
        <5> QED BY <2>7, <5>1, <5>2
      <4> QED BY <4>1, <4>2
    <3> QED BY <3>1 DEF Recorded
  <2>10. ASSUME NEW t \in Steps, t # s PROVE Fits(k, exec', t)
    <3>1. Fits(j, exec, t) /\ exec'.doing[t] = exec.doing[t] /\ exec'.out[t] = exec.out[t]
      BY <1>d, <1>e, <2>10
    <3>2. k[<<t, "own">>] = j[<<t, "own">>]
      BY <1>c, <2>2, <2>10
    <3>3. exec.doing[t] = "done" => Made(k, exec.out[t], t)
      BY <2>7, <3>1 DEF Fits
    <3> QED BY <3>1, <3>2, <3>3 DEF Fits
  <2>11. Fits(k, exec', s)
    <3>1. s \notin Fallible => q = "own"
      BY <1>c, <1>d, <2>1 DEF Fits
    <3>2. exec'.out[s] = o /\ k[<<s, q>>] = o
      BY <2>1 DEF o
    <3> QED BY <2>3, <2>8, <3>1, <3>2 DEF Fits
  <2>12. Recorded(k) /\ \A t \in Steps : Fits(k, exec', t)
    BY <2>9, <2>10, <2>11
  <2> QED BY <2>12 DEF MadeInv, k
<1> QED BY <1>1, <1>2

LEMMA MadeKept ==
  ASSUME Plain, Firm
  PROVE  Typed /\ AloneInv /\ JournalInv /\ MadeInv /\ [Next]_vars => MadeInv'
<1> SUFFICES ASSUME Typed, AloneInv, JournalInv, MadeInv, [Next]_vars PROVE MadeInv'
  OBVIOUS
<1>1. CASE \E s \in Steps : Moved(s)
  BY <1>1, MadeByMoving
<1>2. CASE UNCHANGED vars
  BY <1>2 DEF vars, disk, MadeInv
<1>3. CASE Next /\ ~ \E s \in Steps : Moved(s)
  <2>1. Journal(log') = Journal(log)
    BY <1>3, JournalMoves
  <2>2. CASE exec' = exec
    BY <2>1, <2>2 DEF MadeInv
  <2>3. CASE exec' = NoExec
    BY <2>1, <2>3 DEF MadeInv
  <2>4. ASSUME NEW q, NEW r, Goes(q, r) PROVE MadeInv'
    <3>1. exec # NoExec /\ exec'.doing = exec.doing /\ exec'.out = exec.out
      BY <2>4, ExecIs DEF Goes, Typed
    <3>2. \A s \in Steps : Fits(Journal(log), exec', s)
      BY <3>1 DEF MadeInv, Fits
    <3> QED BY <2>1, <3>2 DEF MadeInv
  <2>5. ASSUME NEW q, NEW v, NEW j, Begun(q, v, j) PROVE MadeInv'
    <3>1. \A s \in Steps : Fits(Journal(log), exec', s)
      BY <2>5 DEF Begun, Fits
    <3> QED BY <2>1, <3>1 DEF MadeInv
  <2> QED BY <1>3, <2>2, <2>3, <2>4, <2>5, ExecMoves
<1> QED BY <1>1, <1>2, <1>3

LEMMA MadeIsConsistent ==
  ASSUME Plain, Firm, Typed, MadeInv
  PROVE  ReplayConsistent
<1> SUFFICES ASSUME exec # NoExec, NEW s \in Steps, exec.out[s] # NoOutput
             PROVE  /\ exec.out[s].def = Def[exec.ver][s]
                    /\ \A d \in Deps[s] : exec.out[d] # NoOutput /\ exec.out[s].ins[d] = exec.out[d].val
  BY DEF ReplayConsistent
<1>1. exec.doing[s] = "done" /\ DepsDone(s) /\ exec.ver = 1
  <2>1. exec.doing[s] = "done"
    BY DEF Typed, DoneInv
  <2>2. DepsDone(s)
    BY <2>1 DEF Typed, DoneInv
  <2> QED BY <2>1, <2>2, ExecIs, RunningIs DEF Typed, Plain
<1>2. Made(Journal(log), exec.out[s], s)
  BY <1>1 DEF MadeInv, Fits
<1>3. ASSUME NEW d \in Deps[s]
      PROVE  exec.out[d] # NoOutput /\ exec.out[d] = Journal(log)[<<d, "own">>]
  <2>1. d \in Steps /\ d \notin Fallible /\ exec.doing[d] = "done"
    BY <1>1, FlowAssumption DEF DepsDone, Firm
  <2> QED BY <2>1 DEF Typed, DoneInv, MadeInv, Fits
<1> QED BY <1>1, <1>2, <1>3 DEF Made

\* Whatever was crashed, resumed and replayed in one version, an output in scope was made from the very
\* outputs of its dependencies that are in scope, as long as no step that others consume falls back and
\* no resume is prepared while another is.
THEOREM ReplayFits ==
  ASSUME Plain, Firm
  PROVE  Spec => []ReplayConsistent
<1> DEFINE I == Typed /\ TornInv /\ AloneInv /\ JournalInv /\ MadeInv
<1>1. Init => I
  <2>1. Init => MadeInv
    <3>1. Init => Journal(log) \in JournalOf /\ \A s \in Steps, q \in Places : Journal(log)[<<s, q>>] = NoOutput
      <4>1. \A s \in Steps, q \in Places : Outputs(<<>>, s, q) = {}
        BY DEF Outputs
      <4>2. \A s \in Steps, q \in Places : Journal(<<>>)[<<s, q>>] = NoOutput
        BY <4>1, Empty, JournalIs
      <4> QED BY <4>2, Empty, JournalTyped DEF Init
    <3> QED BY <3>1 DEF Init, MadeInv, Recorded
  <2> QED BY <2>1, ShapeInit, AllInit DEF I
<1>2. I /\ [Next]_vars => I'
  BY TypedKept, TornKept, AloneKept, JournalKept, MadeKept DEF Plain
<1>3. I => ReplayConsistent
  BY MadeIsConsistent
<1> HIDE DEF I
<1> QED BY <1>1, <1>2, <1>3, PTL DEF Spec


-----------------------------------------------------------------------------
(* What a reader of the log and the summary sees                           *)

\* No resume before the boot scan is done, and no request that acts on a run that has ended since it
\* was looked up.
InTurn == ~ Early /\ (Late => Requests = {})

LEMMA LifeIs ==
  ASSUME NEW l \in Seq(EventOf)
  PROVE  /\ LifeOf(l) \in {"absent", "open"} \cup Outcomes
         /\ Newest(l, IsStart) # 0 => LifeOf(l) # "absent"
         /\ Ended(l) => LifeOf(l) = LastOf(l).type /\ LifeOf(l) \in Outcomes
         /\ \A e \in EventOf : LifeOf(Append(l, e)) = IF IsOpening(e) THEN "open"
                                                     ELSE IF IsTerminal(e) THEN e.type ELSE LifeOf(l)
         /\ \A e \in EventOf : Ended(Append(l, e)) <=> IsTerminal(e)
<1> DEFINE T(m) == Boundaries(m)
<1>1. \A m : LifeOf(m) = IF LastIn(T(m)) = 0 THEN "absent"
                         ELSE IF IsTerminal(m[LastIn(T(m))]) THEN m[LastIn(T(m))].type ELSE "open"
  BY NewestIs DEF LifeOf
<1>2. T(l) \in SUBSET (1 .. Len(l)) /\ Len(l) \in Nat /\ \A i \in 1 .. Len(l) : l[i] \in EventOf
  BY HitsAre
<1>3. (LastIn(T(l)) = 0 <=> T(l) = {}) /\ (T(l) # {} => LastIn(T(l)) \in T(l) /\ \A i \in T(l) : i <= LastIn(T(l)))
  <2> HIDE DEF T
  <2> QED BY <1>2, LastInIs
<1>4. LifeOf(l) \in {"absent", "open"} \cup Outcomes
  BY <1>1 DEF IsTerminal
<1>5. Newest(l, IsStart) # 0 => LifeOf(l) # "absent"
  <2>1. Newest(l, IsStart) # 0 => T(l) # {}
    <3>1. Starts(l) \in SUBSET (1 .. Len(l))
      BY HitsAre
    <3>2. LastIn(Starts(l)) = 0 <=> Starts(l) = {}
      BY <1>2, <3>1, LastInIs
    <3>3. Starts(l) \subseteq T(l)
      BY DEF Starts, Boundaries, IsStart, IsBound, IsOpening
    <3> QED BY <3>2, <3>3, NewestIs
  <2>2. T(l) # {} => LifeOf(l) # "absent"
    BY <1>1, <1>3 DEF IsTerminal, Outcomes
  <2> QED BY <2>1, <2>2
<1>6. ASSUME Ended(l) PROVE LifeOf(l) = LastOf(l).type /\ LifeOf(l) \in Outcomes
  <2>1. l # <<>> /\ IsTerminal(l[Len(l)])
    BY <1>6 DEF Ended, LastOf
  <2>2. Len(l) \in 1 .. Len(l)
    BY <2>1
  <2>3. Len(l) \in T(l)
    BY <2>1, <2>2 DEF Boundaries, IsBound
  <2>4. LastIn(T(l)) = Len(l)
    <3>1. LastIn(T(l)) \in 1 .. Len(l) /\ Len(l) <= LastIn(T(l))
      BY <1>2, <1>3, <2>3
    <3> QED BY <1>2, <3>1
  <2>5. Len(l) # 0
    BY <2>2
  <2> QED BY <1>1, <2>1, <2>4, <2>5 DEF LastOf, IsTerminal
<1>7. ASSUME NEW e \in EventOf
      PROVE  /\ LifeOf(Append(l, e)) = IF IsOpening(e) THEN "open"
                                       ELSE IF IsTerminal(e) THEN e.type ELSE LifeOf(l)
             /\ Ended(Append(l, e)) <=> IsTerminal(e)
  <2> DEFINE m == Append(l, e)  n == Len(l)
  <2>1. m # <<>> /\ Len(m) = n + 1 /\ n \in Nat /\ m[n + 1] = e /\ \A i \in 1 .. n : m[i] = l[i]
    BY AppendIs
  <2>2. T(m) = T(l) \cup (IF IsBound(e) THEN {n + 1} ELSE {})
    BY NewestAppend
  <2> HIDE DEF m, n, T
  <2>3. Ended(m) <=> IsTerminal(e)
    BY <2>1 DEF Ended, LastOf
  <2>4. CASE IsBound(e)
    <3>1. LastIn(T(m)) = n + 1
      BY <1>2, <2>1, <2>2, <2>4, LastInMore DEF n
    <3>2. n + 1 # 0
      BY <2>1
    <3>3. LifeOf(m) = IF IsTerminal(e) THEN e.type ELSE "open"
      BY <1>1, <2>1, <3>1, <3>2
    <3>4. ~ (IsOpening(e) /\ IsTerminal(e)) /\ (IsOpening(e) \/ IsTerminal(e))
      BY <2>4 DEF IsBound, IsOpening, IsTerminal, Outcomes
    <3> QED BY <2>3, <3>3, <3>4 DEF m
  <2>5. CASE ~ IsBound(e)
    <3>1. T(m) = T(l)
      BY <2>2, <2>5
    <3>2. LastIn(T(l)) # 0 => LastIn(T(l)) \in 1 .. n
      BY <1>2, <1>3 DEF n
    <3>3. LifeOf(m) = LifeOf(l)
      BY <1>1, <2>1, <3>1, <3>2
    <3> QED BY <2>3, <2>5, <3>3 DEF m, IsBound
  <2> QED BY <2>4, <2>5
<1> HIDE DEF T
<1> QED BY <1>4, <1>5, <1>6, <1>7

\* What the events say.
LEMMA KindsAre ==
  /\ \A v \in Versions : IsOpening(Start(v)) /\ IsOpening(Resumed(v)) /\ ~ IsTerminal(Start(v)) /\ ~ IsTerminal(Resumed(v))
  /\ \A o \in Outcomes : ~ IsOpening(End(o)) /\ IsTerminal(End(o)) /\ End(o).type = o
  /\ \A m \in MarkOf : ~ IsOpening(m) /\ ~ IsTerminal(m)
  /\ \A s, q, o : ~ IsOpening(StepEnd(s, q, o)) /\ ~ IsTerminal(StepEnd(s, q, o))
  /\ "cancelled" \in Outcomes /\ "open" \notin Outcomes /\ "none" \notin Outcomes /\ "absent" \notin Outcomes
BY DEF IsOpening, IsTerminal, Start, Resumed, End, MarkOf, StepEnd, Outcomes

\* How a step changes what the log says of its run.
LEMMA LifeMoves ==
  ASSUME Typed, Next
  PROVE  \/ LifeOf(log') = LifeOf(log) /\ (Ended(log') => Ended(log)) /\ (log' = log \/ ~ Ended(log'))
         \/ Goes("open", "flow") /\ pending = <<>> /\ LifeOf(log') = "open" /\ ~ Ended(log')
         \/ /\ Goes("end", "finalize") /\ pending = <<>> /\ exec.outcome \in Outcomes
            /\ LifeOf(log') = exec.outcome /\ Ended(log')
         \/ scan.pc = "cancelled" /\ exec' = exec /\ LifeOf(log') = "cancelled" /\ Ended(log')
<1>a. log \in Seq(EventOf)
  BY DEF Typed, Shape
<1>b. \A e \in EventOf : LifeOf(Append(log, e)) = IF IsOpening(e) THEN "open"
                                                  ELSE IF IsTerminal(e) THEN e.type ELSE LifeOf(log)
  BY <1>a, LifeIs
<1>c. \A e \in EventOf : Ended(Append(log, e)) <=> IsTerminal(e)
  BY <1>a, LifeIs
<1>1. CASE log' = log
  BY <1>1
<1>2. ASSUME NEW s \in Steps, Moved(s), log' # log PROVE LifeOf(log') = LifeOf(log) /\ ~ Ended(log')
  <2>1. PICK q \in Places, v \in Values : log' = Append(log, StepEnd(s, q, Output(s, v))) /\ Output(s, v) \in OutOf
    BY <1>2 DEF Moved
  <2>2. StepEnd(s, q, Output(s, v)) \in EventOf
    BY <2>1, EventsAre
  <2> QED BY <1>b, <1>c, <2>1, <2>2, KindsAre
<1>3. CASE Goes("open", "flow") /\ pending = <<>> /\ \E v \in Versions : log' = Append(log, Start(v)) \/ log' = Append(log, Resumed(v))
  <2>1. PICK v \in Versions : log' = Append(log, Start(v)) \/ log' = Append(log, Resumed(v))
    BY <1>3
  <2>2. Start(v) \in EventOf /\ Resumed(v) \in EventOf
    BY EventsAre
  <2>3. PICK e \in EventOf : log' = Append(log, e) /\ IsOpening(e) /\ ~ IsTerminal(e)
    BY <2>1, <2>2, KindsAre
  <2> QED BY <1>3, <1>b, <1>c, <2>3
<1>4. CASE Goes("end", "finalize") /\ pending = <<>> /\ exec.outcome \in Outcomes /\ log' = Append(log, End(exec.outcome))
  <2>1. End(exec.outcome) \in EventOf
    BY <1>4, EventsAre
  <2> QED BY <1>4, <1>b, <1>c, <2>1, KindsAre
<1>5. CASE Head(pending) \in MarkOf /\ log' = Append(log, Head(pending))
  <2>1. Head(pending) \in EventOf
    BY <1>5, EventsAre
  <2> QED BY <1>5, <1>b, <1>c, <2>1, KindsAre
<1>6. CASE scan.pc = "cancelled" /\ exec' = exec /\ log' = Append(log, End("cancelled"))
  <2>1. End("cancelled") \in EventOf
    BY EventsAre, KindsAre
  <2> QED BY <1>6, <1>b, <1>c, <2>1, KindsAre
<1> QED BY <1>1, <1>2, <1>3, <1>4, <1>5, <1>6, LogMoves

\* Nothing is written behind the end of a run but what opens it again: a marker that waits was let in
\* while the run had not ended, and holds the end back.
MarkerInv ==
  /\ pending # <<>> => LifeOf(log) \notin Outcomes /\ exec.pc \in {"clear", "open", "flow", "end"}
  /\ ask.live /\ exec.pc \in {"clear", "open", "flow"} => ~ Ended(log)
  /\ Late => ask = NoAsk /\ pending = <<>>
OutcomeInv ==
  /\ LifeOf(log) \in Outcomes => Ended(log)
  /\ exec.pc \in {"flow", "end"} => LifeOf(log) = "open"
  /\ exec.pc = "finalize" => LifeOf(log) = exec.outcome
  /\ scan.pc = "cancelled" => LifeOf(log) = "open"
  /\ scan.pc = "finalize" => LifeOf(log) = scan.outcome

LEMMA MarkerInit == Init => MarkerInv /\ OutcomeInv
<1>1. Init => LifeOf(log) = "absent" /\ ~ Ended(log)
  <2>1. Boundaries(<<>>) = {}
    BY DEF Boundaries
  <2>2. LastIn({}) = 0
    BY DEF LastIn
  <2> QED BY <2>1, <2>2, Empty, NewestIs DEF Init, LifeOf
<1> QED BY <1>1, AskIs, KindsAre DEF Init, MarkerInv, OutcomeInv, NoExec

LEMMA MarkerKept ==
  ASSUME InTurn
  PROVE  Typed /\ TornInv /\ AloneInv /\ MarkerInv /\ OutcomeInv /\ [Next]_vars => MarkerInv'
<1> SUFFICES ASSUME Typed, TornInv, AloneInv, MarkerInv, OutcomeInv, [Next]_vars PROVE MarkerInv'
  OBVIOUS
<1>a. /\ Shape /\ (exec = NoExec <=> exec.pc = "idle") /\ (Live <=> exec # NoExec) /\ log \in Seq(EventOf)
      /\ (ask.live => exec # NoExec) /\ (exec = NoExec => pending = <<>>)
      /\ (exec.pc \in Pcs => exec \in RunningOf)
  BY ExecIs DEF Typed, Shape, Live, MarkerInv, Pcs
<1>i. NoExec.pc = "idle" /\ ~ NoAsk.live
  BY AskIs DEF NoExec
<1>1. CASE Launch \/ Hands \/ ScanLaunches
  <2>1. ask' = ask /\ pending' = pending /\ log' = log
    BY <1>1 DEF Launch, Hands, ByHand, ScanLaunches, disk
  <2>2. exec = NoExec \/ exec' = exec
    BY <1>1, <1>a DEF Launch, Hands, ByHand, ScanLaunches
  <2>3. CASE exec = NoExec
    <3>1. ~ ask.live /\ pending = <<>>
      BY <1>a, <2>3
    <3> QED BY <2>1, <3>1 DEF MarkerInv
  <2>4. CASE exec' = exec
    BY <2>1, <2>4 DEF MarkerInv
  <2> QED BY <2>2, <2>3, <2>4
<1>2. CASE Clear
  <2>1. exec.pc = "clear" /\ exec' = At(exec, "open") /\ UNCHANGED <<log, ask, pending>>
    BY <1>2 DEF Clear, At
  <2>2. exec'.pc = "open"
    BY <1>a, <2>1, RunningAt DEF Pcs
  <2> QED BY <2>1, <2>2 DEF MarkerInv
<1>3. CASE OpenLog
  <2>1. exec.pc = "open" /\ pending = <<>> /\ pending' = pending /\ ask' = ask
    BY <1>3 DEF OpenLog, Write
  <2>2. ~ Ended(log')
    <3>1. exec.ver \in Versions
      BY <1>a, <2>1, RunningIs DEF Pcs
    <3>2. Start(exec.ver) \in EventOf /\ Resumed(exec.ver) \in EventOf
      BY <3>1, EventsAre
    <3>3. log' = Append(log, Start(exec.ver)) \/ log' = Append(log, Resumed(exec.ver))
      BY <1>3 DEF OpenLog, Write, Append1
    <3>4. PICK e \in EventOf : log' = Append(log, e) /\ ~ IsTerminal(e)
      BY <3>1, <3>2, <3>3, KindsAre
    <3> QED BY <1>a, <3>4, LifeIs
  <2> QED BY <2>1, <2>2 DEF MarkerInv
<1>4. ASSUME NEW s \in Steps, FlowStep(s) PROVE MarkerInv'
  <2>1. Moved(s)
    BY <1>4, FlowStepMoves
  <2>2. exec.pc = "flow" /\ exec'.pc = "flow" /\ ask' = ask /\ pending' = pending
    BY <2>1 DEF Moved
  <2>3. CASE log' = log
    BY <2>2, <2>3 DEF MarkerInv
  <2>4. CASE log' # log
    <3>1. PICK q \in Places, v \in Values : log' = Append(log, StepEnd(s, q, Output(s, v))) /\ Output(s, v) \in OutOf
      BY <2>1, <2>4 DEF Moved
    <3>2. StepEnd(s, q, Output(s, v)) \in EventOf
      BY <3>1, EventsAre
    <3>3. ~ Ended(log') /\ LifeOf(log') = LifeOf(log)
      BY <1>a, <3>1, <3>2, LifeIs, KindsAre
    <3> QED BY <2>2, <3>3 DEF MarkerInv
  <2> QED BY <2>3, <2>4
<1>5. CASE FlowEnds
  <2>1. exec.pc = "flow" /\ UNCHANGED <<log, ask, pending>> /\ exec \in RunningOf
    BY <1>5, <1>a DEF FlowEnds, disk, Pcs
  <2>2. \E o \in Outcomes : exec' = Comes(exec, o)
    BY <1>5 DEF FlowEnds, Comes, Outcomes
  <2>3. exec'.pc = "end"
    BY <2>1, <2>2, RunningEnds
  <2> QED BY <2>1, <2>3 DEF MarkerInv
<1>6. CASE AppendEnd
  <2>1. exec.pc = "end" /\ pending = <<>> /\ pending' = pending /\ ask' = ask /\ exec' = At(exec, "finalize")
    BY <1>6 DEF AppendEnd, Write, At
  <2>2. exec'.pc = "finalize"
    BY <1>a, <2>1, RunningAt DEF Pcs
  <2> QED BY <2>1, <2>2 DEF MarkerInv
<1>7. CASE Finalize
  <2>1. exec.pc = "finalize" /\ pending' = pending /\ ask' = ask /\ exec' = At(exec, "teardown")
    BY <1>7 DEF Finalize, At
  <2>2. exec'.pc = "teardown" /\ pending = <<>>
    BY <1>a, <2>1, RunningAt DEF Pcs, MarkerInv
  <2> QED BY <2>1, <2>2 DEF MarkerInv
<1>8. CASE Untrack
  <2>1. exec.pc = "teardown" /\ pending' = pending /\ ask' = [ask EXCEPT !.live = FALSE] /\ exec' = NoExec
    BY <1>8 DEF Untrack
  <2>2. ask = NoAsk => ask' = NoAsk
    BY <2>1, AskIs
  <2>3. pending = <<>>
    BY <2>1 DEF MarkerInv
  <2> QED BY <1>i, <2>1, <2>2, <2>3 DEF MarkerInv
<1>9. CASE \E q \in Requests : Find(q)
  <2>1. ~ Late /\ ~ Ended(log) /\ UNCHANGED <<log, exec, pending>>
    BY <1>9 DEF InTurn, Find, disk
  <2> QED BY <2>1 DEF MarkerInv
<1>10. CASE Act
  <2>1. ~ Late /\ ask.live /\ exec.pc \in {"clear", "open", "flow"} /\ ask' = NoAsk /\ log' = log /\ exec' = exec
    BY <1>10 DEF Act, InTime, MarkerInv, disk
  <2>2. LifeOf(log) \notin Outcomes
    BY <2>1 DEF MarkerInv, OutcomeInv
  <2> QED BY <1>i, <2>1, <2>2 DEF MarkerInv
<1>11. CASE Miss
  BY <1>11, <1>i DEF Miss, MarkerInv, disk
<1>12. CASE MarkerLands
  <2>1. pending # <<>> /\ log' = Append(log, Head(pending)) /\ exec' = exec /\ ask' = ask
    BY <1>12 DEF MarkerLands, Append1
  <2>2. pending \in Seq(MarkOf)
    BY <1>a DEF Shape
  <2>3. Head(pending) \in MarkOf /\ Head(pending) \in EventOf
    BY <2>1, <2>2, EventsAre
  <2>4. LifeOf(log') = LifeOf(log) /\ ~ Ended(log')
    BY <1>a, <2>1, <2>3, LifeIs, KindsAre
  <2>5. ~ Late
    BY <2>1 DEF MarkerInv
  <2> QED BY <2>1, <2>4, <2>5 DEF MarkerInv
<1>13. CASE Resumes \/ Boot \/ ScanReads \/ ScanFinalizes \/ ScanRecords
  BY <1>13 DEF Resumes, Prepare, Boot, ScanReads, ScanFinalizes, ScanRecords, MarkerInv, disk
<1>14. CASE Crash
  BY <1>14, <1>i DEF Crash, MarkerInv
<1>15. CASE ScanCancels
  <2>1. exec = NoExec /\ exec' = exec /\ ask' = ask /\ pending' = pending
    BY <1>15 DEF ScanCancels, AloneInv, Deciding
  <2> QED BY <1>a, <2>1 DEF MarkerInv
<1>16. CASE UNCHANGED vars
  BY <1>16 DEF vars, disk, proc, MarkerInv
<1> QED BY <1>1, <1>2, <1>3, <1>4, <1>5, <1>6, <1>7, <1>8, <1>9, <1>10, <1>11, <1>12, <1>13, <1>14, <1>15, <1>16, NextIs

LEMMA OutcomeKept ==
  ASSUME InTurn
  PROVE  Typed /\ TornInv /\ AloneInv /\ MarkerInv /\ OutcomeInv /\ [Next]_vars => OutcomeInv'
<1> SUFFICES ASSUME Typed, TornInv, AloneInv, MarkerInv, OutcomeInv, [Next]_vars PROVE OutcomeInv'
  OBVIOUS
<1>a. /\ Shape /\ (exec = NoExec <=> exec.pc = "idle") /\ (Live <=> exec # NoExec) /\ log \in Seq(EventOf)
      /\ (exec.pc \in Pcs => exec \in RunningOf)
  BY ExecIs DEF Typed, Shape, Live, Pcs
<1>i. NoExec.pc = "idle"
  BY DEF NoExec
\* The executor runs: nobody else decides.
<1>1. ASSUME exec # NoExec, scan' = scan, exec'.pc \in {"clear", "open", "teardown"},
             log' = log
      PROVE  OutcomeInv'
  <2>1. ~ Deciding /\ ~ Deciding'
    BY <1>1 DEF AloneInv, Deciding
  <2> QED BY <1>1, <2>1 DEF OutcomeInv, Deciding
<1>2. CASE Launch
  <2>1. scan' = scan /\ exec'.pc = "open" /\ log' = log
    BY <1>2 DEF Launch, Exec, disk
  <2> QED BY <2>1 DEF OutcomeInv
<1>3. CASE Clear
  <2>1. exec # NoExec /\ exec.pc = "clear" /\ exec' = At(exec, "open") /\ scan' = scan /\ log' = log
    BY <1>3, <1>a DEF Clear, At
  <2>2. exec'.pc = "open"
    BY <1>a, <2>1, RunningAt DEF Pcs
  <2> QED BY <1>1, <2>1, <2>2
<1>4. CASE OpenLog
  <2>1. exec # NoExec /\ exec.pc = "open" /\ exec' = At(exec, "flow") /\ scan' = scan
    BY <1>4, <1>a DEF OpenLog, At
  <2>2. exec'.pc = "flow" /\ exec.ver \in Versions
    BY <1>a, <2>1, RunningAt, RunningIs DEF Pcs
  <2>3. Start(exec.ver) \in EventOf /\ Resumed(exec.ver) \in EventOf
    BY <2>2, EventsAre
  <2>4. log' = Append(log, Start(exec.ver)) \/ log' = Append(log, Resumed(exec.ver))
    BY <1>4 DEF OpenLog, Write, Append1
  <2>5. LifeOf(log') = "open"
    <3>1. PICK e \in EventOf : log' = Append(log, e) /\ IsOpening(e)
      BY <2>2, <2>3, <2>4, KindsAre
    <3> QED BY <1>a, <3>1, LifeIs
  <2>6. ~ Deciding'
    BY <2>1 DEF AloneInv, Deciding
  <2> QED BY <2>2, <2>5, <2>6, KindsAre DEF OutcomeInv, Deciding
<1>5. ASSUME NEW s \in Steps, FlowStep(s) PROVE OutcomeInv'
  <2>1. Moved(s)
    BY <1>5, FlowStepMoves
  <2>2. exec # NoExec /\ exec.pc = "flow" /\ exec'.pc = "flow" /\ scan' = scan
    BY <1>a, <1>i, <2>1 DEF Moved
  <2>3. LifeOf(log') = LifeOf(log)
    <3>1. CASE log' = log
      BY <3>1
    <3>2. CASE log' # log
      <4>1. PICK q \in Places, v \in Values : log' = Append(log, StepEnd(s, q, Output(s, v))) /\ Output(s, v) \in OutOf
        BY <2>1, <3>2 DEF Moved
      <4>2. StepEnd(s, q, Output(s, v)) \in EventOf
        BY <4>1, EventsAre
      <4> QED BY <1>a, <4>1, <4>2, LifeIs, KindsAre
    <3> QED BY <3>1, <3>2
  <2>4. LifeOf(log') = "open" /\ ~ Deciding'
    BY <2>2, <2>3 DEF OutcomeInv, AloneInv, Deciding
  <2> QED BY <2>2, <2>4, KindsAre DEF OutcomeInv, Deciding
<1>6. CASE FlowEnds
  <2>1. exec.pc = "flow" /\ log' = log /\ scan' = scan /\ exec \in RunningOf /\ exec # NoExec
    BY <1>6, <1>a DEF FlowEnds, disk, Pcs
  <2>2. \E o \in Outcomes : exec' = Comes(exec, o)
    BY <1>6 DEF FlowEnds, Comes, Outcomes
  <2>3. exec'.pc = "end"
    BY <2>1, <2>2, RunningEnds
  <2>4. LifeOf(log') = "open" /\ ~ Deciding'
    BY <2>1 DEF OutcomeInv, AloneInv, Deciding
  <2> QED BY <2>3, <2>4, KindsAre DEF OutcomeInv, Deciding
<1>7. CASE AppendEnd
  <2>1. exec # NoExec /\ exec.pc = "end" /\ exec' = At(exec, "finalize") /\ scan' = scan /\ log' = Append(log, End(exec.outcome))
    BY <1>7, <1>a DEF AppendEnd, Write, Append1, At
  <2>2. exec'.pc = "finalize" /\ exec'.outcome = exec.outcome
    BY <1>a, <2>1, RunningAt DEF Pcs
  <2>3. exec.outcome \in Outcomes
    BY <2>1 DEF Typed, DoneInv
  <2>4. LifeOf(log') = exec.outcome /\ Ended(log')
    BY <1>a, <2>1, <2>3, EventsAre, LifeIs, KindsAre
  <2>5. ~ Deciding'
    BY <2>1 DEF AloneInv, Deciding
  <2> QED BY <2>2, <2>4, <2>5 DEF OutcomeInv, Deciding
<1>8. CASE Finalize
  <2>1. exec # NoExec /\ exec.pc = "finalize" /\ exec' = At(exec, "teardown") /\ scan' = scan /\ log' = log
    BY <1>8, <1>a DEF Finalize, At
  <2>2. exec'.pc = "teardown"
    BY <1>a, <2>1, RunningAt DEF Pcs
  <2> QED BY <1>1, <2>1, <2>2
<1>9. CASE Untrack \/ Crash
  <2>1. exec' = NoExec
    BY <1>9 DEF Untrack, Crash
  <2>2. log' = log
    BY <1>9 DEF Untrack, Crash, disk
  <2>3. scan' = scan \/ scan' = [pc |-> "off"]
    BY <1>9 DEF Untrack, Crash
  <2>4. exec'.pc = "idle"
    BY <1>i, <2>1
  <2> QED BY <2>2, <2>3, <2>4 DEF OutcomeInv
<1>10. CASE (\E q \in Requests : Find(q)) \/ Act \/ Miss \/ Resumes
  BY <1>10 DEF Find, Act, Miss, Resumes, Prepare, OutcomeInv, disk
<1>11. CASE MarkerLands
  <2>1. pending # <<>> /\ log' = Append(log, Head(pending)) /\ exec' = exec /\ scan' = scan
    BY <1>11 DEF MarkerLands, Append1
  <2>2. pending \in Seq(MarkOf)
    BY <1>a DEF Shape
  <2>3. Head(pending) \in MarkOf /\ Head(pending) \in EventOf
    BY <2>1, <2>2, EventsAre
  <2>4. LifeOf(log') = LifeOf(log)
    BY <1>a, <2>1, <2>3, LifeIs, KindsAre
  <2>5. LifeOf(log) \notin Outcomes
    BY <2>1 DEF MarkerInv
  <2> QED BY <2>1, <2>4, <2>5 DEF OutcomeInv
<1>12. CASE Hands
  <2>1. log' = log /\ scan' = scan
    BY <1>12 DEF Hands, ByHand, disk
  <2>2. exec' = exec \/ exec'.pc = "clear"
    BY <1>12 DEF Hands, ByHand, Exec
  <2> QED BY <2>1, <2>2 DEF OutcomeInv
<1>13. CASE Boot \/ ScanRecords
  BY <1>13 DEF Boot, ScanRecords, OutcomeInv, disk
<1>14. CASE ScanReads
  <2>1. log' = log /\ exec' = exec
    BY <1>14 DEF ScanReads
  <2>2. CASE scan' = [pc |-> "record"]
    BY <2>1, <2>2 DEF OutcomeInv
  <2>3. CASE ~ PassedOver /\ scan' = Decision
    <3>1. scan' = Decision /\ Newest(log, IsStart) # 0
      BY <2>3 DEF PassedOver
    <3>2. LifeOf(log) \in {"open"} \cup Outcomes
      BY <1>a, <3>1, LifeIs
    <3>3. scan'.pc = "cancelled" => LifeOf(log) = "open"
      BY <1>a, <2>3, <3>1, <3>2, DecisionIs DEF OutcomeInv
    <3>4. scan'.pc = "finalize" => LifeOf(log) = scan'.outcome
      BY <1>a, <2>3, <3>1, DecisionIs, LifeIs
    <3> QED BY <2>1, <3>3, <3>4 DEF OutcomeInv
  <2> QED BY <1>14, <2>2, <2>3, ReadsIs
<1>15. CASE ScanCancels
  <2>1. /\ exec = NoExec /\ exec' = exec /\ scan' = [pc |-> "finalize", outcome |-> "cancelled"]
        /\ log' = Append(log, End("cancelled"))
    BY <1>15 DEF ScanCancels, Append1, AloneInv, Deciding
  <2>2. LifeOf(log') = "cancelled" /\ Ended(log')
    <3>1. End("cancelled") \in EventOf /\ IsTerminal(End("cancelled")) /\ ~ IsOpening(End("cancelled")) /\ End("cancelled").type = "cancelled"
      BY EventsAre, KindsAre
    <3> QED BY <1>a, <2>1, <3>1, LifeIs
  <2> QED BY <1>i, <2>1, <2>2 DEF OutcomeInv
<1>16. CASE ScanFinalizes
  BY <1>16 DEF ScanFinalizes, OutcomeInv
<1>17. CASE ScanLaunches
  <2>1. exec = NoExec /\ log' = log /\ scan'.pc = "record"
    BY <1>17 DEF ScanLaunches, AloneInv, Deciding, disk
  <2>2. exec'.pc = "clear"
    BY <1>17, <1>a, <2>1 DEF ScanLaunches, Exec
  <2> QED BY <2>1, <2>2 DEF OutcomeInv
<1>18. CASE UNCHANGED vars
  BY <1>18 DEF vars, disk, OutcomeInv
<1> QED BY <1>2, <1>3, <1>4, <1>5, <1>6, <1>7, <1>8, <1>9, <1>10, <1>11, <1>12, <1>13, <1>14, <1>15, <1>16, <1>17, <1>18, NextIs

\* Every step is a step of RunLife, or one it does not see.
LEMMA StepLives ==
  Typed /\ AloneInv /\ OutcomeInv /\ [Next]_vars => [Life!LNext]_(Life!lvars)
<1> SUFFICES ASSUME Typed, AloneInv, OutcomeInv, [Next]_vars PROVE [Life!LNext]_(Life!lvars)
  OBVIOUS
<1>a. log \in Seq(EventOf) /\ (exec = NoExec <=> exec.pc = "idle") /\ scan \in ScanOf /\ summary \in Outcomes \cup {"none"}
  BY ExecIs DEF Typed, Shape
<1>o. Life!Outcomes = Outcomes
  BY DEF Life!Outcomes, Outcomes
<1>1. CASE UNCHANGED vars
  BY <1>1 DEF vars, disk, Life!lvars
<1>2. CASE Next
  <2>1. CASE Clear
    <3>1. LifeOf(log') = LifeOf(log) /\ summary' = "none"
      BY <2>1 DEF Clear
    <3> QED BY <3>1 DEF Life!LNext, Life!Retract
  <2>2. CASE Finalize
    <3>1. LifeOf(log') = LifeOf(log) /\ summary' = exec.outcome /\ LifeOf(log) = exec.outcome
      BY <2>2 DEF Finalize, OutcomeInv
    <3>2. LifeOf(log) \in Outcomes
      BY <2>2, <1>a, <3>1 DEF Finalize, Typed, DoneInv
    <3> QED BY <1>o, <3>1, <3>2 DEF Life!LNext, Life!Tell
  <2>3. CASE ScanFinalizes
    <3>1. LifeOf(log') = LifeOf(log) /\ summary' = scan.outcome /\ LifeOf(log) = scan.outcome
      BY <2>3 DEF ScanFinalizes, OutcomeInv
    <3>2. scan.outcome \in Outcomes
      BY <2>3, <1>a, ScanIs DEF ScanFinalizes
    <3> QED BY <1>o, <3>1, <3>2 DEF Life!LNext, Life!Tell
  <2>4. CASE ~ (Clear \/ Finalize \/ ScanFinalizes)
    <3>1. summary' = summary
      <4>1. ASSUME NEW s \in Steps, FlowStep(s) PROVE summary' = summary
        BY <4>1, FlowStepMoves DEF Moved
      <4> QED BY <1>2, <2>4, <4>1, NextIs DEF Launch, OpenLog, FlowEnds, AppendEnd, Untrack, Find, Act, Miss,
                 MarkerLands, Resumes, Prepare, Hands, ByHand, Crash, Boot, ScanReads, ScanCancels, ScanLaunches,
                 ScanRecords, Write, disk
    <3>2. CASE LifeOf(log') = LifeOf(log)
      BY <3>1, <3>2 DEF Life!lvars
    <3>3. CASE Goes("open", "flow") /\ LifeOf(log') = "open"
      <4>1. summary = "none"
        BY <3>3 DEF Goes, AloneInv
      <4>2. LifeOf(log) \in {"absent", "open"} \cup Outcomes
        BY <1>a, LifeIs
      <4>3. CASE LifeOf(log) = "open"
        BY <3>1, <3>3, <4>3 DEF Life!lvars
      <4>4. CASE LifeOf(log) \in {"absent"} \cup Outcomes
        BY <1>o, <3>1, <3>3, <4>1, <4>4 DEF Life!LNext, Life!Open
      <4> QED BY <4>2, <4>3, <4>4
    <3>4. CASE Goes("end", "finalize") /\ exec.outcome \in Outcomes /\ LifeOf(log') = exec.outcome
      <4>1. LifeOf(log) = "open"
        BY <3>4 DEF Goes, OutcomeInv
      <4>2. Life!Come(exec.outcome)
        BY <3>1, <3>4, <4>1 DEF Life!Come
      <4> QED BY <1>o, <3>4, <4>2 DEF Life!LNext
    <3>5. CASE scan.pc = "cancelled" /\ LifeOf(log') = "cancelled"
      <4>1. LifeOf(log) = "open"
        BY <3>5 DEF OutcomeInv
      <4>2. Life!Come("cancelled")
        BY <3>1, <3>5, <4>1 DEF Life!Come
      <4> QED BY <1>o, <4>2, KindsAre DEF Life!LNext
    <3> QED BY <1>2, <3>2, <3>3, <3>4, <3>5, LifeMoves
  <2> QED BY <2>1, <2>2, <2>3, <2>4
<1> QED BY <1>1, <1>2

\* A durable run looks to its readers like RunLife: opened once, brought to one outcome, told by its
\* summary, and changing its outcome only by being opened again, with the summary taken back first.
THEOREM LivesAsRunLife ==
  ASSUME InTurn
  PROVE  Spec => ImplementsLife
<1> DEFINE I == Typed /\ TornInv /\ AloneInv /\ MarkerInv /\ OutcomeInv
<1>1. Init => I
  BY ShapeInit, AllInit, MarkerInit DEF I
<1>2. I /\ [Next]_vars => I'
  BY TypedKept, TornKept, AloneKept, MarkerKept, OutcomeKept DEF InTurn
<1>3. I /\ [Next]_vars => [Life!LNext]_(Life!lvars)
  BY StepLives
<1>4. Init => Life!LInit
  <2>1. Boundaries(<<>>) = {}
    BY DEF Boundaries
  <2>2. LastIn({}) = 0
    BY DEF LastIn
  <2>3. LifeOf(<<>>) = "absent"
    BY <2>1, <2>2, NewestIs DEF LifeOf
  <2> QED BY <2>3 DEF Init, Life!LInit
<1> HIDE DEF I
<1> QED BY <1>1, <1>2, <1>3, <1>4, PTL DEF Spec, ImplementsLife, Life!LSpec

-----------------------------------------------------------------------------
(* No run is left behind                                                   *)

\* A run the scan decides about was written to since the boot on record, and an executor that has
\* opened the log wrote to it in the process it runs in.
FreshInv ==
  /\ Deciding => bootRec <= written
  /\ exec.pc \in {"flow", "end", "finalize"} => written = epoch

LEMMA FreshKept ==
  Typed /\ TornInv /\ FreshInv /\ [Next]_vars => FreshInv'
<1> SUFFICES ASSUME Typed, TornInv, FreshInv, [Next]_vars PROVE FreshInv'
  OBVIOUS
<1>a. /\ Shape /\ (exec = NoExec <=> exec.pc = "idle") /\ epoch \in Nat /\ bootRec \in 0 .. epoch /\ written \in 0 .. epoch
      /\ (exec.pc \in Pcs => exec \in RunningOf) /\ bootRec <= epoch
  BY ExecIs DEF Typed, Shape, Pcs
<1>i. NoExec.pc = "idle"
  BY DEF NoExec
<1>1. ASSUME UNCHANGED <<epoch, bootRec>>, written' = written \/ written' = epoch,
             Deciding' => Deciding \/ bootRec <= written',
             exec'.pc \in {"flow", "end", "finalize"} =>
               exec.pc \in {"flow", "end", "finalize"} \/ written' = epoch
      PROVE  FreshInv'
  BY <1>1, <1>a DEF FreshInv
<1>2. ASSUME NEW q \in Pcs, NEW t \in Pcs, exec.pc = q, exec' = At(exec, t) PROVE exec'.pc = t
  BY <1>2, <1>a, RunningAt DEF Pcs
<1>3. CASE Launch \/ Hands \/ ScanLaunches
  <2>1. exec' = exec \/ exec'.pc \in {"clear", "open"}
    BY <1>3 DEF Launch, Hands, ByHand, ScanLaunches, Exec
  <2>2. Deciding' => Deciding
    BY <1>3 DEF Launch, Hands, ByHand, ScanLaunches, Deciding
  <2> QED BY <1>1, <1>3, <2>1, <2>2 DEF Launch, Hands, ByHand, ScanLaunches, disk, proc
<1>4. CASE Clear
  <2>1. exec'.pc = "open"
    BY <1>2, <1>4 DEF Clear, At, Pcs
  <2> QED BY <1>1, <1>4, <2>1 DEF Clear, Deciding, proc
<1>5. CASE OpenLog \/ AppendEnd
  BY <1>1, <1>5 DEF OpenLog, AppendEnd, Write, Append1, Deciding, proc
<1>6. ASSUME NEW s \in Steps, FlowStep(s) PROVE FreshInv'
  <2>1. Moved(s)
    BY <1>6, FlowStepMoves
  <2>2. /\ UNCHANGED <<epoch, bootRec, scan>> /\ (written' = written \/ written' = epoch) /\ exec.pc = "flow"
    <3>1. bootRec' = bootRec
      BY <1>6 DEF FlowStep, Stop, Begin, FallbackReplays, Throws, Returns, Write, disk
    <3> QED BY <2>1, <3>1 DEF Moved
  <2> QED BY <1>1, <2>2 DEF Deciding
<1>7. CASE FlowEnds
  BY <1>1, <1>7 DEF FlowEnds, Deciding, disk, proc
<1>8. CASE Finalize
  BY <1>1, <1>8 DEF Finalize, Deciding, proc
<1>9. CASE Untrack
  BY <1>1, <1>9, <1>i DEF Untrack, Deciding, disk, proc
<1>10. CASE (\E q \in Requests : Find(q)) \/ Act \/ Miss \/ MarkerLands \/ Resumes
  BY <1>1, <1>10 DEF Find, Act, Miss, MarkerLands, Append1, Resumes, Prepare, Deciding, disk, proc
<1>11. CASE Crash
  BY <1>11, <1>i DEF Crash, FreshInv, Deciding
<1>12. CASE Boot
  <2>1. exec' = NoExec /\ ~ Deciding'
    BY <1>12 DEF Boot, TornInv, Idle, Deciding
  <2> QED BY <1>i, <2>1 DEF FreshInv
<1>13. CASE ScanReads
  <2>1. UNCHANGED <<epoch, bootRec, written, exec>>
    BY <1>13, ReadsIs
  <2>2. Deciding' => bootRec <= written
    <3>1. CASE PassedOver
      <4>1. scan' = [pc |-> "record"]
        BY <1>13, <3>1, ReadsIs
      <4> QED BY <4>1 DEF Deciding
    <3>2. CASE ~ PassedOver
      BY <1>a, <3>2 DEF PassedOver
    <3> QED BY <3>1, <3>2
  <2> QED BY <1>1, <2>1, <2>2
<1>14. CASE ScanCancels
  BY <1>1, <1>14, <1>a DEF ScanCancels, Append1, proc
<1>15. CASE ScanFinalizes
  BY <1>1, <1>15 DEF ScanFinalizes, Deciding, proc
<1>16. CASE ScanRecords
  <2>1. ~ Deciding' /\ UNCHANGED <<epoch, written, exec>>
    BY <1>16 DEF ScanRecords, Deciding, proc
  <2> QED BY <2>1 DEF FreshInv
<1>17. CASE UNCHANGED vars
  BY <1>17 DEF vars, disk, proc, FreshInv, Deciding
<1> QED BY <1>3, <1>4, <1>5, <1>6, <1>7, <1>8, <1>9, <1>10, <1>11, <1>12, <1>13, <1>14, <1>15, <1>16, <1>17, NextIs

\* An attempt launched by a caller, on a run id used once, is the first to start the run.
CallerInv == exec.pc \in {"clear", "open"} /\ exec.by = "caller" => Starts(log) = {}

LEMMA CallerKept ==
  Typed /\ CallerInv /\ [Next]_vars => CallerInv'
<1> SUFFICES ASSUME Typed, CallerInv, [Next]_vars PROVE CallerInv'
  OBVIOUS
<1>a. /\ log \in Seq(EventOf) /\ (exec.pc \in Pcs => exec \in RunningOf)
  BY ExecIs DEF Typed, Shape, Pcs
<1>i. NoExec.pc = "idle"
  BY DEF NoExec
<1>s. \A e \in EventOf : ~ IsStart(e) => Starts(Append(log, e)) = Starts(log)
  BY <1>a, NewestAppend
<1>k. /\ \A m \in MarkOf : m \in EventOf /\ ~ IsStart(m)
      /\ End("cancelled") \in EventOf /\ ~ IsStart(End("cancelled"))
  BY EventsAre, KindsAre DEF IsStart, IsOpening
<1>1. CASE Launch
  <2>1. log' = <<>>
    BY <1>1 DEF Launch, disk
  <2> QED BY <2>1 DEF CallerInv, Starts
<1>2. CASE Clear
  <2>1. exec.pc = "clear" /\ exec' = At(exec, "open") /\ log' = log
    BY <1>2 DEF Clear, At
  <2>2. exec'.by = exec.by
    BY <1>a, <2>1, RunningAt DEF Pcs
  <2> QED BY <2>1, <2>2 DEF CallerInv
<1>3. CASE Hands \/ ScanLaunches
  <2>1. log' = log /\ (exec' = exec \/ exec'.by \in {"hand", "boot"})
    BY <1>3 DEF Hands, ByHand, ScanLaunches, Exec, disk
  <2> QED BY <2>1 DEF CallerInv
<1>4. ASSUME NEW q \in Pcs, NEW r \in {"flow", "finalize", "teardown"}, exec.pc = q, exec' = At(exec, r)
      PROVE  CallerInv'
  <2>1. exec'.pc = r
    BY <1>4, <1>a, RunningAt DEF Pcs
  <2> QED BY <2>1 DEF CallerInv
<1>5. CASE OpenLog \/ AppendEnd \/ Finalize
  BY <1>4, <1>5 DEF OpenLog, AppendEnd, Finalize, At, Pcs
<1>6. ASSUME NEW s \in Steps, FlowStep(s) PROVE CallerInv'
  BY <1>6, FlowStepMoves DEF Moved, CallerInv
<1>7. CASE FlowEnds
  <2>1. exec \in RunningOf
    BY <1>7, <1>a DEF FlowEnds, Pcs
  <2>2. \E o \in Outcomes : exec' = Comes(exec, o)
    BY <1>7 DEF FlowEnds, Comes, Outcomes
  <2>3. exec'.pc = "end"
    BY <2>1, <2>2, RunningEnds
  <2> QED BY <2>3 DEF CallerInv
<1>8. CASE Untrack \/ Crash
  BY <1>8, <1>i DEF Untrack, Crash, CallerInv
<1>9. CASE (\E q \in Requests : Find(q)) \/ Act \/ Miss \/ Resumes \/ Boot \/ ScanReads \/ ScanFinalizes \/ ScanRecords
  BY <1>9 DEF Find, Act, Miss, Resumes, Prepare, Boot, ScanReads, ScanFinalizes, ScanRecords, CallerInv, disk
<1>10. CASE MarkerLands
  <2>1. pending # <<>> /\ log' = Append(log, Head(pending)) /\ exec' = exec
    BY <1>10 DEF MarkerLands, Append1
  <2>2. Head(pending) \in MarkOf
    BY <2>1 DEF Typed, Shape
  <2> QED BY <1>s, <1>k, <2>1, <2>2 DEF CallerInv
<1>11. CASE ScanCancels
  <2>1. log' = Append(log, End("cancelled")) /\ exec' = exec
    BY <1>11 DEF ScanCancels, Append1
  <2> QED BY <1>s, <1>k, <2>1 DEF CallerInv
<1>12. CASE UNCHANGED vars
  BY <1>12 DEF vars, disk, CallerInv
<1> QED BY <1>1, <1>2, <1>3, <1>5, <1>6, <1>7, <1>8, <1>9, <1>10, <1>11, <1>12, NextIs

LEMMA RestartsIs == \A l \in Seq(EventOf) : Restarts(l) \in Nat
<1> SUFFICES ASSUME NEW l \in Seq(EventOf) PROVE Restarts(l) \in Nat
  OBVIOUS
<1>1. IsFiniteSet(1 .. Len(l))
  BY FS_Interval
<1>2. {i \in 1 .. Len(l) : l[i].type = "resumed"} \subseteq 1 .. Len(l)
  OBVIOUS
<1>3. IsFiniteSet({i \in 1 .. Len(l) : l[i].type = "resumed"})
  BY <1>1, <1>2, FS_Subset
<1> QED BY <1>3, FS_CardinalityType DEF Restarts

\* Only an outcome that is told leaves requests behind, and a run that is started and not live is
\* accounted for, is in the scan's hands, or was written to since the boot on record and is still
\* before a scan.
QuietEnd ==
  /\ exec.pc = "teardown" => summary # "none"
  /\ exec = NoExec => summary # "none" \/ (ask = NoAsk /\ pending = <<>>)
Awaits == scan.pc \in {"off", "wait"} /\ bootRec <= written
ToldInv ==
  /\ QuietEnd
  /\ exec = NoExec /\ Newest(log, IsStart) # 0 => Accounted \/ Deciding \/ Awaits

LEMMA ToldKept ==
  Typed /\ TornInv /\ FreshInv /\ CallerInv /\ ToldInv /\ [Next]_vars => ToldInv'
<1> SUFFICES ASSUME Typed, TornInv, FreshInv, CallerInv, ToldInv, [Next]_vars PROVE ToldInv'
  OBVIOUS
<1>a. /\ Shape /\ (exec = NoExec <=> exec.pc = "idle") /\ (Live <=> exec # NoExec)
      /\ (exec.pc \in Pcs => exec \in RunningOf)
  BY ExecIs DEF Typed, Shape, Live, Pcs
<1>i. NoExec.pc = "idle"
  BY DEF NoExec
<1> USE DEF QuietEnd
<1>1. ASSUME exec'.pc \in {"clear", "open", "flow", "end", "finalize"} PROVE ToldInv'
  BY <1>1, <1>i DEF ToldInv
<1>2. ASSUME UNCHANGED <<log, summary, exec, bootRec, written, left>>, scan' = scan,
             exec = NoExec => summary # "none" \/ (ask' = NoAsk /\ pending' = <<>>)
      PROVE  ToldInv'
  BY <1>2 DEF ToldInv, Deciding, Awaits, Accounted
<1>3. CASE Launch \/ Hands \/ ScanLaunches
  <2>1. CASE Live
    <3>1. UNCHANGED <<summary, exec>> /\ exec # NoExec
      BY <1>3, <1>a, <2>1 DEF Launch, Hands, ByHand, ScanLaunches, disk
    <3> QED BY <3>1 DEF ToldInv
  <2>2. CASE ~ Live
    <3>1. exec'.pc \in {"clear", "open"}
      BY <1>3, <2>2 DEF Launch, Hands, ByHand, ScanLaunches, Exec
    <3> QED BY <1>1, <3>1
  <2> QED BY <2>1, <2>2
<1>4. ASSUME NEW q \in Pcs, NEW t \in {"open", "flow", "finalize"}, exec.pc = q, exec' = At(exec, t) PROVE ToldInv'
  <2>1. exec'.pc = t
    BY <1>4, <1>a, RunningAt DEF Pcs
  <2> QED BY <1>1, <2>1
<1>5. CASE Clear \/ OpenLog \/ AppendEnd
  BY <1>5, <1>4 DEF Clear, OpenLog, AppendEnd, At, Pcs
<1>6. ASSUME NEW s \in Steps, FlowStep(s) PROVE ToldInv'
  BY <1>1, <1>6, FlowStepMoves DEF Moved
<1>7. CASE FlowEnds
  <2>1. exec \in RunningOf
    BY <1>7, <1>a DEF FlowEnds, Pcs
  <2>2. \E o \in Outcomes : exec' = Comes(exec, o)
    BY <1>7 DEF FlowEnds, Comes, Outcomes
  <2>3. exec'.pc = "end"
    BY <2>1, <2>2, RunningEnds
  <2> QED BY <1>1, <2>3
<1>8. CASE Finalize
  <2>1. exec.pc = "finalize" /\ exec' = At(exec, "teardown") /\ summary' = exec.outcome
    BY <1>8 DEF Finalize, At
  <2>2. exec'.pc = "teardown"
    BY <1>a, <2>1, RunningAt DEF Pcs
  <2>3. exec.outcome \in Outcomes
    BY <1>a, <1>i, <2>1 DEF Typed, DoneInv
  <2> QED BY <1>i, <2>1, <2>2, <2>3, KindsAre DEF ToldInv
<1>9. CASE Untrack
  <2>1. summary # "none" /\ summary' = summary /\ exec' = NoExec
    BY <1>9 DEF Untrack, ToldInv, disk
  <2> QED BY <1>i, <2>1 DEF ToldInv, Accounted
<1>10. CASE \E q \in Requests : Find(q)
  BY <1>2, <1>10, <1>a DEF Find, disk, history
<1>11. CASE Act \/ Miss
  <2>1. exec = NoExec => summary # "none"
    BY <1>11 DEF Act, Miss, ToldInv
  <2> QED BY <1>2, <1>11, <2>1 DEF Act, Miss, disk, history
<1>12. CASE MarkerLands
  <2>1. UNCHANGED <<summary, exec>> /\ (exec = NoExec => summary # "none")
    BY <1>12 DEF MarkerLands, ToldInv
  <2> QED BY <2>1 DEF ToldInv, Accounted
<1>13. CASE Resumes
  BY <1>2, <1>13 DEF Resumes, Prepare, ToldInv, history
<1>14. CASE Crash
  <2>1. UNCHANGED <<log, summary, bootRec, written>> /\ exec' = NoExec /\ ask' = NoAsk /\ pending' = <<>> /\ scan'.pc = "off"
    BY <1>14 DEF Crash
  <2>2. left' = IF Reopening /\ written < bootRec THEN "unwritten" ELSE left
    BY <1>14 DEF Crash
  <2> SUFFICES ASSUME Newest(log, IsStart) # 0, summary = "none", ~ (bootRec <= written), left' = "none",
                      LastControl(log) # "paused", ~ (Restarts(log) >= MaxResumes)
               PROVE  FALSE
    BY <1>i, <2>1 DEF ToldInv, Accounted, Awaits
  <2>3. written < bootRec /\ ~ Reopening /\ left = "none"
    BY <1>a, <2>2 DEF Shape
  <2>4. CASE exec = NoExec
    BY <2>3, <2>4 DEF ToldInv, Accounted, FreshInv, Awaits
  <2>5. CASE exec.pc \in {"flow", "end", "finalize"}
    BY <1>a, <2>3, <2>5 DEF FreshInv, Shape
  <2>6. CASE exec.pc = "teardown"
    BY <2>6 DEF ToldInv
  <2>7. CASE exec.pc \in {"clear", "open"}
    <3>1. exec.by = "caller"
      BY <2>3, <2>7 DEF Reopening
    <3>2. Newest(log, IsStart) = 0
      BY <2>7, <3>1, NewestIs DEF CallerInv, LastIn
    <3> QED BY <2>1, <3>2
  <2>8. exec = NoExec \/ exec.pc \in Pcs
    BY <1>a, ExecIs
  <2> QED BY <2>4, <2>5, <2>6, <2>7, <2>8 DEF Pcs
<1>15. CASE Boot
  <2>1. UNCHANGED <<log, summary, exec, bootRec, written, left, ask, pending>> /\ ~ Deciding /\ scan'.pc = "wait"
    BY <1>15 DEF Boot, TornInv, Deciding, disk, history
  <2> QED BY <2>1 DEF ToldInv, Awaits, Accounted
<1>16. CASE ScanReads
  <2>1. UNCHANGED <<log, summary, exec, ask, pending, bootRec, written>> /\ scan.pc = "wait" /\ ~ Deciding
    BY <1>16, ReadsIs DEF Deciding
  <2> SUFFICES ASSUME exec = NoExec, Newest(log, IsStart) # 0, ~ Accounted'
               PROVE  Deciding'
    <3>1. QuietEnd'
      BY <2>1 DEF ToldInv
    <3> QED BY <2>1, <3>1 DEF ToldInv
  <2>2. summary = "none" /\ left' = "none" /\ LastControl(log) # "paused" /\ ~ (Restarts(log) >= MaxResumes)
    BY <2>1 DEF Accounted
  <2>3. ~ PassedOver \/ left # "none"
    <3>1. Accounted \/ Awaits
      BY <2>1 DEF ToldInv
    <3> QED BY <1>a, <2>2, <3>1 DEF PassedOver, Accounted, Awaits, Shape
  <2>4. ~ PassedOver /\ scan' = Decision
    <3>1. "none" \notin Skips
      BY FlowAssumption
    <3> QED BY <1>16, <2>2, <2>3, <3>1, ReadsIs
  <2>5. CASE Ended(log) \/ (~ Ended(log) /\ LastControl(log) = "cancelling")
    <3>1. Decision.pc \in {"finalize", "cancelled"}
      BY <2>5 DEF Decision, Resumable
    <3> QED BY <2>4, <3>1 DEF Deciding
  <2>6. CASE ~ Ended(log) /\ LastControl(log) # "cancelling"
    <3>1. Resumable
      <4>1. Restarts(log) < MaxResumes
        BY <1>a, <2>2, RestartsIs, FlowAssumption DEF Shape
      <4> QED BY <2>2, <2>6, <4>1 DEF Resumable
    <3>2. Decision.pc = "launch"
      BY <2>6, <3>1 DEF Decision
    <3> QED BY <2>4, <3>2 DEF Deciding
  <2> QED BY <2>5, <2>6
<1>17. CASE ScanCancels
  <2>1. UNCHANGED <<summary, exec, ask, pending>> /\ Deciding'
    BY <1>17 DEF ScanCancels, Deciding
  <2> QED BY <2>1 DEF ToldInv
<1>18. CASE ScanFinalizes
  <2>1. summary' # "none" /\ exec' = exec
    BY <1>18, <1>a, ScanIs, KindsAre DEF ScanFinalizes, Shape
  <2> QED BY <2>1 DEF ToldInv, Accounted
<1>19. CASE ScanRecords
  <2>1. scan.pc = "record" /\ ~ Deciding /\ ~ Awaits
    BY <1>19 DEF ScanRecords, Deciding, Awaits
  <2>2. UNCHANGED <<log, summary, exec, ask, pending, left>>
    BY <1>19 DEF ScanRecords, history
  <2> QED BY <2>1, <2>2 DEF ToldInv, Accounted
<1>20. CASE UNCHANGED vars
  BY <1>20 DEF vars, disk, proc, history, ToldInv, Deciding, Awaits, Accounted
<1> QED BY <1>3, <1>5, <1>6, <1>7, <1>8, <1>9, <1>10, <1>11, <1>12, <1>13, <1>14, <1>15, <1>16, <1>17, <1>18,
           <1>19, <1>20, NextIs

LEMMA ToldInit == Init => FreshInv /\ CallerInv /\ ToldInv
<1>1. Newest(<<>>, IsStart) = 0
  <2>1. Starts(<<>>) = {}
    BY DEF Starts
  <2> QED BY <2>1, NewestIs DEF LastIn
<1> QED BY <1>1 DEF Init, FreshInv, CallerInv, ToldInv, QuietEnd, Deciding, NoExec

\* Once a process has scanned, however often the server died before, a run that is not live has an
\* outcome, was parked by a person, is at the crash-loop guard's cap or was left for a reason.
THEOREM NoneIsForgotten == Spec => []NotForgotten
<1> DEFINE I == Typed /\ TornInv /\ FreshInv /\ CallerInv /\ ToldInv
<1>1. Init => I
  BY ShapeInit, AllInit, ToldInit
<1>2. I /\ [Next]_vars => I'
  BY TypedKept, TornKept, FreshKept, CallerKept, ToldKept
<1>3. I => NotForgotten
  BY ExecIs DEF Typed, Shape, Live, ToldInv, NotForgotten, Deciding, Awaits
<1> HIDE DEF I
<1> QED BY <1>1, <1>2, <1>3, PTL DEF Spec

-----------------------------------------------------------------------------
(* A cancel sticks                                                         *)

\* What an event appended to the log makes of the last control.
LEMMA ControlIs ==
  ASSUME NEW l \in Seq(EventOf), NEW e \in EventOf
  PROVE  LastControl(Append(l, e)) = IF IsControl(e) THEN e.type ELSE LastControl(l)
<1> DEFINE m == Append(l, e)  n == Len(l)
<1>1. /\ n \in Nat /\ Len(m) = n + 1 /\ 1 .. Len(m) = (1 .. n) \cup {n + 1}
      /\ (\A i \in 1 .. n : m[i] = l[i]) /\ m[n + 1] = e
  BY AppendIs
<1> HIDE DEF m, n
<1>2. Controls(m) = {i \in 1 .. n : IsControl(l[i])} \cup (IF IsControl(e) THEN {n + 1} ELSE {})
  BY <1>1 DEF Controls
<1>3. Controls(l) = {i \in 1 .. n : IsControl(l[i])} /\ Controls(l) \in SUBSET (1 .. n)
  BY DEF Controls, n
<1>4. \A x : LastControl(x) = IF LastIn(Controls(x)) = 0 THEN "none" ELSE x[LastIn(Controls(x))].type
  BY NewestIs DEF LastControl
<1>5. CASE IsControl(e)
  <2>1. LastIn(Controls(m)) = n + 1 /\ n + 1 # 0
    <3>1. Controls(m) = Controls(l) \cup {n + 1}
      BY <1>2, <1>3, <1>5
    <3>2. LastIn(Controls(l) \cup {n + 1}) = n + 1
      BY <1>1, <1>3, LastInMore
    <3> QED BY <1>1, <3>1, <3>2
  <2>2. LastControl(m) = m[n + 1].type
    BY <1>4, <2>1
  <2> QED BY <1>1, <1>5, <2>2 DEF m
<1>6. CASE ~ IsControl(e)
  <2>1. Controls(m) = Controls(l)
    BY <1>2, <1>3, <1>6
  <2>2. LastIn(Controls(l)) # 0 => LastIn(Controls(l)) \in 1 .. n
    BY <1>1, <1>3, LastInIs
  <2> QED BY <1>1, <1>4, <1>6, <2>1, <2>2 DEF m
<1> QED BY <1>5, <1>6

\* Starts, outputs and ends control nothing.
LEMMA ControlsAre ==
  /\ \A v \in Versions : ~ IsControl(Start(v))
  /\ \A o \in Outcomes : ~ IsControl(End(o))
  /\ \A s, q, o : ~ IsControl(StepEnd(s, q, o))
  /\ \A m \in MarkOf : IsControl(m) /\ m.type \in {"paused", "live", "cancelling"}
BY DEF IsControl, Start, End, StepEnd, MarkOf, Outcomes

\* A cancel on record is the last control in the log, or only a pause came behind it; the attempt it is
\* in has opened the log, and the scan does not launch another.
StopInv ==
  /\ stopped => LastControl(log) \in {"cancelling", "paused"} /\ ~ Reopening
  /\ scan.pc = "launch" => ~ stopped

LEMMA StopKept ==
  Typed /\ TornInv /\ AloneInv /\ ToldInv /\ StopInv /\ [Next]_vars => StopInv'
<1> SUFFICES ASSUME Typed, TornInv, AloneInv, ToldInv, StopInv, [Next]_vars PROVE StopInv'
  OBVIOUS
<1>a. /\ Shape /\ (exec = NoExec <=> exec.pc = "idle") /\ (Live <=> exec # NoExec) /\ log \in Seq(EventOf)
      /\ (exec.pc \in Pcs => exec \in RunningOf) /\ pending \in Seq(MarkOf)
  BY ExecIs DEF Typed, Shape, Live, Pcs
<1>i. NoExec.pc = "idle"
  BY DEF NoExec
<1>1. ASSUME UNCHANGED stopped, LastControl(log') = LastControl(log), Reopening' => Reopening,
             scan'.pc = "launch" => scan.pc = "launch"
      PROVE  StopInv'
  BY <1>1 DEF StopInv
<1>2. ASSUME exec' = exec PROVE Reopening' <=> Reopening
  BY <1>2 DEF Reopening
<1>3. ASSUME exec'.pc \notin {"clear", "open"} PROVE ~ Reopening'
  BY <1>3 DEF Reopening
<1>4. CASE Launch
  <2>1. exec'.by = "caller" /\ UNCHANGED <<stopped, log, scan>>
    BY <1>4 DEF Launch, Exec, disk, history
  <2> QED BY <1>1, <2>1 DEF Reopening
<1>5. CASE Clear
  <2>1. exec.pc = "clear" /\ exec' = At(exec, "open") /\ UNCHANGED <<stopped, log, scan>>
    BY <1>5 DEF Clear, At, history
  <2>2. exec'.by = exec.by
    BY <1>a, <2>1, RunningAt DEF Pcs
  <2> QED BY <1>1, <2>1, <2>2 DEF Reopening
<1>6. ASSUME NEW q \in Pcs, NEW r \in {"flow", "finalize", "teardown"}, exec.pc = q, exec' = At(exec, r)
      PROVE  ~ Reopening'
  <2>1. exec'.pc = r
    BY <1>6, <1>a, RunningAt DEF Pcs
  <2> QED BY <2>1 DEF Reopening
<1>7. CASE OpenLog
  <2>1. /\ exec.pc = "open" /\ exec' = At(exec, "flow") /\ UNCHANGED <<stopped, scan>>
        /\ log' = Append(log, IF exec.by = "caller" THEN Start(exec.ver) ELSE Resumed(exec.ver))
    BY <1>7 DEF OpenLog, At, Write, Append1, history
  <2>2. ~ Reopening' /\ exec.ver \in Versions
    BY <1>a, <1>6, <2>1, RunningIs DEF Pcs
  <2>3. CASE exec.by = "caller"
    <3>1. log' = Append(log, Start(exec.ver)) /\ Start(exec.ver) \in EventOf
      BY <2>1, <2>2, <2>3, EventsAre
    <3>2. LastControl(log') = LastControl(log)
      BY <1>a, <2>2, <3>1, ControlIs, ControlsAre
    <3> QED BY <1>1, <2>1, <2>2, <3>2
  <2>4. CASE exec.by # "caller"
    <3>1. ~ stopped
      BY <2>1, <2>4 DEF StopInv, Reopening
    <3> QED BY <2>1, <3>1 DEF StopInv
  <2> QED BY <2>3, <2>4
<1>8. ASSUME NEW s \in Steps, FlowStep(s) PROVE StopInv'
  <2>1. Moved(s)
    BY <1>8, FlowStepMoves
  <2>2. UNCHANGED <<stopped, scan>> /\ ~ Reopening'
    BY <2>1 DEF Moved, Reopening
  <2>3. CASE log' = log
    BY <1>1, <2>2, <2>3
  <2>4. CASE log' # log
    <3>1. PICK q \in Places, v \in Values : log' = Append(log, StepEnd(s, q, Output(s, v))) /\ Output(s, v) \in OutOf
      BY <2>1, <2>4 DEF Moved
    <3>2. StepEnd(s, q, Output(s, v)) \in EventOf
      BY <3>1, EventsAre
    <3>3. LastControl(log') = LastControl(log)
      BY <1>a, <3>1, <3>2, ControlIs, ControlsAre
    <3> QED BY <1>1, <2>2, <3>3
  <2> QED BY <2>3, <2>4
<1>9. CASE FlowEnds
  <2>1. exec \in RunningOf /\ UNCHANGED <<stopped, scan, log>>
    BY <1>9, <1>a DEF FlowEnds, Pcs, disk, history
  <2>2. \E o \in Outcomes : exec' = Comes(exec, o)
    BY <1>9 DEF FlowEnds, Comes, Outcomes
  <2>3. exec'.pc = "end"
    BY <2>1, <2>2, RunningEnds
  <2> QED BY <1>1, <1>3, <2>1, <2>3
<1>10. CASE AppendEnd
  <2>1. exec.pc = "end" /\ exec' = At(exec, "finalize") /\ UNCHANGED <<stopped, scan>>
    BY <1>10 DEF AppendEnd, At, history
  <2>2. exec.outcome \in Outcomes
    BY <1>i, <2>1 DEF Typed, DoneInv
  <2>3. log' = Append(log, End(exec.outcome)) /\ End(exec.outcome) \in EventOf
    BY <1>10, <2>2, EventsAre DEF AppendEnd, Write, Append1
  <2>4. LastControl(log') = LastControl(log)
    BY <1>a, <2>2, <2>3, ControlIs, ControlsAre
  <2>5. ~ Reopening'
    BY <1>6, <2>1 DEF Pcs
  <2> QED BY <1>1, <2>1, <2>4, <2>5
<1>11. CASE Finalize
  <2>1. exec.pc = "finalize" /\ exec' = At(exec, "teardown") /\ UNCHANGED <<stopped, scan, log>>
    BY <1>11 DEF Finalize, At, history
  <2>2. ~ Reopening'
    BY <1>6, <2>1 DEF Pcs
  <2> QED BY <1>1, <2>1, <2>2
<1>12. CASE Untrack
  BY <1>1, <1>3, <1>12, <1>i DEF Untrack, disk, history
<1>13. CASE (\E q \in Requests : Find(q)) \/ Act \/ Miss \/ Resumes
  BY <1>1, <1>2, <1>13 DEF Find, Act, Miss, Resumes, Prepare, disk, history
<1>14. CASE MarkerLands
  <2> DEFINE m == Head(pending)
  <2>1. /\ pending # <<>> /\ log' = Append(log, m) /\ UNCHANGED <<scan, exec>>
        /\ stopped' = CASE m.type = "cancelling" -> stopped \/ ~ Reopening
                        [] m.type = "live"       -> FALSE
                        [] OTHER                 -> stopped
    BY <1>14 DEF MarkerLands, Append1
  <2>2. m \in MarkOf /\ m \in EventOf
    BY <1>a, <2>1, EventsAre
  <2>3. LastControl(log') = m.type /\ m.type \in {"paused", "live", "cancelling"}
    BY <1>a, <2>1, <2>2, ControlIs, ControlsAre
  <2> HIDE DEF m
  <2>4. stopped' => (stopped \/ ~ Reopening) /\ m.type \in {"paused", "cancelling"}
    BY <2>1, <2>3
  <2>5. stopped' => ~ Reopening'
    BY <1>2, <2>1, <2>4 DEF StopInv
  <2>6. scan.pc # "launch"
    BY <2>1 DEF AloneInv, Deciding, ToldInv, QuietEnd
  <2> QED BY <2>1, <2>3, <2>4, <2>5, <2>6 DEF StopInv
<1>15. CASE Hands
  <2>1. PICK p \in prep : ByHand(p)
    BY <1>15 DEF Hands
  <2>2. scan' = scan /\ log' = log /\ (IF Live THEN UNCHANGED <<exec, stopped>> ELSE ~ stopped')
    BY <2>1 DEF ByHand, disk, history
  <2>3. CASE Live
    BY <1>1, <1>2, <2>2, <2>3
  <2>4. CASE ~ Live
    BY <2>2, <2>4 DEF StopInv
  <2> QED BY <2>3, <2>4
<1>16. CASE Crash
  <2>1. scan'.pc = "off" /\ exec' = NoExec /\ UNCHANGED <<log, stopped>>
    BY <1>16 DEF Crash
  <2> QED BY <1>1, <1>3, <1>i, <2>1
<1>17. CASE Boot
  <2>1. scan'.pc = "wait" /\ UNCHANGED <<log, stopped, exec>>
    BY <1>17 DEF Boot, disk, history
  <2> QED BY <1>1, <1>2, <2>1
<1>18. CASE ScanReads
  <2>1. UNCHANGED <<log, exec, stopped>> /\ (scan' = [pc |-> "record"] \/ (~ PassedOver /\ scan' = Decision))
    BY <1>18, ReadsIs
  <2>2. CASE scan' = [pc |-> "record"]
    BY <1>1, <1>2, <2>1, <2>2
  <2>3. CASE ~ PassedOver /\ scan' = Decision
    <3>1. Decision.pc = "launch" => ~ Ended(log)
      BY <1>a, <2>3, DecisionIs
    <3>2. Decision.pc = "launch" => LastControl(log) \notin {"cancelling", "paused"}
      <4>1. ~ Ended(log) /\ LastControl(log) = "cancelling" => Decision.pc = "cancelled"
        BY DEF Decision, Resumable
      <4>2. ~ Ended(log) /\ LastControl(log) = "paused" => Decision.pc = "record"
        BY DEF Decision, Resumable
      <4> QED BY <3>1, <4>1, <4>2
    <3> QED BY <1>2, <2>1, <2>3, <3>2 DEF StopInv
  <2> QED BY <2>1, <2>2, <2>3
<1>19. CASE ScanCancels
  <2>1. log' = Append(log, End("cancelled")) /\ End("cancelled") \in EventOf
    BY <1>19, EventsAre, KindsAre DEF ScanCancels, Append1
  <2>2. LastControl(log') = LastControl(log)
    BY <1>a, <2>1, ControlIs, ControlsAre, KindsAre
  <2>3. exec' = exec /\ scan'.pc = "finalize" /\ stopped' = stopped
    BY <1>19 DEF ScanCancels, history
  <2> QED BY <1>1, <1>2, <2>2, <2>3
<1>20. CASE ScanFinalizes \/ ScanRecords
  BY <1>1, <1>2, <1>20 DEF ScanFinalizes, ScanRecords, history
<1>21. CASE ScanLaunches
  <2>1. ~ stopped /\ stopped' = stopped
    BY <1>21 DEF ScanLaunches, StopInv, history
  <2> QED BY <2>1 DEF StopInv
<1>22. CASE UNCHANGED vars
  BY <1>1, <1>2, <1>22 DEF vars, disk, history
<1> QED BY <1>4, <1>5, <1>7, <1>8, <1>9, <1>10, <1>11, <1>12, <1>13, <1>14, <1>15, <1>16, <1>17, <1>18, <1>19,
           <1>20, <1>21, <1>22, NextIs

\* Only the scan starts a run for the boot.
LEMMA BootStarts ==
  ASSUME Typed, Next, exec = NoExec, exec' # NoExec, exec'.by = "boot"
  PROVE  scan.pc = "launch"
<1>a. exec.pc = "idle" /\ (exec.pc \in Pcs => exec \in RunningOf) /\ (ctl = "none")
  BY ExecIs DEF Typed, Shape, Pcs
<1>1. ~ \E s \in Steps : FlowStep(s)
  <2>1. \A s \in Steps : Moved(s) => exec.pc = "flow"
    BY DEF Moved
  <2> QED BY <1>a, <2>1, FlowStepMoves
<1>2. ~ Launch /\ ~ Hands
  BY <1>a DEF Launch, Hands, ByHand, Exec, Live
<1>3. ~ (Clear \/ OpenLog \/ FlowEnds \/ AppendEnd \/ Finalize \/ Untrack \/ Crash)
  BY <1>a DEF Clear, OpenLog, FlowEnds, AppendEnd, Finalize, Untrack, Crash
<1>4. ~ ((\E q \in Requests : Find(q)) \/ Act \/ Miss \/ MarkerLands \/ Resumes \/ Boot)
  BY DEF Find, Act, Miss, MarkerLands, Resumes, Prepare, Boot
<1>5. ~ (ScanReads \/ ScanCancels \/ ScanFinalizes \/ ScanRecords)
  BY DEF ScanReads, ScanCancels, ScanFinalizes, ScanRecords
<1> QED BY <1>1, <1>2, <1>3, <1>4, <1>5, NextIs DEF ScanLaunches

\* Once a cancel of an attempt is on record behind its opening, no boot starts the run again, whatever
\* requests are made and however often the server dies; resumes wait for the scan.
THEOREM CancelledStaysSo ==
  ASSUME ~ Early
  PROVE  Spec => CancelSticks
<1> DEFINE I == Typed /\ TornInv /\ AloneInv /\ FreshInv /\ CallerInv /\ ToldInv /\ StopInv
<1>1. Init => I
  <2>1. Init => StopInv
    BY DEF Init, StopInv
  <2> QED BY <2>1, ShapeInit, AllInit, ToldInit
<1>2. I /\ [Next]_vars => I'
  BY TypedKept, TornKept, AloneKept, FreshKept, CallerKept, ToldKept, StopKept
<1>3. I /\ [Next]_vars => [(exec = NoExec /\ exec' # NoExec /\ exec'.by = "boot") => ~ stopped]_vars
  BY BootStarts DEF StopInv
<1> HIDE DEF I
<1> QED BY <1>1, <1>2, <1>3, PTL DEF Spec, CancelSticks

=============================================================================
