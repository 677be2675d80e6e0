-------------------------- MODULE Scheduler_proofs --------------------------
(***************************************************************************)
(* What holds of the automations of a workflow for any automations,        *)
(* triggers, number of runs and instants, whatever ticks, people and hosts *)
(* do.                                                                     *)
(***************************************************************************)
EXTENDS Scheduler, TLAPS, WellFoundedInduction, FiniteSetTheorems

-----------------------------------------------------------------------------
(* The next instant of a trigger                                           *)

\* A set of naturals that is not empty has a least element.
LEMMA LessWellFounded ==
  \E R : IsWellFoundedOn(R, Nat) /\ \A x, y \in Nat : <<y, x>> \in R <=> y < x
<1>1. \A x, y \in Nat : <<y, x>> \in OpToRel(<, Nat) <=> y < x
  BY DEF OpToRel
<1> DEFINE R == OpToRel(<, Nat)
<1>2. IsWellFoundedOn(R, Nat)
  BY NatLessThanWellFounded
<1>3. \A x, y \in Nat : <<y, x>> \in R <=> y < x
  BY <1>1
<1> HIDE DEF R
<1> QED BY <1>2, <1>3

LEMMA LeastNat ==
  ASSUME NEW T \in SUBSET Nat, T # {}
  PROVE  \E m \in T : \A k \in T : m <= k
<1>1. PICK R : IsWellFoundedOn(R, Nat) /\ \A x, y \in Nat : <<y, x>> \in R <=> y < x
  BY LessWellFounded
<1>2. PICK x \in T : \A y \in T : ~ (<<y, x>> \in R)
  BY <1>1, WFMin
<1>3. \A y \in T : ~ (y < x)
  BY <1>1, <1>2
<1>4. \A y \in T : x <= y
  BY <1>3
<1> QED BY <1>4

\* NextFire is the first instant after one, or Never when there is none.
LEMMA NextFireIs ==
  ASSUME NEW T \in SUBSET (1 .. Horizon), NEW after \in Nat, NEW n, n = NextFire(T, after)
  PROVE  /\ n \in Instants
         /\ n = Never => \A i \in T : i <= after
         /\ n # Never => n \in T /\ after < n /\ \A i \in T : after < i => n <= i
<1> DEFINE later == {i \in T : i > after}
<1>0. Horizon \in Nat /\ \A i \in T : i \in Nat /\ i # 0
  BY SchedulerAssumption
<1>1. CASE later = {}
  <2>1. n = Never
    BY <1>1 DEF NextFire
  <2> QED BY <1>0, <1>1, <2>1 DEF Never, Instants
<1>2. CASE later # {}
  <2>1. \E m \in later : \A k \in later : m <= k
    BY <1>0, <1>2, LeastNat
  <2>2. n \in later /\ \A k \in later : n <= k
    BY <1>2, <2>1 DEF NextFire
  <2> QED BY <1>0, <2>2 DEF Never, Instants
<1> QED BY <1>1, <1>2

\* The first run that is not used yet.
LEMMA FirstUnused ==
  ASSUME Unused # {}, NEW r, r = CHOOSE x \in Unused : \A q \in Unused : x <= q
  PROVE  r \in Unused /\ \A q \in Unused : r <= q
<1>1. Unused \subseteq Nat
  BY SchedulerAssumption DEF Unused
<1>2. \E x \in Unused : \A q \in Unused : x <= q
  BY <1>1, LeastNat
<1> QED BY <1>2

-----------------------------------------------------------------------------
(* The type invariant                                                      *)

Listed == [on : BOOLEAN, trigger : Triggers] \cup {Gone}

LEMMA InstantsAre == 0 \in Instants /\ Never \in Instants /\ \A i \in Instants : i \in Nat
BY SchedulerAssumption DEF Never, Instants

LEMMA TriggersAre == \A t \in Triggers : t \in SUBSET (1 .. Horizon) /\ t # {}
BY SchedulerAssumption

LEMMA ListedAre ==
  ASSUME NEW x \in Listed
  PROVE  /\ x.on \in BOOLEAN /\ x.trigger \in SUBSET (1 .. Horizon)
         /\ x.on => x.trigger \in Triggers
<1>1. CASE x = Gone
  BY <1>1 DEF Gone
<1>2. CASE x \in [on : BOOLEAN, trigger : Triggers]
  BY <1>2, TriggersAre
<1> QED BY <1>1, <1>2 DEF Listed

\* What a pass holds of an entry, a fire, a run and an edit may be.
TodoOf == {Unvisited, Shared} \cup [at : {"own"}, trigger : Triggers, next : Instants]
FireOf == {NoFire} \cup [by : {"tick", "hand"}, due : Instants, stale : BOOLEAN,
                         pc : {"asked", "scanning", "clear"}]
RunOf == {NoRun} \cup [pc : {"launched", "running", "success", "over", "dead"}, auto : Autos,
                       due : Instants, born : Instants, stale : BOOLEAN]
TickOf == {NoTick} \cup [pc : {"loading"}, list : Lists] \cup [pc : {"working"}, now : Instants]
EditOf == [of : Autos, list : Lists, written : BOOLEAN]
Becoming == {"none", "firing", "ran", "refused"}
AnswerOf == [Instants -> Becoming]

Shape ==
  /\ clock \in Instants /\ bornAt \in Instants /\ around \in Nat
  /\ saved \in Lists /\ asked \in Lists
  /\ up \in BOOLEAN /\ resumed \in BOOLEAN /\ loaded \in BOOLEAN
  /\ entry \in [Autos -> EntryOf] /\ since \in [Autos -> Instants]
  /\ set \in [Autos -> Instants] /\ answer \in [Autos -> AnswerOf]
  /\ tick \in TickOf /\ todo \in [Autos -> TodoOf] /\ fire \in [Autos -> FireOf]
  /\ run \in [Runs -> RunOf] /\ edits \subseteq EditOf

LEMMA ShapeIsType == Shape <=> TypeOK
BY DEF Shape, TypeOK, TodoOf, FireOf, RunOf, TickOf, EditOf, AnswerOf, Becoming

LEMMA UnansweredIs == Unanswered \in AnswerOf
BY DEF Unanswered, AnswerOf, Becoming

\* What became of an automation's instants is told once the fire at work is over.
LEMMA AnswersIs ==
  ASSUME answer \in [Autos -> AnswerOf], NEW a \in Autos, NEW why \in Becoming, Answers(a, why)
  PROVE  /\ answer' \in [Autos -> AnswerOf] /\ \A b \in Autos : b # a => answer'[b] = answer[b]
         /\ \A i \in Instants : answer'[a][i] = IF answer[a][i] = "firing" THEN why ELSE answer[a][i]
<1> DEFINE new == Becomes(answer[a], why)
<1>1. \A i \in Instants : new[i] = IF answer[a][i] = "firing" THEN why ELSE answer[a][i]
  BY DEF Becomes
<1>2. new \in AnswerOf
  BY <1>1 DEF Becomes, AnswerOf
<1>3. answer' = [answer EXCEPT ![a] = new]
  BY DEF Answers
<1> HIDE DEF new
<1>4. answer'[a] = new /\ answer' \in [Autos -> AnswerOf] /\ \A b \in Autos : b # a => answer'[b] = answer[b]
  BY <1>2, <1>3
<1> QED BY <1>1, <1>4

\* A pass that takes an entry answers for its instants up to now, with the fire it begins.
LEMMA TakesAnswers ==
  ASSUME answer \in [Autos -> AnswerOf], NEW a \in Autos, Takes(a)
  PROVE  /\ answer' \in [Autos -> AnswerOf] /\ \A b \in Autos : b # a => answer'[b] = answer[b]
         /\ \A i \in Instants :
              /\ answer'[a][i] # answer[a][i] =>
                   /\ i \in Visited(a).trigger /\ Visited(a).next <= i /\ answer[a][i] = "none"
                   /\ answer'[a][i] = IF fire[a] = NoFire THEN "firing" ELSE "refused"
              /\ /\ i \in Visited(a).trigger /\ Visited(a).next <= i /\ set[a] < i /\ i <= tick.now
                 => answer'[a][i] # "none"
<1> DEFINE takes(i) == /\ answer[a][i] = "none" /\ set[a] < i /\ i <= tick.now
                       /\ i \in Visited(a).trigger /\ Visited(a).next <= i
           new == [i \in Instants |-> IF takes(i) THEN IF fire[a] = NoFire THEN "firing" ELSE "refused"
                                      ELSE answer[a][i]]
<1>1. answer' = [answer EXCEPT ![a] = new]
  BY DEF Takes
<1>2. new \in AnswerOf
  BY DEF AnswerOf, Becoming
<1>3. \A i \in Instants : /\ takes(i) => new[i] = IF fire[a] = NoFire THEN "firing" ELSE "refused"
                          /\ ~takes(i) => new[i] = answer[a][i]
  OBVIOUS
<1> HIDE DEF new
<1>4. answer'[a] = new /\ answer' \in [Autos -> AnswerOf] /\ \A b \in Autos : b # a => answer'[b] = answer[b]
  BY <1>1, <1>2
<1> QED BY <1>3, <1>4

LEMMA FireIs ==
  ASSUME NEW f \in FireOf
  PROVE  /\ f = NoFire <=> f.by = "none"
         /\ f # NoFire => /\ f.by \in {"tick", "hand"} /\ f.due \in Instants /\ f.stale \in BOOLEAN
                          /\ f.pc \in {"asked", "scanning", "clear"}
                          /\ \A p \in {"asked", "scanning", "clear"} :
                               /\ [f EXCEPT !.pc = p] \in FireOf /\ [f EXCEPT !.pc = p] # NoFire
                               /\ [f EXCEPT !.pc = p].pc = p /\ [f EXCEPT !.pc = p].due = f.due
                               /\ [f EXCEPT !.pc = p].by = f.by /\ [f EXCEPT !.pc = p].stale = f.stale
<1>1. CASE f = NoFire
  BY <1>1 DEF NoFire
<1>2. CASE f # NoFire
  <2>1. f \in [by : {"tick", "hand"}, due : Instants, stale : BOOLEAN, pc : {"asked", "scanning", "clear"}]
    BY <1>2 DEF FireOf
  <2>2. f.by # "none"
    BY <2>1
  <2>3. \A p \in {"asked", "scanning", "clear"} :
           /\ [f EXCEPT !.pc = p] \in [by : {"tick", "hand"}, due : Instants, stale : BOOLEAN,
                                       pc : {"asked", "scanning", "clear"}]
           /\ [f EXCEPT !.pc = p].pc = p /\ [f EXCEPT !.pc = p].due = f.due
           /\ [f EXCEPT !.pc = p].by = f.by /\ [f EXCEPT !.pc = p].stale = f.stale
    BY <2>1
  <2>4. \A p \in {"asked", "scanning", "clear"} : [f EXCEPT !.pc = p] # NoFire
    BY <2>2, <2>3 DEF NoFire
  <2> QED BY <1>2, <2>1, <2>2, <2>3, <2>4 DEF FireOf
<1> QED BY <1>1, <1>2

\* The fire of an automation once it is asked for.
LEMMA NewFireIs ==
  ASSUME NEW by \in {"tick", "hand"}, NEW due \in Instants, NEW stale \in BOOLEAN
  PROVE  /\ [by |-> by, due |-> due, stale |-> stale, pc |-> "asked"] \in FireOf
         /\ [by |-> by, due |-> due, stale |-> stale, pc |-> "asked"] # NoFire
BY DEF FireOf, NoFire

LEMMA RunIs ==
  ASSUME NEW x \in RunOf
  PROVE  /\ x = NoRun <=> x.pc = "unused"
         /\ x # NoRun =>
              /\ x.pc \in {"launched", "running", "success", "over", "dead"} /\ x.auto \in Autos
              /\ x.due \in Instants /\ x.born \in Instants /\ x.stale \in BOOLEAN
              /\ \A p \in {"launched", "running", "success", "over", "dead"} :
                   /\ [x EXCEPT !.pc = p] \in RunOf /\ [x EXCEPT !.pc = p].pc = p
                   /\ [x EXCEPT !.pc = p].auto = x.auto /\ [x EXCEPT !.pc = p].due = x.due
                   /\ [x EXCEPT !.pc = p].born = x.born /\ [x EXCEPT !.pc = p].stale = x.stale
<1>1. CASE x = NoRun
  BY <1>1 DEF NoRun
<1>2. CASE x # NoRun
  <2>1. x \in [pc : {"launched", "running", "success", "over", "dead"}, auto : Autos,
               due : Instants, born : Instants, stale : BOOLEAN]
    BY <1>2 DEF RunOf
  <2>2. \A p \in {"launched", "running", "success", "over", "dead"} :
           /\ [x EXCEPT !.pc = p] \in [pc : {"launched", "running", "success", "over", "dead"}, auto : Autos,
                                       due : Instants, born : Instants, stale : BOOLEAN]
           /\ [x EXCEPT !.pc = p].pc = p
           /\ [x EXCEPT !.pc = p].auto = x.auto /\ [x EXCEPT !.pc = p].due = x.due
           /\ [x EXCEPT !.pc = p].born = x.born /\ [x EXCEPT !.pc = p].stale = x.stale
    BY <2>1
  <2>3. x.pc # "unused"
    BY <2>1
  <2> QED BY <1>2, <2>1, <2>2, <2>3 DEF RunOf
<1> QED BY <1>1, <1>2

LEMMA NewRunIs ==
  ASSUME NEW a \in Autos, NEW due \in Instants, NEW born \in Instants, NEW stale \in BOOLEAN
  PROVE  [pc |-> "launched", auto |-> a, due |-> due, born |-> born, stale |-> stale] \in RunOf
BY DEF RunOf

\* A pass is reading the list, at work on a snapshot, or there is none.
LEMMA TickIs ==
  ASSUME NEW t \in TickOf
  PROVE  /\ t = NoTick <=> t.pc = "idle"
         /\ t.pc = "loading" => t.list \in Lists
         /\ t.pc = "working" => t.now \in Instants
         /\ t.pc \in {"idle", "loading", "working"}
<1>1. CASE t = NoTick
  BY <1>1 DEF NoTick
<1>2. CASE t \in [pc : {"loading"}, list : Lists]
  <2>1. t.pc = "loading" /\ t.list \in Lists
    BY <1>2
  <2>2. t # NoTick
    BY <2>1 DEF NoTick
  <2> QED BY <2>1, <2>2
<1>3. CASE t \in [pc : {"working"}, now : Instants]
  <2>1. t.pc = "working" /\ t.now \in Instants
    BY <1>3
  <2>2. t # NoTick
    BY <2>1 DEF NoTick
  <2> QED BY <2>1, <2>2
<1> QED BY <1>1, <1>2, <1>3 DEF TickOf

LEMMA TodoIs ==
  ASSUME NEW t \in TodoOf, t # Unvisited, t # Shared
  PROVE  t \in [at : {"own"}, trigger : Triggers, next : Instants]
BY DEF TodoOf


-----------------------------------------------------------------------------
(* The type invariant                                                      *)

\* Only what is scheduled has an entry, and a pass only shares entries that are.
EntryInv ==
  \A a \in Autos : /\ entry[a] # NoEntry => entry[a].trigger \in Triggers
                   /\ todo[a] = Shared => entry[a] # NoEntry

Typed == Shape /\ EntryInv

LEMMA TypedInit == Init => Typed
<1> SUFFICES ASSUME Init PROVE Typed
  OBVIOUS
<1>1. saved \in Lists /\ asked \in Lists
  BY SchedulerAssumption DEF Init, Lists
<1>2. /\ clock \in Instants /\ bornAt \in Instants /\ entry \in [Autos -> EntryOf]
      /\ since \in [Autos -> Instants] /\ set \in [Autos -> Instants] /\ around \in Nat
      /\ answer \in [Autos -> AnswerOf]
  BY InstantsAre, UnansweredIs DEF Init, EntryOf, NoEntry
<1>3. todo \in [Autos -> TodoOf] /\ fire \in [Autos -> FireOf] /\ run \in [Runs -> RunOf] /\ tick \in TickOf
  BY DEF Init, TodoOf, FireOf, RunOf, TickOf
<1>4. EntryInv
  BY DEF Init, EntryInv, NoEntry, Unvisited, Shared
<1> QED BY <1>1, <1>2, <1>3, <1>4 DEF Init, Typed, Shape

LEMMA EntryForType ==
  ASSUME Shape, NEW list \in Lists, NEW after \in Instants, NEW a \in Autos
  PROVE  /\ EntryFor(a, list[a], after) \in EntryOf
         /\ EntryFor(a, list[a], after).trigger = IF list[a].on THEN list[a].trigger ELSE {}
         /\ EntryFor(a, list[a], after) # NoEntry =>
              list[a].on /\ EntryFor(a, list[a], after).trigger \in Triggers
         /\ list[a].on => EntryFor(a, list[a], after).next
                            = IF entry[a].trigger = list[a].trigger THEN entry[a].next
                              ELSE NextFire(list[a].trigger, after)
         /\ ~list[a].on => EntryFor(a, list[a], after) = NoEntry
<1>1. list[a] \in Listed
  BY DEF Lists, Listed
<1>2. CASE list[a].on
  <2>0. list[a].trigger \in Triggers /\ list[a].trigger \in SUBSET (1 .. Horizon) /\ after \in Nat
    BY <1>1, <1>2, ListedAre, InstantsAre
  <2>1. NextFire(list[a].trigger, after) \in Instants
    BY <2>0, NextFireIs
  <2>2. entry[a].next \in Instants
    BY DEF Shape, EntryOf
  <2>3. EntryFor(a, list[a], after)
          = [trigger |-> list[a].trigger,
             next |-> IF entry[a].trigger = list[a].trigger THEN entry[a].next
                      ELSE NextFire(list[a].trigger, after)]
    BY <1>2 DEF EntryFor, Kept
  <2> QED BY <1>2, <2>0, <2>1, <2>2, <2>3 DEF EntryOf
<1>3. CASE ~ list[a].on
  BY <1>3, InstantsAre DEF EntryFor, NoEntry, EntryOf
<1> QED BY <1>2, <1>3

LEMMA SetEntriesType ==
  ASSUME Typed, NEW list \in Lists, NEW after \in Instants, SetEntries(list, after)
  PROVE  /\ entry' \in [Autos -> EntryOf] /\ EntryInv' /\ todo' \in [Autos -> TodoOf]
         /\ \A a \in Autos : todo'[a] # Shared /\ (todo[a] # Shared => todo'[a] = todo[a])
         /\ \A a \in Autos : todo[a] = Shared => /\ todo'[a].next = entry[a].next /\ todo'[a] # Unvisited
                                                 /\ todo'[a].trigger = entry[a].trigger
<1>1. entry' \in [Autos -> EntryOf]
  BY EntryForType DEF SetEntries, Typed
<1>2. \A a \in Autos : entry'[a] # NoEntry => entry'[a].trigger \in Triggers
  BY EntryForType DEF SetEntries, Typed
<1>3. ASSUME NEW a \in Autos
      PROVE  /\ todo'[a] \in TodoOf /\ todo'[a] # Shared /\ (todo[a] # Shared => todo'[a] = todo[a])
             /\ todo[a] = Shared => /\ todo'[a].next = entry[a].next /\ todo'[a] # Unvisited
                                    /\ todo'[a].trigger = entry[a].trigger
  <2>1. CASE todo[a] = Shared
    <3>1. todo'[a] = Own(entry[a]) /\ entry[a].trigger \in Triggers /\ entry[a].next \in Instants
      BY <2>1 DEF SetEntries, EntryInv, Typed, Shape, EntryOf
    <3> QED BY <2>1, <3>1 DEF Own, Shared, TodoOf, Unvisited
  <2>2. CASE todo[a] # Shared
    BY <2>2 DEF SetEntries, Typed, Shape
  <2> QED BY <2>1, <2>2
<1>4. todo' = [a \in Autos |-> todo'[a]]
  BY DEF SetEntries
<1> QED BY <1>1, <1>2, <1>3, <1>4 DEF EntryInv

LEMMA ClockTyped == ASSUME Typed, Tock PROVE Typed'
<1>1. clock' \in Instants
  BY SchedulerAssumption DEF Tock, Typed, Shape, Instants
<1> QED BY <1>1 DEF Tock, Typed, Shape, EntryInv, procVars, entryVars, tickVars

LEMMA LoadTyped == ASSUME Typed, LoadReads \/ LoadSets PROVE Typed'
<1>1. CASE LoadReads
  <2>1. tick' \in TickOf
    BY <1>1 DEF LoadReads, Typed, Shape, TickOf
  <2> QED BY <1>1, <2>1 DEF LoadReads, Typed, Shape, EntryInv, procVars, entryVars
<1>2. CASE LoadSets
  <2>1. tick.list \in Lists /\ tick' \in TickOf
    BY <1>2, TickIs DEF LoadSets, Typed, Shape, TickOf
  <2>2. SetEntries(tick.list, bornAt) /\ bornAt \in Instants
    BY <1>2 DEF LoadSets, Typed, Shape
  <2>3. /\ entry' \in [Autos -> EntryOf] /\ EntryInv' /\ todo' \in [Autos -> TodoOf]
    BY <2>1, <2>2, SetEntriesType
  <2> QED BY <1>2, <2>1, <2>2, <2>3 DEF LoadSets, Typed, Shape, procVars
<1> QED BY <1>1, <1>2

LEMMA FireBeginsType ==
  ASSUME Shape, NEW a \in Autos, NEW by \in {"tick", "hand"}, NEW due \in Instants,
         NEW stale \in BOOLEAN, FireBegins(a, by, due, stale)
  PROVE  /\ fire' \in [Autos -> FireOf]
         /\ \A b \in Autos : b # a \/ fire[a] # NoFire => fire'[b] = fire[b]
         /\ fire[a] = NoFire => /\ fire'[a] # NoFire /\ fire'[a].pc = "asked" /\ fire'[a].by = by
                                /\ fire'[a].due = due /\ fire'[a].stale = stale
BY NewFireIs DEF FireBegins, Shape

\* The entry a pass visits: the one it shares, or the one an edit took out of the schedule.
LEMMA VisitedIs ==
  ASSUME Typed, NEW a \in Autos, tick.pc = "working", DueIn(a)
  PROVE  /\ tick.now \in Instants /\ Visited(a).next \in Instants
         /\ Visited(a).next # Never /\ Visited(a).next <= tick.now
         /\ todo[a] = Shared => Visited(a) = entry[a] /\ entry[a].trigger \in Triggers
         /\ todo[a] # Shared => /\ todo[a] \in [at : {"own"}, trigger : Triggers, next : Instants]
                                /\ Visited(a) = todo[a]
<1>1. tick.now \in Instants
  BY TickIs DEF Typed, Shape
<1>2. Visited(a).next # Never /\ Visited(a).next <= tick.now /\ todo[a] # Unvisited
  BY DEF DueIn, Due
<1>3. CASE todo[a] = Shared
  BY <1>1, <1>2, <1>3 DEF Visited, Typed, Shape, EntryOf, EntryInv
<1>4. CASE todo[a] # Shared
  <2>1. todo[a] \in [at : {"own"}, trigger : Triggers, next : Instants]
    BY <1>2, <1>4, TodoIs DEF Typed, Shape
  <2> QED BY <1>1, <1>2, <1>4, <2>1 DEF Visited
<1> QED BY <1>3, <1>4

\* A pass that takes an entry advances the one it shares, and only that.
LEMMA TakesIs ==
  ASSUME Typed, NEW a \in Autos, TickTakes(a)
  PROVE  /\ entry' \in [Autos -> EntryOf] /\ since' \in [Autos -> Instants]
         /\ \A b \in Autos : /\ entry'[b].trigger = entry[b].trigger
                             /\ b # a \/ todo[a] # Shared => entry'[b] = entry[b] /\ since'[b] = since[b]
         /\ todo[a] = Shared => /\ entry'[a].next = NextFire(entry[a].trigger, tick.now)
                                /\ since'[a] = tick.now
         /\ todo' \in [Autos -> TodoOf] /\ todo'[a] = Unvisited
         /\ \A b \in Autos : b # a => todo'[b] = todo[b]
         /\ answer' \in [Autos -> AnswerOf]
<1>0. tick.now \in Instants /\ (todo[a] = Shared => entry[a].trigger \in Triggers)
  BY VisitedIs DEF TickTakes
<1>1. todo' \in [Autos -> TodoOf] /\ todo'[a] = Unvisited /\ \A b \in Autos : b # a => todo'[b] = todo[b]
  BY DEF TickTakes, TodoOf, Typed, Shape
<1>a. answer' \in [Autos -> AnswerOf]
  BY TakesAnswers DEF TickTakes, Typed, Shape
<1>2. CASE todo[a] = Shared
  <2>1. NextFire(entry[a].trigger, tick.now) \in Instants
    <3>1. tick.now \in Nat /\ entry[a].trigger \in SUBSET (1 .. Horizon)
      BY <1>0, <1>2, TriggersAre, InstantsAre
    <3> QED BY <3>1, NextFireIs
  <2> DEFINE n == NextFire(entry[a].trigger, tick.now)
  <2>2. entry' = [entry EXCEPT ![a].next = n] /\ since' = [since EXCEPT ![a] = tick.now]
    BY <1>2 DEF TickTakes
  <2>3. n \in Instants
    BY <2>1
  <2> HIDE DEF n
  <2>4. /\ entry' \in [Autos -> EntryOf] /\ since' \in [Autos -> Instants]
        /\ \A b \in Autos : /\ entry'[b].trigger = entry[b].trigger
                            /\ b # a => entry'[b] = entry[b] /\ since'[b] = since[b]
        /\ entry'[a].next = n /\ since'[a] = tick.now
    BY <1>0, <2>2, <2>3 DEF Typed, Shape, EntryOf
  <2> QED BY <1>1, <1>a, <1>2, <2>4 DEF n
<1>3. CASE todo[a] # Shared
  BY <1>1, <1>a, <1>3 DEF TickTakes, Typed, Shape
<1> QED BY <1>2, <1>3

LEMMA TakesTyped == ASSUME Typed, NEW a \in Autos, TickTakes(a) PROVE Typed'
<1>1. fire' \in [Autos -> FireOf]
  <2> DEFINE due == Visited(a).next  stale == todo[a] # Shared
  <2>1. FireBegins(a, "tick", due, stale) /\ due \in Instants /\ stale \in BOOLEAN
    BY VisitedIs DEF TickTakes
  <2> HIDE DEF due, stale
  <2> QED BY <2>1, FireBeginsType DEF Typed
<1>2. EntryInv'
  <2> SUFFICES ASSUME NEW b \in Autos
               PROVE  /\ entry'[b] # NoEntry => entry'[b].trigger \in Triggers
                      /\ todo'[b] = Shared => entry'[b] # NoEntry
    BY DEF EntryInv
  <2>1. CASE b = a /\ todo[a] = Shared
    <3>1. entry'[a].trigger \in Triggers /\ todo'[a] = Unvisited
      BY <2>1, TakesIs, VisitedIs DEF TickTakes
    <3> QED BY <2>1, <3>1 DEF Unvisited, Shared
  <2>2. CASE ~ (b = a /\ todo[a] = Shared)
    BY <2>2, TakesIs DEF EntryInv, Typed, Unvisited, Shared
  <2> QED BY <2>1, <2>2
<1> QED BY <1>1, <1>2, TakesIs DEF TickTakes, Typed, Shape, procVars

LEMMA TickTyped == ASSUME Typed, TickStarts \/ TickEnds PROVE Typed'
<1>1. CASE TickStarts
  <2>1. tick' \in TickOf /\ todo' \in [Autos -> TodoOf]
    BY <1>1 DEF TickStarts, Typed, Shape, TickOf, TodoOf
  <2>2. \A a \in Autos : todo'[a] = Shared => entry[a] # NoEntry
    BY <1>1 DEF TickStarts, Unvisited, Shared
  <2> QED BY <1>1, <2>1, <2>2 DEF TickStarts, Typed, Shape, EntryInv, procVars, entryVars
<1>2. CASE TickEnds
  <2>1. tick' \in TickOf /\ todo' \in [Autos -> TodoOf]
    BY <1>2 DEF TickEnds, TickOf, TodoOf
  <2>2. \A a \in Autos : todo'[a] # Shared
    BY <1>2 DEF TickEnds, Unvisited, Shared
  <2> QED BY <1>2, <2>1, <2>2 DEF TickEnds, Typed, Shape, EntryInv, procVars, entryVars
<1> QED BY <1>1, <1>2


\* What a step of a fire leaves: the fire is over, or asks on.
LEMMA FireStepIs ==
  ASSUME Typed, NEW a \in Autos, FireSteps(a)
  PROVE  /\ fire' \in [Autos -> FireOf] /\ fire[a] # NoFire
         /\ \A b \in Autos : b # a => fire'[b] = fire[b]
         /\ fire'[a] # NoFire => /\ fire'[a].due = fire[a].due /\ fire'[a].stale = fire[a].stale
                                 /\ fire'[a].by = fire[a].by /\ run' = run
         /\ answer' \in [Autos -> AnswerOf] /\ \A b \in Autos : b # a => answer'[b] = answer[b]
         /\ UNCHANGED <<clock, saved, procVars, entryVars, tickVars, edits, asked, around>>
<1>0. fire[a] \in FireOf /\ NoFire \in FireOf
  BY DEF Typed, Shape, FireOf
<1>1. ASSUME NEW why \in Becoming, FireGives(a, why)
      PROVE  /\ fire' \in [Autos -> FireOf] /\ fire'[a] = NoFire /\ \A b \in Autos : b # a => fire'[b] = fire[b]
             /\ answer' \in [Autos -> AnswerOf] /\ \A b \in Autos : b # a => answer'[b] = answer[b]
  BY <1>0, <1>1, AnswersIs DEF FireGives, Typed, Shape
<1>a. "refused" \in Becoming /\ "ran" \in Becoming /\ answer \in [Autos -> AnswerOf]
  BY DEF Becoming, Typed, Shape
<1>2. ASSUME NEW p \in {"asked", "scanning", "clear"}, fire[a] # NoFire, fire' = [fire EXCEPT ![a].pc = p]
      PROVE  /\ fire' \in [Autos -> FireOf] /\ \A b \in Autos : b # a => fire'[b] = fire[b]
             /\ fire'[a].due = fire[a].due /\ fire'[a].stale = fire[a].stale /\ fire'[a].by = fire[a].by
  <2>1. fire' = [fire EXCEPT ![a] = [fire[a] EXCEPT !.pc = p]]
    BY <1>2
  <2>2. [fire[a] EXCEPT !.pc = p] \in FireOf
    BY <1>0, <1>2, FireIs
  <2>3. fire'[a] = [fire[a] EXCEPT !.pc = p]
    BY <2>1 DEF Typed, Shape
  <2> QED BY <1>0, <1>2, <2>1, <2>2, <2>3, FireIs DEF Typed, Shape
<1>3. CASE FireRefused(a)
  BY <1>a, <1>1, <1>3 DEF FireRefused
<1>4. CASE FireLooks(a)
  BY <1>a, <1>1, <1>2, <1>4 DEF FireLooks
<1>5. CASE FireScans(a)
  BY <1>a, <1>1, <1>2, <1>5 DEF FireScans
<1>6. CASE FireLaunches(a)
  BY <1>a, <1>1, <1>6 DEF FireLaunches
<1> QED BY <1>3, <1>4, <1>5, <1>6 DEF FireSteps

\* The run a fire launches is the first unused one; a fire that does not launch leaves the runs.
LEMMA LaunchIs ==
  ASSUME Typed, NEW a \in Autos, FireSteps(a), run' # run
  PROVE  /\ fire[a].pc = "clear" /\ fire'[a] = NoFire
         /\ \E r \in Unused :
              /\ \A q \in Unused : r <= q
              /\ run'[r] = [pc |-> "launched", auto |-> a, due |-> fire[a].due, born |-> bornAt,
                            stale |-> fire[a].stale]
              /\ run'[r] \in RunOf /\ \A q \in Runs : q # r => run'[q] = run[q]
              /\ run' \in [Runs -> RunOf]
<1>1. FireLaunches(a)
  BY DEF FireSteps, FireRefused, FireLooks, FireScans
<1> DEFINE r == CHOOSE x \in Unused : \A q \in Unused : x <= q
           new == [pc |-> "launched", auto |-> a, due |-> fire[a].due, born |-> bornAt, stale |-> fire[a].stale]
<1>2. r \in Unused /\ \A q \in Unused : r <= q
  BY <1>1, FirstUnused DEF FireLaunches
<1>3. run' = [run EXCEPT ![r] = new] /\ fire[a] # NoFire
  BY <1>1 DEF FireLaunches
<1>4. fire[a].due \in Instants /\ fire[a].stale \in BOOLEAN /\ bornAt \in Instants
  BY <1>3, FireIs DEF Typed, Shape
<1>5. new \in RunOf
  BY <1>4, NewRunIs
<1>6. r \in Runs
  BY <1>2 DEF Unused
<1>7. fire[a].pc = "clear" /\ fire'[a] = NoFire
  BY <1>1 DEF FireLaunches, FireGives, Typed, Shape
<1> HIDE DEF r, new
<1>8. run'[r] = new /\ (\A q \in Runs : q # r => run'[q] = run[q]) /\ run' \in [Runs -> RunOf]
  BY <1>3, <1>5, <1>6 DEF Typed, Shape
<1> QED BY <1>2, <1>5, <1>7, <1>8 DEF new

LEMMA FireTyped == ASSUME Typed, NEW a \in Autos, FireSteps(a) \/ RunNow(a) PROVE Typed'
<1>1. CASE FireSteps(a)
  <2>1. run' \in [Runs -> RunOf]
    BY <1>1, LaunchIs DEF Typed, Shape
  <2> QED BY <1>1, <2>1, FireStepIs DEF Typed, Shape, EntryInv, procVars, entryVars, tickVars
<1>2. CASE RunNow(a)
  <2>1. fire' \in [Autos -> FireOf]
    BY <1>2, InstantsAre, FireBeginsType DEF RunNow, Typed
  <2> QED BY <1>2, <2>1 DEF RunNow, Around, Typed, Shape, EntryInv, procVars, entryVars, tickVars
<1> QED BY <1>1, <1>2

RunSteps == RunStamped \/ RunSucceeds \/ RunFails \/ BootResumes

\* A run goes on; it stays the run it was.
LEMMA RunGoesIs ==
  ASSUME Typed, RunSteps
  PROVE  /\ \E r \in Runs, to \in {"running", "success", "over"} :
              /\ \/ run[r].pc = "launched" /\ to = "running"
                 \/ run[r].pc = "running" /\ to # "running"
                 \/ run[r].pc = "dead" /\ to = "running" /\ ~resumed /\ up
              /\ run'[r] = [run[r] EXCEPT !.pc = to] /\ \A q \in Runs : q # r => run'[q] = run[q]
         /\ run' \in [Runs -> RunOf]
         /\ UNCHANGED <<clock, saved, procVars, entryVars, tickVars, fire, edits, asked, answer, around>>
<1>1. ASSUME NEW from \in {"launched", "running", "dead"}, NEW to \in {"running", "success", "over"},
             RunGoes({from}, to)
      PROVE  \E r \in Runs :
               /\ run[r].pc = from /\ run'[r] = [run[r] EXCEPT !.pc = to] /\ \A q \in Runs : q # r => run'[q] = run[q]
               /\ run' \in [Runs -> RunOf]
  <2>1. PICK r \in Runs : run[r].pc = from /\ run' = [run EXCEPT ![r].pc = to]
    BY <1>1 DEF RunGoes
  <2>2. run[r] \in RunOf /\ run[r].pc # "unused"
    BY <2>1 DEF Typed, Shape
  <2>3. [run[r] EXCEPT !.pc = to] \in RunOf
    BY <2>2, RunIs
  <2>4. run' = [run EXCEPT ![r] = [run[r] EXCEPT !.pc = to]]
    BY <2>1
  <2> QED BY <2>1, <2>3, <2>4 DEF Typed, Shape
<1>2. CASE RunStamped
  <2>1. RunGoes({"launched"}, "running")
    BY <1>2 DEF RunStamped
  <2> QED BY <1>1, <1>2, <2>1 DEF RunStamped, RunGoes
<1>3. CASE RunSucceeds
  <2>1. RunGoes({"running"}, "success")
    BY <1>3 DEF RunSucceeds
  <2> QED BY <1>1, <1>3, <2>1 DEF RunSucceeds, RunGoes
<1>4. CASE RunFails
  <2>1. RunGoes({"running"}, "over")
    BY <1>4 DEF RunFails
  <2> QED BY <1>1, <1>4, <2>1 DEF RunFails, RunGoes
<1>5. CASE BootResumes
  <2>1. RunGoes({"dead"}, "running") /\ up /\ ~resumed
    BY <1>5 DEF BootResumes
  <2> QED BY <1>1, <1>5, <2>1 DEF BootResumes, RunGoes
<1> QED BY <1>2, <1>3, <1>4, <1>5 DEF RunSteps

\* The end of the boot's scan: the cut off runs left are of no account.
LEMMA ScanEndsIs ==
  ASSUME Typed, BootScanEnds
  PROVE  /\ run' \in [Runs -> RunOf]
         /\ \A r \in Runs : /\ run[r].pc # "dead" => run'[r] = run[r]
                            /\ run[r].pc = "dead" => run'[r] = [run[r] EXCEPT !.pc = "over"]
         /\ up /\ resumed' = TRUE
         /\ UNCHANGED <<clock, saved, up, bornAt, entryVars, tickVars, fire, edits, asked, answer, around>>
<1>1. ASSUME NEW r \in Runs PROVE run[r].pc = "dead" => [run[r] EXCEPT !.pc = "over"] \in RunOf
  <2>1. run[r] \in RunOf /\ (run[r].pc = "dead" => run[r].pc # "unused")
    BY DEF Typed, Shape
  <2> QED BY <2>1, RunIs
<1>2. run' \in [Runs -> RunOf]
  BY <1>1 DEF BootScanEnds, Typed, Shape
<1> QED BY <1>2 DEF BootScanEnds

\* A crash: a launch that is not stamped is gone, a run that goes is cut off, and the process
\* keeps nothing.
LEMMA CrashIs ==
  ASSUME Typed, Crash
  PROVE  /\ run' \in [Runs -> RunOf]
         /\ \A r \in Runs :
              /\ run[r].pc = "launched" => run'[r] = [run[r] EXCEPT !.pc = "over"]
              /\ run[r].pc = "running" => run'[r] = [run[r] EXCEPT !.pc = "dead"]
              /\ run[r].pc \notin {"launched", "running"} => run'[r] = run[r]
<1>1. ASSUME NEW r \in Runs
      PROVE  /\ run[r].pc = "launched" => [run[r] EXCEPT !.pc = "over"] \in RunOf
             /\ run[r].pc = "running" => [run[r] EXCEPT !.pc = "dead"] \in RunOf
  <2>1. run[r] \in RunOf /\ (run[r].pc \in {"launched", "running"} => run[r].pc # "unused")
    BY DEF Typed, Shape
  <2> QED BY <2>1, RunIs
<1>2. \A r \in Runs :
              /\ run[r].pc = "launched" => run'[r] = [run[r] EXCEPT !.pc = "over"]
              /\ run[r].pc = "running" => run'[r] = [run[r] EXCEPT !.pc = "dead"]
              /\ run[r].pc \notin {"launched", "running"} => run'[r] = run[r]
  BY DEF Crash
<1>3. \A r \in Runs : run'[r] \in RunOf
  BY <1>1, <1>2 DEF Typed, Shape
<1>4. run' = [r \in Runs |-> run'[r]]
  BY DEF Crash
<1> QED BY <1>2, <1>3, <1>4

LEMMA RunTyped == ASSUME Typed, RunSteps \/ BootScanEnds PROVE Typed'
<1>1. CASE RunSteps
  BY <1>1, RunGoesIs DEF Typed, Shape, EntryInv, procVars, entryVars, tickVars
<1>2. CASE BootScanEnds
  BY <1>2, ScanEndsIs DEF Typed, Shape, EntryInv, entryVars, tickVars
<1> QED BY <1>1, <1>2


\* An edit begins with a list that differs from the saved one in its automation alone.
LEMMA EditIs ==
  ASSUME Typed, NEW a \in Autos, Create(a) \/ Update(a) \/ Remove(a)
  PROVE  /\ up /\ edits = {} /\ (loaded \/ Early)
         /\ \E e \in EditOf : /\ edits' = {e} /\ e.of = a /\ ~e.written
                              /\ \A b \in Autos : b # a => e.list[b] = saved[b]
         /\ around' \in Nat
         /\ UNCHANGED <<clock, saved, run, procVars, entryVars, tickVars, fire, asked, answer>>
<1>0. saved[a] \in Listed /\ around \in Nat
  BY DEF Typed, Shape, Lists, Listed
<1>1. ASSUME NEW auto \in Listed, Edit(a, auto)
      PROVE  /\ up /\ edits = {} /\ (loaded \/ Early)
             /\ \E e \in EditOf : /\ edits' = {e} /\ e.of = a /\ ~e.written
                                  /\ \A b \in Autos : b # a => e.list[b] = saved[b]
             /\ around' \in Nat
             /\ UNCHANGED <<clock, saved, run, procVars, entryVars, tickVars, fire, asked, answer>>
  <2> DEFINE e == [of |-> a, list |-> [saved EXCEPT ![a] = auto], written |-> FALSE]
  <2>1. [saved EXCEPT ![a] = auto] \in Lists
    BY <1>1 DEF Typed, Shape, Lists, Listed
  <2>2. e \in EditOf /\ e.of = a /\ ~e.written /\ \A b \in Autos : b # a => e.list[b] = saved[b]
    BY <2>1 DEF EditOf, Typed, Shape, Lists
  <2>3. edits' = edits \cup {e}
    BY <1>1 DEF Edit
  <2> HIDE DEF e
  <2> QED BY <1>0, <1>1, <2>2, <2>3 DEF Edit, Serial, Around
<1>2. CASE Create(a)
  <2>1. PICK t \in Triggers : Edit(a, [on |-> TRUE, trigger |-> t])
    BY <1>2 DEF Create
  <2>2. [on |-> TRUE, trigger |-> t] \in Listed
    BY DEF Listed
  <2> QED BY <1>1, <2>1, <2>2
<1>3. CASE Update(a)
  <2>1. saved[a] \in [on : BOOLEAN, trigger : Triggers]
    BY <1>0, <1>3 DEF Update, There, Listed, Gone
  <2>2. /\ [saved[a] EXCEPT !.on = ~@] \in Listed
        /\ \A t \in Triggers : [saved[a] EXCEPT !.trigger = t] \in Listed
    BY <2>1 DEF Listed
  <2>3. CASE Edit(a, [saved[a] EXCEPT !.on = ~@])
    BY <1>1, <2>2, <2>3
  <2>4. CASE \E t \in Triggers : Edit(a, [saved[a] EXCEPT !.trigger = t])
    BY <1>1, <2>2, <2>4
  <2> QED BY <1>3, <2>3, <2>4 DEF Update
<1>4. CASE Remove(a)
  <2>1. Edit(a, Gone) /\ Gone \in Listed
    BY <1>4 DEF Remove, Listed
  <2> QED BY <1>1, <2>1
<1> QED BY <1>2, <1>3, <1>4

LEMMA EditTyped == ASSUME Typed, NEW a \in Autos, Create(a) \/ Update(a) \/ Remove(a) PROVE Typed'
BY EditIs DEF Typed, Shape, EntryInv, procVars, entryVars, tickVars

LEMMA WrittenIs ==
  ASSUME NEW e \in EditOf
  PROVE  /\ [e EXCEPT !.written = TRUE] \in EditOf /\ [e EXCEPT !.written = TRUE].list = e.list
         /\ [e EXCEPT !.written = TRUE].of = e.of /\ [e EXCEPT !.written = TRUE].written
BY DEF EditOf

LEMMA WriteTyped == ASSUME Typed, NEW e \in edits, EditWrites(e) \/ EditSets(e) PROVE Typed'
<1>0. e \in EditOf /\ e.of \in Autos /\ e.list \in Lists
  BY DEF Typed, Shape, EditOf
<1>1. CASE EditWrites(e)
  <2>1. asked' \in Lists /\ saved' \in Lists
    BY <1>0, <1>1 DEF EditWrites, Typed, Shape, Lists
  <2>2. edits' \subseteq EditOf
    BY <1>0, <1>1, WrittenIs DEF EditWrites, Typed, Shape
  <2> QED BY <1>1, <2>1, <2>2 DEF EditWrites, Typed, Shape, EntryInv, procVars, entryVars, tickVars
<1>2. CASE EditSets(e)
  <2>1. SetEntries(e.list, clock) /\ clock \in Instants /\ edits' \subseteq EditOf
    BY <1>2 DEF EditSets, Typed, Shape
  <2>2. since' \in [Autos -> Instants] /\ set' \in [Autos -> Instants] /\ answer' \in [Autos -> AnswerOf]
    BY <1>2, UnansweredIs DEF EditSets, Typed, Shape
  <2>3. /\ entry' \in [Autos -> EntryOf] /\ EntryInv' /\ todo' \in [Autos -> TodoOf]
    BY <1>0, <2>1, SetEntriesType
  <2> QED BY <1>2, <2>1, <2>2, <2>3 DEF EditSets, Typed, Shape, procVars
<1> QED BY <1>1, <1>2

LEMMA HostTyped == ASSUME Typed, Crash \/ Boot PROVE Typed'
<1>1. CASE Crash
  <2>1. entry' \in [Autos -> EntryOf] /\ EntryInv'
    BY <1>1, InstantsAre DEF Crash, EntryOf, NoEntry, EntryInv, Unvisited, Shared
  <2>2. todo' \in [Autos -> TodoOf] /\ fire' \in [Autos -> FireOf] /\ tick' \in TickOf /\ around' \in Nat
    BY <1>1 DEF Crash, TodoOf, FireOf, TickOf, Around, Typed, Shape
  <2>3. answer' \in [Autos -> AnswerOf]
    BY <1>1, UnansweredIs DEF Crash
  <2> QED BY <1>1, <2>1, <2>2, <2>3, CrashIs DEF Crash, Typed, Shape
<1>2. CASE Boot
  BY <1>2 DEF Boot, Typed, Shape, EntryInv, tickVars
<1> QED BY <1>1, <1>2

\* The steps, by who takes them.
LEMMA Steps ==
  ASSUME Next
  PROVE  \/ Tock \/ LoadReads \/ LoadSets \/ TickStarts \/ TickEnds
         \/ \E a \in Autos : TickTakes(a)
         \/ \E a \in Autos : FireSteps(a)
         \/ \E a \in Autos : RunNow(a)
         \/ \E a \in Autos : Create(a) \/ Update(a) \/ Remove(a)
         \/ \E e \in edits : EditWrites(e)
         \/ \E e \in edits : EditSets(e)
         \/ RunSteps \/ BootScanEnds \/ Crash \/ Boot
BY Zenon DEF Next, TickSteps, EditSteps, RunSteps

LEMMA TypedNext == ASSUME Typed, [Next]_vars PROVE Typed'
<1>1. CASE UNCHANGED vars
  BY <1>1 DEF vars, procVars, entryVars, tickVars, Typed, Shape, EntryInv
<1>2. CASE Next
  BY <1>2, Steps, ClockTyped, LoadTyped, TakesTyped, TickTyped, FireTyped, RunTyped, EditTyped, WriteTyped,
     HostTyped
<1> QED BY <1>1, <1>2

\* Entries, the snapshots of a pass, fires, runs and edits name only instants,
\* triggers and automations there are, across crashes, edits and reloads.
THEOREM SchedulerTypeCorrect == Spec => []TypeOK
<1>1. Typed /\ [Next]_vars => Typed'
  BY TypedNext
<1>2. Typed => TypeOK
  BY ShapeIsType DEF Typed
<1> QED BY <1>1, <1>2, TypedInit, PTL DEF Spec


-----------------------------------------------------------------------------
(* One run of an automation at a time                                      *)

\* No fire begins before the boot's resumes are done, and the runs are no more
\* than a fire looks back over.
Bounded == ~SlowBoot /\ IsFiniteSet(Runs) /\ Cardinality(Runs) <= ScanLimit

\* The process is at work on a fire or a pass.
BootInv ==
  /\ tick # NoTick => up /\ resumed
  /\ \A a \in Autos : fire[a] # NoFire => up /\ resumed
  /\ resumed => \A r \in Runs : run[r].pc # "dead"

\* Ids are given out in order.
OrderInv == \A r \in Unused : \A q \in Runs \ Unused : q < r

\* A run that goes, or that the boot may resume, is the newest of its automation.
ActiveInv ==
  \A r \in Runs : run[r].pc \in {"launched", "running", "dead"} => \A q \in RunsOf(run[r].auto) : q <= r

\* What a fire has looked at stays so until it launches: only it may launch one.
LookInv ==
  \A a \in Autos : fire[a] # NoFire =>
    /\ fire[a].pc = "scanning" => \A r \in RunsOf(a) : run[r].pc # "launched"
    /\ fire[a].pc = "clear" => \A r \in RunsOf(a) : run[r].pc \notin {"launched", "running"}

AloneInv == BootInv /\ OrderInv /\ ActiveInv /\ LookInv

LEMMA AloneInit == Init => AloneInv
BY DEF Init, AloneInv, BootInv, OrderInv, ActiveInv, LookInv, NoRun, Unused, RunsOf

\* A step that leaves the runs and begins no fire leaves all of it.
LEMMA AloneKept ==
  ASSUME AloneInv, run' = run, fire' = fire, up' = up, resumed' = resumed, tick' # NoTick => up /\ resumed
  PROVE  AloneInv'
BY DEF AloneInv, BootInv, OrderInv, ActiveInv, LookInv, Unused, RunsOf

\* A fire that begins has looked at nothing yet.
LEMMA AloneBegins ==
  ASSUME Typed, AloneInv, NEW a \in Autos, NEW by \in {"tick", "hand"}, NEW due \in Instants,
         NEW stale \in BOOLEAN, FireBegins(a, by, due, stale), up, resumed,
         run' = run, up' = up, resumed' = resumed, tick' = tick
  PROVE  AloneInv'
<1>1. \A b \in Autos : /\ b # a \/ fire[a] # NoFire => fire'[b] = fire[b]
                       /\ fire[a] = NoFire => fire'[a].pc = "asked"
  BY FireBeginsType DEF Typed
<1>2. BootInv' /\ OrderInv' /\ ActiveInv'
  BY DEF AloneInv, BootInv, OrderInv, ActiveInv, Unused, RunsOf
<1>3. LookInv'
  BY <1>1 DEF AloneInv, LookInv, RunsOf
<1> QED BY <1>2, <1>3 DEF AloneInv

\* The newest run of an automation is among those a fire scans.
LEMMA ActiveIsScanned ==
  ASSUME Bounded, Typed, ActiveInv, NEW a \in Autos, NEW r \in RunsOf(a), run[r].pc = "running"
  PROVE  r \in Scanned(a)
<1>0. r \in Runs /\ Runs \subseteq Nat /\ ScanLimit \in Nat /\ run[r].auto = a
  BY SchedulerAssumption DEF RunsOf
<1>1. \A q \in RunsOf(a) : q <= r
  BY <1>0 DEF ActiveInv
<1> DEFINE After == {q \in Runs \ Unused : q > r}
<1>2. After \subseteq Runs /\ r \notin After
  BY <1>0
<1>3. After \subseteq Runs \ {r} /\ IsFiniteSet(Runs \ {r}) /\ Cardinality(Runs \ {r}) = Cardinality(Runs) - 1
  BY <1>0, <1>2, FS_RemoveElement DEF Bounded
<1>4. IsFiniteSet(After) /\ Cardinality(After) <= Cardinality(Runs \ {r})
  BY <1>3, FS_Subset
<1>5. Cardinality(Runs) \in Nat /\ Cardinality(After) \in Nat
  BY <1>4, FS_CardinalityType DEF Bounded
<1>6. Cardinality(After) < ScanLimit
  BY <1>0, <1>3, <1>4, <1>5 DEF Bounded
<1>7. \A q \in RunsOf(a) : ~ (q > r)
  BY <1>0, <1>1 DEF RunsOf
<1> QED BY <1>6, <1>7 DEF Scanned

\* A fire that goes on has found what it says.
LEMMA LooksIs ==
  ASSUME Bounded, Typed, AloneInv, NEW a \in Autos, FireSteps(a), run' = run, fire'[a] # NoFire
  PROVE  /\ fire'[a].pc = "scanning" => \A r \in RunsOf(a) : run[r].pc # "launched"
         /\ fire'[a].pc = "clear" => \A r \in RunsOf(a) : run[r].pc \notin {"launched", "running"}
<1>0. fire[a] # NoFire /\ fire[a] \in FireOf
  BY FireStepIs DEF Typed, Shape
<1>1. ASSUME NEW p \in {"scanning", "clear"}, fire' = [fire EXCEPT ![a].pc = p] PROVE fire'[a].pc = p
  <2>1. fire'[a] = [fire[a] EXCEPT !.pc = p]
    BY <1>1 DEF Typed, Shape
  <2> QED BY <1>0, <2>1, FireIs
<1>2. ASSUME NEW why, FireGives(a, why) PROVE FALSE
  BY <1>2 DEF FireGives, Typed, Shape
<1>3. CASE FireRefused(a)
  BY <1>2, <1>3 DEF FireRefused
<1>4. CASE FireLooks(a)
  <2>1. Launched(a) = {} /\ fire'[a].pc = "scanning"
    BY <1>1, <1>2, <1>4 DEF FireLooks
  <2> QED BY <2>1 DEF Launched
<1>5. CASE FireScans(a)
  <2>1. /\ fire[a].pc = "scanning" /\ fire'[a].pc = "clear"
        /\ ~ \E r \in Scanned(a) : run[r].pc = "running"
    BY <1>1, <1>2, <1>5 DEF FireScans
  <2>2. \A r \in RunsOf(a) : run[r].pc # "launched" /\ run[r].pc # "running"
    BY <1>0, <2>1, ActiveIsScanned DEF AloneInv, LookInv
  <2> QED BY <2>1, <2>2
<1>6. CASE FireLaunches(a)
  BY <1>2, <1>6 DEF FireLaunches
<1> QED BY <1>3, <1>4, <1>5, <1>6 DEF FireSteps

LEMMA FireAlone == ASSUME Bounded, Typed, AloneInv, NEW a \in Autos, FireSteps(a) PROVE AloneInv'
<1>0. /\ fire[a] # NoFire /\ up /\ resumed /\ up' = up /\ resumed' = resumed /\ tick' = tick
      /\ \A b \in Autos : b # a => fire'[b] = fire[b]
  BY FireStepIs DEF AloneInv, BootInv, procVars, tickVars
<1>1. CASE run' = run
  <2>1. BootInv' /\ OrderInv' /\ ActiveInv'
    BY <1>0, <1>1 DEF AloneInv, BootInv, OrderInv, ActiveInv, Unused, RunsOf
  <2>2. LookInv'
    BY <1>0, <1>1, LooksIs DEF AloneInv, LookInv, RunsOf
  <2> QED BY <2>1, <2>2 DEF AloneInv
<1>2. CASE run' # run
  <2>1. fire[a].pc = "clear" /\ fire'[a] = NoFire
    BY <1>2, LaunchIs
  <2>2. PICK r \in Unused :
              /\ \A q \in Unused : r <= q
              /\ run'[r] = [pc |-> "launched", auto |-> a, due |-> fire[a].due, born |-> bornAt,
                            stale |-> fire[a].stale]
              /\ \A q \in Runs : q # r => run'[q] = run[q]
    BY <1>2, LaunchIs
  <2>3. run'[r].pc = "launched" /\ run'[r].auto = a /\ r \in Runs /\ Runs \subseteq Nat
    BY <2>2, SchedulerAssumption DEF Unused
  <2>4. Unused' = Unused \ {r}
    BY <2>2, <2>3 DEF Unused
  <2>5. /\ \A b \in Autos : b # a => RunsOf(b)' = RunsOf(b)
        /\ RunsOf(a)' = RunsOf(a) \cup {r} /\ RunsOf(a) \subseteq Runs \ Unused
    BY <2>2, <2>3 DEF RunsOf, Unused
  <2>6. BootInv'
    BY <1>0, <2>1, <2>2, <2>3 DEF AloneInv, BootInv
  <2>7. OrderInv'
    <3>1. \A q \in Unused' : r < q
      BY <2>2, <2>3, <2>4 DEF Unused
    <3>2. (Runs \ Unused)' = (Runs \ Unused) \cup {r}
      BY <2>2, <2>3, <2>4
    <3>3. \A q \in Unused' : q \in Unused
      BY <2>4
    <3> QED BY <3>1, <3>2, <3>3 DEF AloneInv, OrderInv
  <2>8. ActiveInv'
    <3> SUFFICES ASSUME NEW x \in Runs, run'[x].pc \in {"launched", "running", "dead"},
                        NEW q \in Runs, run'[q].pc # "unused", run'[q].auto = run'[x].auto
                 PROVE  q <= x
      BY DEF ActiveInv, RunsOf
    <3>0. q \in Nat /\ x \in Nat
      BY <2>3
    <3>1. CASE x = r
      <4>1. q # r => q \in Runs \ Unused
        BY <2>2 DEF Unused
      <4>2. q # r => q < r
        BY <2>2, <4>1 DEF AloneInv, OrderInv
      <4> QED BY <3>0, <3>1, <4>2
    <3>2. CASE x # r
      <4>1. run'[x] = run[x] /\ x \notin Unused
        BY <2>2, <3>2 DEF Unused
      <4>2. run[x].auto # a
        BY <1>0, <2>1, <4>1 DEF AloneInv, LookInv, BootInv, RunsOf
      <4>3. q # r /\ run'[q] = run[q]
        BY <2>2, <2>3, <4>1, <4>2
      <4>4. q \in RunsOf(run[x].auto)
        BY <4>1, <4>3 DEF RunsOf
      <4> QED BY <4>1, <4>4 DEF AloneInv, ActiveInv
    <3> QED BY <3>1, <3>2
  <2>9. LookInv'
    <3> SUFFICES ASSUME NEW b \in Autos, fire'[b] # NoFire, NEW q \in RunsOf(b)'
                 PROVE  /\ fire'[b].pc = "scanning" => run'[q].pc # "launched"
                        /\ fire'[b].pc = "clear" => run'[q].pc \notin {"launched", "running"}
      BY DEF LookInv
    <3>1. b # a /\ fire'[b] = fire[b] /\ q \in RunsOf(b)
      BY <1>0, <2>1, <2>5
    <3>2. run'[q] = run[q]
      BY <2>2, <3>1 DEF RunsOf, Unused
    <3> QED BY <3>1, <3>2 DEF AloneInv, LookInv
  <2> QED BY <2>6, <2>7, <2>8, <2>9 DEF AloneInv
<1> QED BY <1>1, <1>2

\* Runs that go on, are resumed, cut off or ended are still the runs they were.
LEMMA AloneRuns ==
  ASSUME Typed, AloneInv, tick' # NoTick => up' /\ resumed',
         \A a \in Autos : fire'[a] # NoFire => fire'[a] = fire[a] /\ up' /\ resumed',
         resumed' => \A r \in Runs : run'[r].pc # "dead",
         \A r \in Runs :
           \/ run'[r] = run[r]
           \/ /\ run[r].pc \in {"launched", "running", "dead"} /\ run'[r].pc # "unused" /\ run'[r].auto = run[r].auto
              /\ run'[r].pc # "launched"
              /\ run'[r].pc = "running" => run[r].pc = "launched" \/ \A a \in Autos : fire'[a] = NoFire
  PROVE  AloneInv'
<1>1. BootInv'
  BY DEF BootInv
<1>2. Unused' = Unused /\ \A a : RunsOf(a)' = RunsOf(a)
  BY DEF Unused, RunsOf
<1>3. OrderInv'
  BY <1>2 DEF AloneInv, OrderInv
<1>4. ActiveInv'
  BY <1>2 DEF AloneInv, ActiveInv
<1>5. LookInv'
  <2> SUFFICES ASSUME NEW a \in Autos, fire'[a] # NoFire, NEW r \in RunsOf(a)
               PROVE  /\ fire'[a].pc = "scanning" => run'[r].pc # "launched"
                      /\ fire'[a].pc = "clear" => run'[r].pc \notin {"launched", "running"}
    BY <1>2 DEF LookInv
  <2>1. fire'[a] = fire[a] /\ r \in Runs
    BY DEF RunsOf
  <2>2. CASE run'[r] = run[r]
    BY <2>1, <2>2 DEF AloneInv, LookInv
  <2>3. CASE run'[r] # run[r]
    BY <2>1, <2>3 DEF AloneInv, LookInv
  <2> QED BY <2>2, <2>3
<1> QED BY <1>1, <1>3, <1>4, <1>5 DEF AloneInv

LEMMA AloneNext == ASSUME Bounded, Typed, AloneInv, [Next]_vars PROVE AloneInv'
<1>0. CASE UNCHANGED vars
  BY <1>0, AloneKept DEF vars, procVars, tickVars, AloneInv, BootInv
<1>1. CASE Tock
  BY <1>1, AloneKept DEF Tock, procVars, tickVars, AloneInv, BootInv
<1>2. CASE LoadReads
  BY <1>2, AloneKept DEF LoadReads, procVars, Bounded
<1>3. CASE LoadSets \/ TickEnds
  BY <1>3, AloneKept DEF LoadSets, TickEnds, procVars, entryVars
<1>4. CASE TickStarts
  BY <1>4, AloneKept DEF TickStarts, procVars, Bounded
<1>5. ASSUME NEW a \in Autos, TickTakes(a) PROVE AloneInv'
  <2> DEFINE due == Visited(a).next  stale == todo[a] # Shared
  <2>1. FireBegins(a, "tick", due, stale) /\ due \in Instants /\ stale \in BOOLEAN
    BY <1>5, VisitedIs DEF TickTakes
  <2>2. up /\ resumed
    <3>1. tick # NoTick
      BY <1>5 DEF TickTakes, NoTick
    <3> QED BY <3>1 DEF AloneInv, BootInv
  <2> HIDE DEF due, stale
  <2> QED BY <1>5, <2>1, <2>2, AloneBegins DEF TickTakes, procVars
<1>6. ASSUME NEW a \in Autos, RunNow(a) PROVE AloneInv'
  <2>1. FireBegins(a, "hand", Never, FALSE) /\ up /\ resumed
    BY <1>6 DEF RunNow, Bounded
  <2> QED BY <1>6, <2>1, InstantsAre, AloneBegins DEF RunNow, procVars, tickVars
<1>7. ASSUME NEW a \in Autos, Create(a) \/ Update(a) \/ Remove(a) PROVE AloneInv'
  BY <1>7, EditIs, AloneKept DEF procVars, tickVars, AloneInv, BootInv
<1>8. ASSUME NEW e \in edits, EditWrites(e) \/ EditSets(e) PROVE AloneInv'
  BY <1>8, AloneKept DEF EditWrites, EditSets, procVars, tickVars, AloneInv, BootInv
<1>9. CASE RunSteps
  <2>1. /\ UNCHANGED <<procVars, tickVars, fire>>
        /\ \E r \in Runs, to \in {"running", "success", "over"} :
              /\ \/ run[r].pc = "launched" /\ to = "running"
                 \/ run[r].pc = "running" /\ to # "running"
                 \/ run[r].pc = "dead" /\ to = "running" /\ ~resumed /\ up
              /\ run'[r] = [run[r] EXCEPT !.pc = to] /\ \A q \in Runs : q # r => run'[q] = run[q]
    BY <1>9, RunGoesIs
  <2>2. PICK r \in Runs, to \in {"running", "success", "over"} :
              /\ \/ run[r].pc = "launched" /\ to = "running"
                 \/ run[r].pc = "running" /\ to # "running"
                 \/ run[r].pc = "dead" /\ to = "running" /\ ~resumed /\ up
              /\ run'[r] = [run[r] EXCEPT !.pc = to] /\ \A q \in Runs : q # r => run'[q] = run[q]
    BY <2>1
  <2>3. run'[r].pc = to /\ run'[r].auto = run[r].auto
    BY <2>2, RunIs DEF Typed, Shape
  <2>4. run[r].pc = "dead" => \A a \in Autos : fire[a] = NoFire
    BY <2>2 DEF AloneInv, BootInv
  <2>5. \A q \in Runs :
           \/ run'[q] = run[q]
           \/ /\ run[q].pc \in {"launched", "running", "dead"} /\ run'[q].pc # "unused" /\ run'[q].auto = run[q].auto
              /\ run'[q].pc # "launched"
              /\ run'[q].pc = "running" => run[q].pc = "launched" \/ \A a \in Autos : fire'[a] = NoFire
    BY <2>1, <2>2, <2>3, <2>4
  <2>6. resumed => \A q \in Runs : run'[q].pc # "dead"
    BY <2>2, <2>3 DEF AloneInv, BootInv
  <2> QED BY <2>1, <2>5, <2>6, AloneRuns DEF procVars, tickVars, AloneInv, BootInv
<1>10. CASE BootScanEnds
  <2>1. ASSUME NEW r \in Runs
        PROVE  /\ run'[r].pc # "dead"
               /\ \/ run'[r] = run[r]
                  \/ run[r].pc = "dead" /\ run'[r].pc = "over" /\ run'[r].auto = run[r].auto
    <3>1. CASE run[r].pc = "dead"
      <4>1. run'[r] = [run[r] EXCEPT !.pc = "over"] /\ run[r] \in RunOf /\ run[r].pc # "unused"
        BY <1>10, <3>1, ScanEndsIs DEF Typed, Shape
      <4> QED BY <3>1, <4>1, RunIs
    <3>2. CASE run[r].pc # "dead"
      BY <1>10, <3>2, ScanEndsIs
    <3> QED BY <3>1, <3>2
  <2> QED BY <1>10, <2>1, ScanEndsIs, AloneRuns DEF tickVars, AloneInv, BootInv
<1>11. CASE Crash
  <2>1. ASSUME NEW r \in Runs
        PROVE  \/ run'[r] = run[r]
               \/ /\ run[r].pc \in {"launched", "running"} /\ run'[r].pc \in {"over", "dead"}
                  /\ run'[r].auto = run[r].auto
    <3>1. run[r] \in RunOf
      BY DEF Typed, Shape
    <3>2. CASE run[r].pc = "launched"
      <4>1. run'[r] = [run[r] EXCEPT !.pc = "over"] /\ run[r].pc # "unused"
        BY <1>11, <3>2, CrashIs
      <4> QED BY <3>1, <3>2, <4>1, RunIs
    <3>3. CASE run[r].pc = "running"
      <4>1. run'[r] = [run[r] EXCEPT !.pc = "dead"] /\ run[r].pc # "unused"
        BY <1>11, <3>3, CrashIs
      <4> QED BY <3>1, <3>3, <4>1, RunIs
    <3>4. CASE run[r].pc \notin {"launched", "running"}
      BY <1>11, <3>4, CrashIs
    <3> QED BY <3>2, <3>3, <3>4
  <2>2. tick' = NoTick /\ ~resumed' /\ \A a \in Autos : fire'[a] = NoFire
    BY <1>11 DEF Crash
  <2> QED BY <2>1, <2>2, AloneRuns
<1>12. CASE Boot
  <2>1. tick = NoTick /\ \A a \in Autos : fire[a] = NoFire
    BY <1>12 DEF Boot, AloneInv, BootInv
  <2> QED BY <1>12, <2>1, AloneRuns DEF Boot, tickVars, AloneInv, BootInv
<1>13. CASE Next
  BY <1>1, <1>2, <1>3, <1>4, <1>5, <1>6, <1>7, <1>8, <1>9, <1>10, <1>11, <1>12, <1>13, FireAlone, Steps
<1> QED BY <1>0, <1>13

LEMMA AloneIsEnough == ASSUME Typed, AloneInv PROVE NoOverlap
<1> SUFFICES ASSUME NEW r \in Runs, NEW q \in Runs, Live(r), Live(q), run[r].auto = run[q].auto
             PROVE  r = q
  BY DEF NoOverlap
<1>1. r \in RunsOf(run[q].auto) /\ q \in RunsOf(run[r].auto)
  BY DEF RunsOf, Live
<1>2. r <= q /\ q <= r
  BY <1>1 DEF AloneInv, ActiveInv, Live
<1> QED BY <1>2, SchedulerAssumption

\* The one overlap rule: however ticks, Run now, edits, crashes and resumes interleave, an
\* automation has never two runs going, when no fire begins before the boot's resumes are done
\* and the workflow has no more runs than SCAN_LIMIT.
THEOREM OneRunAtATime == ASSUME Bounded PROVE Spec => []NoOverlap
<1>1. Typed /\ [Next]_vars => Typed'
  BY TypedNext
<1>2. Typed /\ AloneInv /\ [Next]_vars => AloneInv'
  BY AloneNext
<1>3. Typed /\ AloneInv => NoOverlap
  BY AloneIsEnough
<1> QED BY <1>1, <1>2, <1>3, TypedInit, AloneInit, PTL DEF Spec


-----------------------------------------------------------------------------
(* No instant fired twice                                                  *)

\* What the process has of a pass, and when it has nothing.
ProcInv ==
  /\ ~up => /\ ~loaded /\ tick = NoTick /\ edits = {}
            /\ \A a \in Autos : fire[a] = NoFire /\ todo[a] = Unvisited /\ entry[a] = NoEntry
  /\ tick.pc = "loading" => ~loaded
  /\ tick.pc = "working" => loaded /\ bornAt <= tick.now /\ tick.now <= clock

\* An entry is due after the instant since which it owes; the entry an edit took out of the
\* schedule was due in the time of this process.
SinceInv ==
  \A a \in Autos :
    /\ bornAt <= since[a] /\ since[a] <= clock
    /\ up /\ ~loaded => since[a] = bornAt
    /\ entry[a].next # Never => since[a] < entry[a].next
    /\ todo[a] = Shared => tick.pc = "working" /\ since[a] <= tick.now
    /\ todo[a] \notin {Shared, Unvisited} /\ todo[a].next # Never => bornAt < todo[a].next

\* What was fired for is no longer owed, and no run has the instant of a fire.
FireInv ==
  \A a \in Autos : fire[a] # NoFire /\ fire[a].due # Never =>
    /\ bornAt < fire[a].due /\ fire[a].due <= clock
    /\ ~fire[a].stale =>
         /\ fire[a].due <= since[a]
         /\ \A r \in RunsOf(a) : ~run[r].stale => run[r].due # fire[a].due

RunInv ==
  \A r \in Runs \ Unused : run[r].due # Never =>
    /\ run[r].born < run[r].due /\ run[r].due <= clock
    /\ ~run[r].stale =>
         /\ run[r].due <= since[run[r].auto]
         /\ \A q \in Runs \ Unused :
              run[q].auto = run[r].auto /\ run[q].due = run[r].due /\ ~run[q].stale => q = r

OnceInv == ProcInv /\ SinceInv /\ FireInv /\ RunInv

LEMMA OnceInit == Init => OnceInv
<1> SUFFICES ASSUME Init PROVE OnceInv
  OBVIOUS
<1>1. Unused = Runs
  BY DEF Init, Unused, NoRun
<1>2. ProcInv
  BY DEF Init, ProcInv, NoTick
<1>3. SinceInv
  BY DEF Init, SinceInv, NoEntry, Unvisited, Shared
<1>4. FireInv /\ RunInv
  BY <1>1 DEF Init, FireInv, RunInv
<1> QED BY <1>2, <1>3, <1>4 DEF OnceInv

LEMMA Numbers ==
  ASSUME Typed
  PROVE  /\ clock \in Nat /\ bornAt \in Nat /\ \A a \in Autos : since[a] \in Nat /\ entry[a].next \in Nat
         /\ tick.pc = "working" => tick.now \in Nat
         /\ \A a \in Autos : fire[a] # NoFire => fire[a].due \in Nat
         /\ \A r \in Runs \ Unused : run[r].due \in Nat /\ run[r].born \in Nat /\ run[r].auto \in Autos
         /\ \A a \in Autos : todo[a] \notin {Shared, Unvisited} => todo[a].next \in Nat
<1>1. clock \in Nat /\ bornAt \in Nat /\ \A a \in Autos : since[a] \in Nat /\ entry[a].next \in Nat
  BY InstantsAre DEF Typed, Shape, EntryOf
<1>2. tick.pc = "working" => tick.now \in Nat
  BY InstantsAre, TickIs DEF Typed, Shape
<1>3. \A a \in Autos : fire[a] # NoFire => fire[a].due \in Nat
  BY InstantsAre, FireIs DEF Typed, Shape
<1>4. \A r \in Runs \ Unused : run[r].due \in Nat /\ run[r].born \in Nat /\ run[r].auto \in Autos
  <2> SUFFICES ASSUME NEW r \in Runs \ Unused PROVE run[r].due \in Nat /\ run[r].born \in Nat /\ run[r].auto \in Autos
    OBVIOUS
  <2>1. run[r] \in RunOf /\ run[r].pc # "unused"
    BY DEF Typed, Shape, Unused
  <2> QED BY <2>1, InstantsAre, RunIs
<1>5. \A a \in Autos : todo[a] \notin {Shared, Unvisited} => todo[a].next \in Nat
  <2> SUFFICES ASSUME NEW a \in Autos, todo[a] \notin {Shared, Unvisited} PROVE todo[a].next \in Nat
    OBVIOUS
  <2>1. todo[a] \in [at : {"own"}, trigger : Triggers, next : Instants]
    BY TodoIs DEF Typed, Shape
  <2> QED BY <2>1, InstantsAre
<1> QED BY <1>1, <1>2, <1>3, <1>4, <1>5

LEMMA Blanks == NoTick.pc = "idle" /\ NoEntry.next = Never /\ NoEntry.trigger = {} /\ Unvisited # Shared
BY DEF NoTick, NoEntry, Unvisited, Shared

\* The same runs, each still the run it was.
SameRuns ==
  /\ Unused' = Unused
  /\ \A r \in Runs \ Unused : /\ run'[r].auto = run[r].auto /\ run'[r].due = run[r].due
                              /\ run'[r].born = run[r].born /\ run'[r].stale = run[r].stale

LEMMA RunsKept == ASSUME Typed, RunSteps \/ BootScanEnds \/ Crash PROVE SameRuns
<1>1. ASSUME NEW r \in Runs
      PROVE  \/ run'[r] = run[r]
             \/ /\ run[r].pc # "unused"
                /\ \E p \in {"running", "success", "over", "dead"} : run'[r] = [run[r] EXCEPT !.pc = p]
  <2>1. CASE RunSteps
    BY <2>1, RunGoesIs
  <2>2. CASE BootScanEnds
    BY <2>2, ScanEndsIs
  <2>3. CASE Crash
    BY <2>3, CrashIs
  <2> QED BY <2>1, <2>2, <2>3
<1>2. ASSUME NEW r \in Runs
      PROVE  /\ run'[r].pc = "unused" <=> run[r].pc = "unused"
             /\ run[r].pc # "unused" => /\ run'[r].auto = run[r].auto /\ run'[r].due = run[r].due
                                        /\ run'[r].born = run[r].born /\ run'[r].stale = run[r].stale
  <2>1. CASE run'[r] = run[r]
    BY <2>1
  <2>2. CASE run'[r] # run[r]
    <3>1. PICK p \in {"running", "success", "over", "dead"} : run'[r] = [run[r] EXCEPT !.pc = p]
      BY <1>1, <2>2
    <3>a. run[r] \in RunOf /\ run[r].pc # "unused"
      BY <1>1, <2>2 DEF Typed, Shape
    <3>2. run[r] \in RunOf /\ run[r].pc # "unused" /\ run[r] # NoRun
      BY <3>a, RunIs
    <3> DEFINE x == run[r]
    <3>3. x \in RunOf /\ x # NoRun /\ p \in {"launched", "running", "success", "over", "dead"}
      BY <3>2
    <3> HIDE DEF x
    <3>4. /\ [x EXCEPT !.pc = p].pc = p
          /\ [x EXCEPT !.pc = p].auto = x.auto /\ [x EXCEPT !.pc = p].due = x.due
          /\ [x EXCEPT !.pc = p].born = x.born /\ [x EXCEPT !.pc = p].stale = x.stale
      BY <3>3, RunIs
    <3>5. p # "unused"
      OBVIOUS
    <3> QED BY <3>1, <3>2, <3>4, <3>5 DEF x
  <2> QED BY <2>1, <2>2
<1> QED BY <1>2 DEF SameRuns, Unused

\* Time goes on, entries owe later instants, fires end, and runs stay: what was fired stays fired.
LEMMA OnceKept ==
  ASSUME Typed, Typed', OnceInv, SameRuns, clock <= clock', \A a \in Autos : since[a] <= since'[a],
         \A a \in Autos : fire'[a] # NoFire => fire'[a] = fire[a] /\ bornAt' = bornAt
  PROVE  FireInv' /\ RunInv'
<1>1. \A a : RunsOf(a)' = RunsOf(a)
  BY DEF SameRuns, RunsOf, Unused
<1>2. \A a : \A r \in RunsOf(a) : r \in Runs \ Unused
  BY DEF RunsOf, Unused
<1>3. FireInv'
  <2> SUFFICES ASSUME NEW a \in Autos, fire'[a] # NoFire, fire'[a].due # Never
               PROVE  /\ bornAt' < fire'[a].due /\ fire'[a].due <= clock'
                      /\ ~fire'[a].stale =>
                           /\ fire'[a].due <= since'[a]
                           /\ \A r \in RunsOf(a) : ~run'[r].stale => run'[r].due # fire'[a].due
    BY <1>1 DEF FireInv
  <2>1. /\ bornAt < fire[a].due /\ fire[a].due <= clock /\ fire[a] = fire'[a] /\ bornAt' = bornAt
        /\ ~fire[a].stale =>
             /\ fire[a].due <= since[a]
             /\ \A r \in RunsOf(a) : ~run[r].stale => run[r].due # fire[a].due
    BY DEF OnceInv, FireInv
  <2>2. /\ fire[a].due \in Nat /\ clock \in Nat /\ clock' \in Nat /\ since[a] \in Nat /\ since'[a] \in Nat
        /\ bornAt \in Nat
    BY <2>1, Numbers, InstantsAre DEF Typed, Shape
  <2> QED BY <1>2, <2>1, <2>2 DEF SameRuns
<1>4. RunInv'
  <2>0. Unused' = Unused
    BY DEF SameRuns
  <2> SUFFICES ASSUME NEW r \in Runs \ Unused, run'[r].due # Never
               PROVE  /\ run'[r].born < run'[r].due /\ run'[r].due <= clock'
                      /\ ~run'[r].stale =>
                           /\ run'[r].due <= since'[run'[r].auto]
                           /\ \A q \in Runs \ Unused :
                                run'[q].auto = run'[r].auto /\ run'[q].due = run'[r].due /\ ~run'[q].stale => q = r
    BY <2>0 DEF RunInv
  <2>1. /\ run'[r].auto = run[r].auto /\ run'[r].due = run[r].due /\ run'[r].born = run[r].born
        /\ run'[r].stale = run[r].stale
    BY DEF SameRuns
  <2>2. /\ run[r].born < run[r].due /\ run[r].due <= clock
        /\ ~run[r].stale =>
             /\ run[r].due <= since[run[r].auto]
             /\ \A q \in Runs \ Unused :
                  run[q].auto = run[r].auto /\ run[q].due = run[r].due /\ ~run[q].stale => q = r
    BY <2>1 DEF OnceInv, RunInv
  <2>3. /\ run[r].due \in Nat /\ clock \in Nat /\ clock' \in Nat /\ run[r].auto \in Autos
        /\ since[run[r].auto] \in Nat /\ since'[run[r].auto] \in Nat /\ run[r].born \in Nat
    BY Numbers, InstantsAre DEF Typed, Shape
  <2> QED BY <2>1, <2>2, <2>3 DEF SameRuns
<1> QED BY <1>3, <1>4


\* A step that leaves the runs.
LEMMA SameRunsKept == ASSUME run' = run PROVE SameRuns
BY DEF SameRuns, Unused

LEMMA OnceClock == ASSUME Typed, OnceInv, Tock PROVE OnceInv'
<1>0. Typed' /\ SameRuns
  BY ClockTyped, SameRunsKept DEF Tock
<1>1. clock <= clock' /\ clock' \in Nat /\ clock \in Nat
  BY Numbers DEF Tock
<1>2. UNCHANGED <<up, bornAt, resumed, loaded, entry, since, tick, todo, fire, edits>>
  BY DEF Tock, procVars, entryVars, tickVars
<1>3. ProcInv'
  BY <1>1, <1>2, Numbers DEF OnceInv, ProcInv
<1>4. SinceInv'
  <2> SUFFICES ASSUME NEW a \in Autos PROVE since[a] <= clock'
    BY <1>2 DEF OnceInv, SinceInv
  <2>1. since[a] \in Nat /\ since[a] <= clock
    BY Numbers DEF OnceInv, SinceInv
  <2> QED BY <1>1, <2>1
<1>5. FireInv' /\ RunInv'
  <2>1. \A a \in Autos : since[a] <= since'[a]
    BY <1>2, Numbers
  <2> QED BY <1>0, <1>1, <1>2, <2>1, OnceKept
<1> QED BY <1>3, <1>4, <1>5 DEF OnceInv

\* What the entries owe when the list is scheduled after an instant no earlier than each owed since.
LEMMA SetEntriesOwe ==
  ASSUME Typed, OnceInv, NEW list \in Lists, NEW after \in Instants, SetEntries(list, after),
         NEW a \in Autos, entry'[a].next # Never
  PROVE  /\ list[a].on /\ entry'[a].trigger = list[a].trigger
         /\ \/ entry[a].trigger = list[a].trigger /\ entry'[a].next = entry[a].next /\ since[a] < entry[a].next
            \/ entry[a].trigger # list[a].trigger /\ after < entry'[a].next
<1>1. entry'[a] = EntryFor(a, list[a], after)
  BY DEF SetEntries
<1>2. list[a].on
  BY <1>1, EntryForType DEF Typed, NoEntry
<1>3. /\ entry'[a].trigger = list[a].trigger
      /\ entry'[a].next = IF entry[a].trigger = list[a].trigger THEN entry[a].next
                          ELSE NextFire(list[a].trigger, after)
  BY <1>1, <1>2, EntryForType DEF Typed
<1>4. list[a].trigger \in SUBSET (1 .. Horizon) /\ after \in Nat
  <2>1. list[a] \in Listed
    BY DEF Lists, Listed
  <2> QED BY <2>1, ListedAre, InstantsAre
<1>5. CASE entry[a].trigger = list[a].trigger
  BY <1>2, <1>3, <1>5 DEF OnceInv, SinceInv
<1>6. CASE entry[a].trigger # list[a].trigger
  <2>1. entry'[a].next = NextFire(list[a].trigger, after)
    BY <1>3, <1>6
  <2>2. after < entry'[a].next
    BY <1>4, <2>1, NextFireIs
  <2> QED BY <1>2, <1>3, <1>6, <2>2
<1> QED BY <1>5, <1>6

LEMMA OnceLoad == ASSUME Typed, OnceInv, LoadReads \/ LoadSets PROVE OnceInv'
<1>0. Typed' /\ SameRuns /\ UNCHANGED <<clock, up, bornAt, fire>> /\ clock \in Nat
  BY LoadTyped, SameRunsKept, Numbers DEF LoadReads, LoadSets, procVars
<1>1. CASE LoadReads
  <2>1. /\ up /\ ~loaded /\ tick'.pc = "loading" /\ tick.pc # "working"
        /\ UNCHANGED <<loaded, entry, since, todo, edits>>
    BY <1>1 DEF LoadReads, procVars, entryVars, NoTick
  <2>2. ProcInv' /\ SinceInv'
    BY <1>0, <2>1 DEF OnceInv, ProcInv, SinceInv
  <2>3. \A a \in Autos : since[a] <= since'[a]
    BY <2>1, Numbers
  <2> QED BY <1>0, <2>2, <2>3, OnceKept DEF OnceInv
<1>2. CASE LoadSets
  <2>1. /\ up /\ ~loaded /\ loaded' = TRUE /\ tick' = NoTick /\ edits' = edits
        /\ \A a \in Autos : since[a] = bornAt /\ since'[a] = bornAt
    BY <1>2, <1>0 DEF LoadSets, OnceInv, ProcInv, SinceInv, NoTick
  <2>2. SetEntries(tick.list, bornAt) /\ tick.list \in Lists /\ bornAt \in Instants
    BY <1>2, TickIs DEF LoadSets, Typed, Shape
  <2>3. \A a \in Autos : todo'[a] # Shared /\ (todo[a] # Shared => todo'[a] = todo[a]) /\ todo[a] # Shared
    BY <2>1, <2>2, <1>2, SetEntriesType DEF LoadSets, OnceInv, SinceInv
  <2>4. ProcInv'
    BY <1>0, <2>1 DEF ProcInv, NoTick
  <2>5. ASSUME NEW a \in Autos PROVE entry'[a].next # Never => bornAt < entry'[a].next
    BY <2>1, <2>2, SetEntriesOwe
  <2>6. SinceInv'
    BY <1>0, <2>1, <2>3, <2>5 DEF OnceInv, SinceInv
  <2>7. \A a \in Autos : since[a] <= since'[a]
    BY <2>1, Numbers
  <2> QED BY <1>0, <2>4, <2>6, <2>7, OnceKept DEF OnceInv
<1> QED BY <1>1, <1>2

LEMMA OnceTick == ASSUME Typed, OnceInv, TickStarts \/ TickEnds PROVE OnceInv'
<1>0. /\ Typed' /\ SameRuns /\ UNCHANGED <<clock, up, bornAt, fire, loaded, entry, since, edits>> /\ clock \in Nat
      /\ bornAt \in Nat
  BY TickTyped, SameRunsKept, Numbers DEF TickStarts, TickEnds, procVars, entryVars
<1>1. \A a \in Autos : since[a] <= since'[a] /\ since[a] \in Nat
  BY <1>0, Numbers
<1>2. CASE TickStarts
  <2>1. /\ up /\ loaded /\ tick'.pc = "working" /\ tick'.now = clock
        /\ \A a \in Autos : todo'[a] \in {Unvisited, Shared}
        /\ \E a \in Autos : Due(entry[a], clock)
    BY <1>2 DEF TickStarts
  <2>2. bornAt <= clock
    BY <1>0, <1>1, <2>1 DEF OnceInv, SinceInv
  <2>3. ProcInv' /\ SinceInv'
    BY <1>0, <2>1, <2>2 DEF OnceInv, ProcInv, SinceInv
  <2> QED BY <1>0, <1>1, <2>3, OnceKept DEF OnceInv
<1>3. CASE TickEnds
  <2>1. up /\ loaded /\ tick' = NoTick /\ \A a \in Autos : todo'[a] = Unvisited
    BY <1>3 DEF TickEnds, OnceInv, ProcInv, NoTick
  <2>2. ProcInv' /\ SinceInv'
    BY <1>0, <2>1 DEF OnceInv, ProcInv, SinceInv, NoTick, Unvisited, Shared
  <2> QED BY <1>0, <1>1, <2>2, OnceKept DEF OnceInv
<1> QED BY <1>2, <1>3

\* A fire that begins, for an instant no run and no other fire had.
LEMMA OnceBegins ==
  ASSUME Typed, Typed', OnceInv, NEW a \in Autos, NEW by \in {"tick", "hand"}, NEW due \in Instants,
         NEW stale \in BOOLEAN, FireBegins(a, by, due, stale),
         run' = run, clock' = clock, bornAt' = bornAt, \A b \in Autos : since[b] <= since'[b],
         due # Never => /\ bornAt < due /\ due <= clock /\ (~stale => since[a] < due /\ due <= since'[a])
  PROVE  FireInv' /\ RunInv'
<1>0. /\ \A b \in Autos : b # a \/ fire[a] # NoFire => fire'[b] = fire[b]
      /\ fire[a] = NoFire => fire'[a].due = due /\ fire'[a].stale = stale
  BY FireBeginsType DEF Typed
<1> SUFFICES FireInv' /\ RunInv'
  OBVIOUS
<1>1. clock <= clock'
  BY Numbers
<1>2. \A r \in Runs \ Unused : run[r].auto \in Autos /\ run[r].due \in Nat
  BY Numbers
<1>3. RunInv'
  <2> SUFFICES ASSUME NEW r \in Runs \ Unused, run[r].due # Never, ~run[r].stale
               PROVE  run[r].due <= since'[run[r].auto]
    BY DEF OnceInv, RunInv, Unused
  <2>1. run[r].due <= since[run[r].auto] /\ since[run[r].auto] <= since'[run[r].auto]
    BY <1>2 DEF OnceInv, RunInv
  <2>2. since[run[r].auto] \in Nat /\ since'[run[r].auto] \in Nat
    BY <1>2, InstantsAre DEF Typed, Shape
  <2> QED BY <1>2, <2>1, <2>2
<1>4. FireInv'
  <2> SUFFICES ASSUME NEW b \in Autos, fire'[b] # NoFire, fire'[b].due # Never
               PROVE  /\ bornAt < fire'[b].due /\ fire'[b].due <= clock
                      /\ ~fire'[b].stale =>
                           /\ fire'[b].due <= since'[b]
                           /\ \A r \in RunsOf(b) : ~run[r].stale => run[r].due # fire'[b].due
    BY DEF FireInv, RunsOf
  <2>1. CASE b = a /\ fire[a] = NoFire
    <3>1. due # Never /\ fire'[b].due = due /\ fire'[b].stale = stale
      BY <1>0, <2>1
    <3>2. ASSUME ~stale, NEW r \in RunsOf(a), ~run[r].stale PROVE run[r].due # due
      <4>1. r \in Runs \ Unused /\ run[r].auto = a
        BY <3>2 DEF RunsOf, Unused
      <4>2. run[r].due # Never => run[r].due <= since[a]
        BY <3>2, <4>1 DEF OnceInv, RunInv
      <4>3. since[a] < due /\ run[r].due \in Nat /\ since[a] \in Nat /\ due \in Nat
        BY <1>2, <3>1, <3>2, <4>1, Numbers, InstantsAre
      <4> QED BY <3>1, <4>2, <4>3
    <3> QED BY <2>1, <3>1, <3>2
  <2>2. CASE ~ (b = a /\ fire[a] = NoFire)
    <3>1. fire'[b] = fire[b]
      BY <1>0, <2>2
    <3>2. /\ bornAt < fire[b].due /\ fire[b].due <= clock
          /\ ~fire[b].stale =>
               /\ fire[b].due <= since[b]
               /\ \A r \in RunsOf(b) : ~run[r].stale => run[r].due # fire[b].due
      BY <3>1 DEF OnceInv, FireInv
    <3>3. fire[b].due \in Nat /\ since[b] \in Nat /\ since'[b] \in Nat
      BY <3>1, Numbers, InstantsAre DEF Typed, Shape
    <3> QED BY <3>1, <3>2, <3>3
  <2> QED BY <2>1, <2>2
<1> QED BY <1>3, <1>4

LEMMA OnceTakes == ASSUME Typed, OnceInv, NEW a \in Autos, TickTakes(a) PROVE OnceInv'
<1> DEFINE due == Visited(a).next  stale == todo[a] # Shared
<1>0. Typed' /\ UNCHANGED <<clock, run, up, bornAt, loaded, tick, edits>>
  BY TakesTyped DEF TickTakes, procVars
<1>1. tick.pc = "working" /\ up /\ loaded /\ bornAt <= tick.now /\ tick.now <= clock
  BY DEF TickTakes, OnceInv, ProcInv, NoTick
<1>2. /\ tick.now \in Nat /\ due \in Instants /\ due \in Nat /\ due # Never /\ due <= tick.now
      /\ todo[a] # Unvisited /\ bornAt \in Nat /\ clock \in Nat /\ since[a] \in Nat
  BY <1>1, VisitedIs, Numbers, InstantsAre DEF TickTakes, DueIn
<1>3. todo[a] = Shared => /\ since[a] < due /\ since[a] <= tick.now /\ since'[a] = tick.now
                          /\ bornAt <= since[a]
  <2> SUFFICES ASSUME todo[a] = Shared
               PROVE  /\ since[a] < due /\ since[a] <= tick.now /\ since'[a] = tick.now /\ bornAt <= since[a]
    OBVIOUS
  <2>1. Visited(a) = entry[a] /\ since'[a] = tick.now
    BY <1>1, TakesIs, VisitedIs DEF TickTakes
  <2>2. entry[a].next # Never
    BY <1>2, <2>1
  <2>3. since[a] < entry[a].next /\ since[a] <= tick.now /\ bornAt <= since[a]
    BY <2>2 DEF OnceInv, SinceInv
  <2> QED BY <2>1, <2>3
<1>4. todo[a] # Shared => bornAt < due /\ since'[a] = since[a]
  <2> SUFFICES ASSUME todo[a] # Shared PROVE bornAt < due /\ since'[a] = since[a]
    OBVIOUS
  <2>1. Visited(a) = todo[a] /\ since'[a] = since[a]
    BY <1>1, TakesIs, VisitedIs DEF TickTakes
  <2>2. todo[a].next # Never
    BY <1>2, <2>1
  <2>3. bornAt < todo[a].next
    BY <1>2, <2>2 DEF OnceInv, SinceInv
  <2> QED BY <2>1, <2>3
<1>5. \A b \in Autos : b # a => since'[b] = since[b]
  BY TakesIs
<1>6. \A b \in Autos : since[b] <= since'[b]
  <2> SUFFICES ASSUME NEW b \in Autos PROVE since[b] <= since'[b]
    OBVIOUS
  <2>1. since[b] \in Nat
    BY Numbers
  <2> QED BY <1>2, <1>3, <1>4, <1>5, <2>1
<1>7. FireInv' /\ RunInv'
  <2>1. FireBegins(a, "tick", due, stale) /\ stale \in BOOLEAN
    BY DEF TickTakes
  <2>2. bornAt < due /\ due <= clock /\ (~stale => since[a] < due /\ due <= since'[a])
    BY <1>1, <1>2, <1>3, <1>4
  <2> HIDE DEF due, stale
  <2> QED BY <1>0, <1>2, <1>6, <2>1, <2>2, OnceBegins
<1>8. ProcInv'
  BY <1>0, <1>1 DEF OnceInv, ProcInv, NoTick
<1>9. SinceInv'
  <2> SUFFICES ASSUME NEW b \in Autos
               PROVE  /\ bornAt <= since'[b] /\ since'[b] <= clock
                      /\ entry'[b].next # Never => since'[b] < entry'[b].next
                      /\ todo'[b] = Shared => since'[b] <= tick.now
                      /\ todo'[b] \notin {Shared, Unvisited} /\ todo'[b].next # Never => bornAt < todo'[b].next
    BY <1>0, <1>1 DEF SinceInv
  <2>1. CASE b = a /\ todo[a] = Shared
    <3>1. entry[a].trigger \in Triggers /\ entry'[a].next = NextFire(entry[a].trigger, tick.now) /\ todo'[a] = Unvisited
      BY <1>1, <2>1, TakesIs, VisitedIs DEF TickTakes
    <3>2. entry[a].trigger \in SUBSET (1 .. Horizon)
      BY <3>1, TriggersAre
    <3>3. entry'[a].next # Never => tick.now < entry'[a].next
      BY <1>2, <3>1, <3>2, NextFireIs
    <3> QED BY <1>1, <1>2, <1>3, <2>1, <3>1, <3>3 DEF Unvisited, Shared
  <2>2. CASE ~ (b = a /\ todo[a] = Shared)
    <3>1. /\ entry'[b] = entry[b] /\ since'[b] = since[b] /\ (todo'[b] = todo[b] \/ todo'[b] = Unvisited)
      BY <2>2, TakesIs
    <3> QED BY <3>1 DEF OnceInv, SinceInv, Unvisited, Shared
  <2> QED BY <2>1, <2>2
<1> QED BY <1>7, <1>8, <1>9 DEF OnceInv


LEMMA OnceRunNow == ASSUME Typed, OnceInv, NEW a \in Autos, RunNow(a) PROVE OnceInv'
<1>0. /\ Typed' /\ UNCHANGED <<clock, run, up, bornAt, loaded, tick, edits, entry, since, todo>> /\ up
      /\ FireBegins(a, "hand", Never, FALSE) /\ Never \in Instants
  BY FireTyped, InstantsAre DEF RunNow, procVars, entryVars, tickVars
<1>1. \A b \in Autos : since[b] <= since'[b]
  BY <1>0, Numbers
<1>2. FireInv' /\ RunInv'
  BY <1>0, <1>1, OnceBegins
<1>3. ProcInv' /\ SinceInv'
  BY <1>0 DEF OnceInv, ProcInv, SinceInv
<1> QED BY <1>2, <1>3 DEF OnceInv

LEMMA OnceFire == ASSUME Typed, OnceInv, NEW a \in Autos, FireSteps(a) PROVE OnceInv'
<1>0. /\ Typed' /\ UNCHANGED <<clock, up, bornAt, loaded, tick, edits, entry, since, todo>> /\ fire[a] # NoFire
      /\ \A b \in Autos : b # a => fire'[b] = fire[b]
      /\ fire'[a] # NoFire => fire'[a].due = fire[a].due /\ fire'[a].stale = fire[a].stale /\ run' = run
  BY FireTyped, FireStepIs DEF procVars, entryVars, tickVars
<1>1. ProcInv' /\ SinceInv'
  BY <1>0 DEF OnceInv, ProcInv, SinceInv
<1>2. CASE run' = run
  BY <1>0, <1>1, <1>2 DEF OnceInv, FireInv, RunInv, RunsOf, Unused
<1>3. CASE run' # run
  <2>1. PICK r \in Unused :
              /\ run'[r] = [pc |-> "launched", auto |-> a, due |-> fire[a].due, born |-> bornAt,
                            stale |-> fire[a].stale]
              /\ \A q \in Runs : q # r => run'[q] = run[q]
    BY <1>3, LaunchIs
  <2>2. /\ run'[r].pc = "launched" /\ run'[r].auto = a /\ run'[r].due = fire[a].due /\ run'[r].born = bornAt
        /\ run'[r].stale = fire[a].stale /\ r \in Runs
    BY <2>1 DEF Unused
  <2>3. Unused' = Unused \ {r}
    BY <2>1, <2>2 DEF Unused
  <2>4. fire'[a] = NoFire
    BY <1>0, <1>3
  <2>5. FireInv'
    <3> SUFFICES ASSUME NEW b \in Autos, b # a, fire[b] # NoFire, fire[b].due # Never
                 PROVE  /\ bornAt < fire[b].due /\ fire[b].due <= clock
                        /\ ~fire[b].stale =>
                             /\ fire[b].due <= since[b]
                             /\ \A q \in RunsOf(b)' : ~run'[q].stale => run'[q].due # fire[b].due
      BY <1>0, <2>4 DEF FireInv
    <3>1. ASSUME NEW q \in RunsOf(b)' PROVE q \in RunsOf(b) /\ run'[q] = run[q]
      BY <2>1, <2>2, <3>1 DEF RunsOf
    <3> QED BY <3>1 DEF OnceInv, FireInv
  <2>6. RunInv'
    <3> SUFFICES ASSUME NEW x \in Runs, x \notin Unused', run'[x].due # Never
                 PROVE  /\ run'[x].born < run'[x].due /\ run'[x].due <= clock
                        /\ ~run'[x].stale =>
                             /\ run'[x].due <= since[run'[x].auto]
                             /\ \A q \in Runs \ Unused' :
                                  run'[q].auto = run'[x].auto /\ run'[q].due = run'[x].due /\ ~run'[q].stale => q = x
      BY <1>0 DEF RunInv
    <3>0. /\ fire[a].due # Never =>
               /\ bornAt < fire[a].due /\ fire[a].due <= clock
               /\ ~fire[a].stale =>
                    /\ fire[a].due <= since[a]
                    /\ \A q \in RunsOf(a) : ~run[q].stale => run[q].due # fire[a].due
      BY <1>0 DEF OnceInv, FireInv
    <3>1. \A q \in Runs \ Unused' : q = r \/ (q \in Runs \ Unused /\ run'[q] = run[q])
      BY <2>1, <2>3
    <3>2. \A q \in Runs \ Unused : run[q].auto = a => q \in RunsOf(a)
      BY DEF RunsOf, Unused
    <3>3. CASE x = r
      <4>1. fire[a].due # Never /\ ~run'[x].stale = ~fire[a].stale
        BY <2>2, <3>3
      <4>2. ASSUME ~run'[x].stale, NEW q \in Runs \ Unused', run'[q].auto = run'[x].auto,
                   run'[q].due = run'[x].due, ~run'[q].stale
            PROVE  q = x
        BY <2>2, <3>0, <3>1, <3>2, <3>3, <4>1, <4>2
      <4> QED BY <2>2, <3>0, <3>3, <4>1, <4>2
    <3>4. CASE x # r
      <4>1. x \in Runs \ Unused /\ run'[x] = run[x]
        BY <3>1, <3>4
      <4>2. /\ run[x].born < run[x].due /\ run[x].due <= clock
            /\ ~run[x].stale =>
                 /\ run[x].due <= since[run[x].auto]
                 /\ \A q \in Runs \ Unused :
                      run[q].auto = run[x].auto /\ run[q].due = run[x].due /\ ~run[q].stale => q = x
        BY <4>1 DEF OnceInv, RunInv
      <4>3. ASSUME ~run'[x].stale, NEW q \in Runs \ Unused', run'[q].auto = run'[x].auto,
                   run'[q].due = run'[x].due, ~run'[q].stale
            PROVE  q = x
        <5>1. CASE q = r
          <6>1. /\ run[x].auto = a /\ run[x].due = fire[a].due /\ ~fire[a].stale /\ ~run[x].stale /\ fire[a].due # Never
            BY <2>2, <4>1, <4>3, <5>1
          <6> QED BY <3>0, <3>2, <4>1, <6>1
        <5>2. CASE q # r
          BY <3>1, <4>1, <4>2, <4>3, <5>2
        <5> QED BY <5>1, <5>2
      <4> QED BY <4>1, <4>2, <4>3
    <3> QED BY <3>3, <3>4
  <2> QED BY <1>1, <2>5, <2>6 DEF OnceInv
<1> QED BY <1>2, <1>3

LEMMA OnceEdit == ASSUME Typed, OnceInv, NEW a \in Autos, Create(a) \/ Update(a) \/ Remove(a) PROVE OnceInv'
<1>0. /\ Typed' /\ UNCHANGED <<clock, run, up, bornAt, loaded, tick, entry, since, todo, fire>> /\ up /\ SameRuns
  BY EditTyped, EditIs, SameRunsKept DEF procVars, entryVars, tickVars
<1> QED BY <1>0 DEF OnceInv, ProcInv, SinceInv, FireInv, RunInv, RunsOf, Unused

LEMMA OnceWrite == ASSUME Typed, OnceInv, NEW e \in edits, EditWrites(e) \/ EditSets(e) PROVE OnceInv'
<1>0. /\ Typed' /\ UNCHANGED <<clock, run, up, bornAt, loaded, tick, fire>> /\ up /\ SameRuns
      /\ e.list \in Lists /\ clock \in Instants /\ clock \in Nat /\ bornAt \in Nat
  BY WriteTyped, SameRunsKept, Numbers
  DEF EditWrites, EditSets, procVars, entryVars, tickVars, OnceInv, ProcInv, Typed, Shape, EditOf
<1>1. CASE EditWrites(e)
  BY <1>0, <1>1 DEF EditWrites, entryVars, tickVars, OnceInv, ProcInv, SinceInv, FireInv, RunInv, RunsOf, Unused
<1>2. CASE EditSets(e)
  <2>1. SetEntries(e.list, clock)
    BY <1>2 DEF EditSets
  <2>2. ProcInv'
    BY <1>0 DEF OnceInv, ProcInv
  <2>3. ASSUME NEW a \in Autos
        PROVE  /\ since'[a] = IF entry[a].trigger = e.list[a].trigger \/ ~loaded THEN since[a] ELSE clock
               /\ since[a] \in Nat /\ since[a] <= clock /\ bornAt <= since[a] /\ since[a] <= since'[a]
    BY <1>0, <1>2, Numbers DEF EditSets, OnceInv, SinceInv
  <2>4. SinceInv'
    <3> SUFFICES ASSUME NEW a \in Autos
                 PROVE  /\ bornAt <= since'[a] /\ since'[a] <= clock
                        /\ ~loaded => since'[a] = bornAt
                        /\ entry'[a].next # Never => since'[a] < entry'[a].next
                        /\ todo'[a] # Shared
                        /\ todo'[a] # Unvisited /\ todo'[a].next # Never => bornAt < todo'[a].next
      BY <1>0 DEF SinceInv
    <3>1. bornAt <= since'[a] /\ since'[a] <= clock /\ (~loaded => since'[a] = bornAt)
      BY <1>0, <2>3 DEF OnceInv, SinceInv
    <3>2. ASSUME entry'[a].next # Never PROVE since'[a] < entry'[a].next
      <4>1. entry'[a].next \in Nat
        BY <1>0, Numbers, InstantsAre DEF Typed, Shape, EntryOf
      <4>2. \/ entry[a].trigger = e.list[a].trigger /\ entry'[a].next = entry[a].next /\ since[a] < entry[a].next
            \/ entry[a].trigger # e.list[a].trigger /\ clock < entry'[a].next
        BY <1>0, <2>1, <3>2, SetEntriesOwe
      <4> QED BY <1>0, <2>3, <4>1, <4>2
    <3>3. todo'[a] # Shared /\ (todo[a] # Shared => todo'[a] = todo[a])
      BY <1>0, <2>1, SetEntriesType
    <3>4. ASSUME todo[a] = Shared, todo'[a].next # Never PROVE bornAt < todo'[a].next
      <4>1. todo'[a].next = entry[a].next /\ entry[a].next \in Nat
        BY <1>0, <2>1, <3>4, SetEntriesType, Numbers
      <4>2. since[a] < entry[a].next
        BY <3>4, <4>1 DEF OnceInv, SinceInv
      <4> QED BY <1>0, <2>3, <4>1, <4>2
    <3>5. ASSUME todo[a] # Shared, todo[a] # Unvisited, todo[a].next # Never PROVE bornAt < todo[a].next
      BY <3>5 DEF OnceInv, SinceInv
    <3> QED BY <3>1, <3>2, <3>3, <3>4, <3>5
  <2>5. FireInv' /\ RunInv'
    BY <1>0, <2>3, OnceKept
  <2> QED BY <2>2, <2>4, <2>5 DEF OnceInv
<1> QED BY <1>1, <1>2

LEMMA OnceRuns == ASSUME Typed, OnceInv, RunSteps \/ BootScanEnds PROVE OnceInv'
<1>0. /\ Typed' /\ SameRuns /\ UNCHANGED <<clock, up, bornAt, loaded, tick, entry, since, todo, fire, edits>>
  BY RunTyped, RunsKept, RunGoesIs, ScanEndsIs DEF procVars, entryVars, tickVars
<1>1. ProcInv' /\ SinceInv'
  BY <1>0 DEF OnceInv, ProcInv, SinceInv
<1>2. clock <= clock' /\ \A a \in Autos : since[a] <= since'[a]
  BY <1>0, Numbers
<1> QED BY <1>0, <1>1, <1>2, OnceKept DEF OnceInv

LEMMA OnceHost == ASSUME Typed, OnceInv, Crash \/ Boot PROVE OnceInv'
<1>0. Typed' /\ clock' = clock /\ clock \in Nat /\ \A a \in Autos : since[a] \in Nat /\ bornAt \in Nat
  BY HostTyped, Numbers DEF Crash, Boot
<1>1. CASE Crash
  <2>1. /\ ~up' /\ ~loaded' /\ tick' = NoTick /\ edits' = {} /\ bornAt' = bornAt /\ since' = since
        /\ \A a \in Autos : fire'[a] = NoFire /\ todo'[a] = Unvisited /\ entry'[a] = NoEntry
    BY <1>1 DEF Crash
  <2>2. ProcInv' /\ SinceInv'
    <3>1. /\ tick'.pc = "idle"
          /\ \A a \in Autos : entry'[a] = NoEntry /\ entry'[a].next = Never /\ todo'[a] = Unvisited /\ Unvisited # Shared
      BY <2>1, Blanks
    <3> QED BY <1>0, <2>1, <3>1 DEF OnceInv, ProcInv, SinceInv
  <2>3. clock <= clock' /\ \A a \in Autos : since[a] <= since'[a]
    BY <1>0, <2>1
  <2>4. SameRuns
    BY <1>1, RunsKept
  <2> QED BY <1>0, <2>1, <2>2, <2>3, <2>4, OnceKept DEF OnceInv
<1>2. CASE Boot
  <2>1. /\ up' /\ ~loaded /\ tick = NoTick /\ edits = {} /\ bornAt' = clock
        /\ UNCHANGED <<loaded, tick, edits, fire, todo, entry>>
        /\ \A a \in Autos : fire[a] = NoFire /\ todo[a] = Unvisited /\ entry[a] = NoEntry /\ since'[a] = clock
    BY <1>2 DEF Boot, OnceInv, ProcInv, tickVars
  <2>2. ProcInv' /\ SinceInv'
    <3>1. /\ tick'.pc = "idle" /\ ~loaded'
          /\ \A a \in Autos : /\ entry'[a].next = Never /\ todo'[a] = Unvisited /\ Unvisited # Shared
                             /\ since'[a] = clock
      BY <2>1 DEF NoTick, NoEntry, Unvisited, Shared
    <3> QED BY <1>0, <2>1, <3>1 DEF ProcInv, SinceInv
  <2>3. clock <= clock' /\ \A a \in Autos : since[a] <= since'[a]
    BY <1>0, <2>1 DEF OnceInv, SinceInv
  <2>4. SameRuns
    BY <1>2, SameRunsKept DEF Boot
  <2> QED BY <1>0, <2>1, <2>2, <2>3, <2>4, OnceKept DEF OnceInv
<1> QED BY <1>1, <1>2


LEMMA OnceNext == ASSUME Typed, OnceInv, [Next]_vars PROVE OnceInv'
<1>1. CASE UNCHANGED vars
  BY <1>1 DEF vars, procVars, entryVars, tickVars, OnceInv, ProcInv, SinceInv, FireInv, RunInv, RunsOf, Unused
<1>2. CASE Next
  BY <1>2, Steps, OnceClock, OnceLoad, OnceTick, OnceTakes, OnceRunNow, OnceFire, OnceEdit, OnceWrite,
     OnceRuns, OnceHost
<1> QED BY <1>1, <1>2

LEMMA OnceIsEnough == ASSUME Typed, OnceInv PROVE FiredOnce
<1> SUFFICES ASSUME NEW r \in Runs \ Unused, run[r].due # Never
             PROVE  /\ run[r].born < run[r].due /\ run[r].due <= clock
                    /\ \A q \in Runs \ Unused :
                         /\ run[q].auto = run[r].auto /\ run[q].due = run[r].due
                         /\ ~run[q].stale /\ ~run[r].stale
                         => q = r
  BY DEF FiredOnce
<1> QED BY DEF OnceInv, RunInv

\* tick fires what is due, once: a run is launched for an instant of its trigger that came while its
\* process was up, and no other run is, however ticks, fires by hand, edits, crashes and reloads
\* interleave; a pass that visits an entry an edit has replaced is the exception the model tells.
THEOREM FiresOnce == Spec => []FiredOnce
<1>1. Typed /\ [Next]_vars => Typed'
  BY TypedNext
<1>2. Typed /\ OnceInv /\ [Next]_vars => OnceInv'
  BY OnceNext
<1>3. Typed /\ OnceInv => FiredOnce
  BY OnceIsEnough
<1> QED BY <1>1, <1>2, <1>3, TypedInit, OnceInit, PTL DEF Spec


-----------------------------------------------------------------------------
(* No instant swallowed, no edit lost                                      *)

\* Every entry is due at the first instant it owes.
OwesInv ==
  /\ ~loaded => edits = {} /\ \A a \in Autos : entry[a] = NoEntry
  /\ loaded => \A a \in Autos : entry[a].trigger # {} => entry[a].next = NextFire(entry[a].trigger, since[a])

\* An edit at work has the list as it is but for its own automation, and there is one at most.
SerialInv ==
  /\ saved = asked
  /\ tick.pc = "loading" => tick.list = saved
  /\ \A e, f \in edits : e = f
  /\ \A e \in edits : /\ ~e.written => \A b \in Autos : b # e.of => e.list[b] = saved[b]
                      /\ e.written => e.list = saved
  /\ loaded /\ (\A e \in edits : ~e.written) =>
       \A a \in Autos : entry[a].trigger = IF saved[a].on THEN saved[a].trigger ELSE {}

ListInv == OwesInv /\ SerialInv

LEMMA ListInit == Init => ListInv
BY Blanks DEF Init, ListInv, OwesInv, SerialInv

\* A step that leaves the list, its edits and the entries.
LEMMA ListKept ==
  ASSUME ListInv, UNCHANGED <<saved, asked, edits, loaded, entry, since>>, tick' = tick \/ tick'.pc # "loading"
  PROVE  ListInv'
BY DEF ListInv, OwesInv, SerialInv

\* The entries once a list is scheduled: those of the automations that are on.
LEMMA SetEntriesFollow ==
  ASSUME Typed, NEW list \in Lists, NEW after \in Instants, SetEntries(list, after), NEW a \in Autos
  PROVE  /\ entry'[a].trigger = IF list[a].on THEN list[a].trigger ELSE {}
         /\ entry'[a].trigger # {} =>
              entry'[a].next = IF entry[a].trigger = list[a].trigger THEN entry[a].next
                               ELSE NextFire(list[a].trigger, after)
<1>1. entry'[a] = EntryFor(a, list[a], after)
  BY DEF SetEntries
<1>2. list[a].on \in BOOLEAN
  <2>1. list[a] \in Listed
    BY DEF Lists, Listed
  <2> QED BY <2>1, ListedAre
<1> QED BY <1>1, <1>2, EntryForType DEF Typed

LEMMA ListLoad == ASSUME ~Early, Typed, ProcInv, ListInv, LoadReads \/ LoadSets PROVE ListInv'
<1>1. CASE LoadReads
  <2>1. /\ tick' = [pc |-> "loading", list |-> saved]
        /\ UNCHANGED <<saved, asked, edits, loaded, entry, since>>
    BY <1>1 DEF LoadReads, entryVars
  <2>2. tick'.list = saved
    BY <2>1
  <2> QED BY <2>1, <2>2 DEF ListInv, OwesInv, SerialInv
<1>2. CASE LoadSets
  <2>1. /\ tick.pc = "loading" /\ SetEntries(tick.list, bornAt) /\ loaded' = TRUE /\ tick' = NoTick
        /\ UNCHANGED <<saved, asked, edits>> /\ bornAt \in Instants /\ \A a \in Autos : since'[a] = bornAt
    BY <1>2 DEF LoadSets, Typed, Shape
  <2>2. ~loaded /\ edits = {} /\ tick.list = saved /\ saved \in Lists /\ \A a \in Autos : entry[a] = NoEntry
    BY <2>1 DEF ProcInv, ListInv, OwesInv, SerialInv, Typed, Shape
  <2>3. ASSUME NEW a \in Autos
        PROVE  /\ entry'[a].trigger = IF saved[a].on THEN saved[a].trigger ELSE {}
               /\ entry'[a].trigger # {} => entry'[a].next = NextFire(entry'[a].trigger, bornAt)
    <3>1. /\ entry'[a].trigger = IF saved[a].on THEN saved[a].trigger ELSE {}
          /\ entry'[a].trigger # {} =>
               entry'[a].next = IF entry[a].trigger = saved[a].trigger THEN entry[a].next
                                ELSE NextFire(saved[a].trigger, bornAt)
      BY <2>1, <2>2, SetEntriesFollow
    <3>2. entry[a].trigger = {}
      BY <2>2, Blanks
    <3> QED BY <3>1, <3>2
  <2>4. tick'.pc # "loading"
    BY <2>1, Blanks
  <2>5. OwesInv'
    BY <2>1, <2>3 DEF OwesInv
  <2>6. SerialInv'
    BY <2>1, <2>2, <2>3, <2>4 DEF ListInv, SerialInv
  <2> QED BY <2>5, <2>6 DEF ListInv
<1> QED BY <1>1, <1>2

LEMMA ListTakes == ASSUME Typed, ProcInv, ListInv, NEW a \in Autos, TickTakes(a) PROVE ListInv'
<1>1. UNCHANGED <<saved, asked, edits, loaded, tick>> /\ tick.pc = "working" /\ loaded
  BY DEF TickTakes, ProcInv
<1>2. ASSUME NEW b \in Autos
      PROVE  /\ entry'[b].trigger = entry[b].trigger
             /\ entry[b].trigger # {} => entry'[b].next = NextFire(entry[b].trigger, since'[b])
  <2>1. CASE b = a /\ todo[a] = Shared
    BY <2>1, TakesIs
  <2>2. CASE ~ (b = a /\ todo[a] = Shared)
    <3>1. entry'[b] = entry[b] /\ since'[b] = since[b]
      BY <2>2, TakesIs
    <3> QED BY <1>1, <3>1 DEF ListInv, OwesInv
  <2> QED BY <2>1, <2>2
<1> QED BY <1>1, <1>2 DEF ListInv, OwesInv, SerialInv

LEMMA ListEdit == ASSUME ~Early, Typed, ListInv, NEW a \in Autos, Create(a) \/ Update(a) \/ Remove(a) PROVE ListInv'
<1>1. /\ edits = {} /\ loaded /\ UNCHANGED <<saved, asked, loaded, entry, since, tick>>
  BY EditIs DEF entryVars, tickVars
<1>2. PICK e \in EditOf : edits' = {e} /\ e.of = a /\ ~e.written /\ \A b \in Autos : b # a => e.list[b] = saved[b]
  BY EditIs
<1> QED BY <1>1, <1>2 DEF ListInv, OwesInv, SerialInv

LEMMA ListWrite == ASSUME Typed, ProcInv, ListInv, NEW e \in edits, EditWrites(e) \/ EditSets(e) PROVE ListInv'
<1>0. /\ e \in EditOf /\ e.of \in Autos /\ e.list \in Lists /\ saved \in Lists /\ loaded /\ edits = {e}
      /\ clock \in Instants /\ saved = asked
  BY DEF Typed, Shape, EditOf, ListInv, OwesInv, SerialInv
<1>1. CASE EditWrites(e)
  <2>1. /\ ~e.written /\ saved' = e.list /\ asked' = [asked EXCEPT ![e.of] = e.list[e.of]]
        /\ edits' = {[e EXCEPT !.written = TRUE]} /\ UNCHANGED <<loaded, entry, since, tick>>
    BY <1>0, <1>1 DEF EditWrites, entryVars, tickVars
  <2>2. asked' = e.list
    <3>1. \A b \in Autos : b # e.of => e.list[b] = asked[b]
      BY <1>0, <2>1 DEF ListInv, SerialInv
    <3>2. \A b \in Autos : asked'[b] = e.list[b]
      BY <1>0, <2>1, <3>1 DEF Lists
    <3>3. asked' = [b \in Autos |-> asked'[b]] /\ e.list = [b \in Autos |-> e.list[b]]
      BY <1>0, <2>1 DEF Lists
    <3> QED BY <3>2, <3>3
  <2>3. ASSUME tick.pc = "loading" PROVE FALSE
    BY <1>0, <2>3 DEF ProcInv
  <2> QED BY <1>0, <2>1, <2>2, <2>3, WrittenIs DEF ListInv, OwesInv, SerialInv
<1>2. CASE EditSets(e)
  <2>1. /\ e.written /\ SetEntries(e.list, clock) /\ edits' = {} /\ UNCHANGED <<saved, asked, loaded, tick>>
        /\ \A a \in Autos : since'[a] = IF entry[a].trigger = e.list[a].trigger THEN since[a] ELSE clock
    BY <1>0, <1>2 DEF EditSets
  <2>2. e.list = saved
    BY <2>1 DEF ListInv, SerialInv
  <2>3. ASSUME NEW a \in Autos
        PROVE  /\ entry'[a].trigger = IF saved[a].on THEN saved[a].trigger ELSE {}
               /\ entry'[a].trigger # {} => entry'[a].next = NextFire(entry'[a].trigger, since'[a])
    <3>1. /\ entry'[a].trigger = IF saved[a].on THEN saved[a].trigger ELSE {}
          /\ entry'[a].trigger # {} =>
               entry'[a].next = IF entry[a].trigger = saved[a].trigger THEN entry[a].next
                                ELSE NextFire(saved[a].trigger, clock)
      BY <1>0, <2>1, <2>2, SetEntriesFollow
    <3>2. since'[a] = IF entry[a].trigger = saved[a].trigger THEN since[a] ELSE clock
      BY <2>1, <2>2
    <3>3. entry[a].trigger # {} => entry[a].next = NextFire(entry[a].trigger, since[a])
      BY <1>0 DEF ListInv, OwesInv
    <3> QED BY <3>1, <3>2, <3>3
  <2>4. OwesInv'
    BY <1>0, <2>1, <2>3 DEF OwesInv
  <2>5. SerialInv'
    BY <1>0, <2>1, <2>3 DEF ListInv, SerialInv
  <2> QED BY <2>4, <2>5 DEF ListInv
<1> QED BY <1>1, <1>2

LEMMA ListHost == ASSUME Typed, ProcInv, ListInv, Crash \/ Boot PROVE ListInv'
<1>1. CASE Crash
  <2>1. /\ ~loaded' /\ tick'.pc = "idle" /\ edits' = {} /\ UNCHANGED <<saved, asked>>
        /\ \A a \in Autos : entry'[a] = NoEntry
    BY <1>1, Blanks DEF Crash
  <2> QED BY <2>1 DEF ListInv, OwesInv, SerialInv
<1>2. CASE Boot
  <2>1. ~loaded /\ UNCHANGED <<saved, asked, edits, loaded, entry, tick>>
    BY <1>2 DEF Boot, ProcInv, tickVars
  <2> QED BY <2>1 DEF ListInv, OwesInv, SerialInv
<1> QED BY <1>1, <1>2

LEMMA ListNext == ASSUME ~Early, Typed, ProcInv, ListInv, [Next]_vars PROVE ListInv'
<1>1. CASE UNCHANGED vars \/ Tock
  BY <1>1, ListKept DEF vars, Tock, entryVars, tickVars
<1>2. CASE TickStarts \/ TickEnds
  <2>1. tick'.pc # "loading"
    BY <1>2, Blanks DEF TickStarts, TickEnds
  <2> QED BY <1>2, <2>1, ListKept DEF TickStarts, TickEnds, entryVars
<1>3. ASSUME NEW a \in Autos, FireSteps(a) \/ RunNow(a) PROVE ListInv'
  BY <1>3, FireStepIs, ListKept DEF RunNow, entryVars, tickVars
<1>4. CASE RunSteps \/ BootScanEnds
  BY <1>4, RunGoesIs, ScanEndsIs, ListKept DEF entryVars, tickVars
<1>5. CASE Next
  BY <1>1, <1>2, <1>3, <1>4, <1>5, ListLoad, ListTakes, ListEdit, ListWrite, ListHost, Steps
<1> QED BY <1>1, <1>5

-----------------------------------------------------------------------------
(* What became of an instant                                               *)

RanBy(a, i) == \E r \in RunsOf(a) : run[r].due \in 1 .. i

\* An instant that was taken has an answer; while its fire is at work the fire is due at it or
\* before it, and so is the run that was launched for it.
AnswerInv ==
  \A a \in Autos : \A i \in Instants :
    /\ answer[a][i] = "firing" => fire[a].by = "tick" /\ fire[a].due # Never /\ fire[a].due <= i
    /\ answer[a][i] = "ran" => RanBy(a, i)
    /\ i \in entry[a].trigger /\ set[a] < i /\ i <= since[a] => answer[a][i] # "none"

LEMMA AnswerInit == Init => AnswerInv
BY DEF Init, AnswerInv, Unanswered, NoEntry

LEMMA RanStays ==
  ASSUME SameRuns, NEW a \in Autos, NEW i \in Instants, RanBy(a, i)
  PROVE  RanBy(a, i)'
<1>1. PICK r \in Runs \ Unused : run[r].auto = a /\ run[r].due \in 1 .. i
  BY DEF RanBy, RunsOf, Unused
<1>2. r \in Runs \ Unused' /\ run'[r].auto = a /\ run'[r].due \in 1 .. i
  BY <1>1 DEF SameRuns
<1> QED BY <1>2 DEF RanBy, RunsOf, Unused

\* A step that leaves the entries, the fires and what became of them.
LEMMA AnswerKept ==
  ASSUME AnswerInv, UNCHANGED <<entry, set, since, answer, fire>>, SameRuns
  PROVE  AnswerInv'
BY RanStays DEF AnswerInv

\* A step after which nothing has been taken yet since it was scheduled.
LEMMA AnswerAnew ==
  ASSUME AnswerInv, \A a \in Autos : entry'[a] = NoEntry \/ set'[a] = since'[a],
         \/ fire' = fire /\ answer' = answer
         \/ \A a \in Autos : answer'[a] = Unanswered,
         Typed', SameRuns
  PROVE  AnswerInv'
<1> SUFFICES ASSUME NEW a \in Autos, NEW i \in Instants
             PROVE  /\ answer'[a][i] = "firing" => fire'[a].by = "tick" /\ fire'[a].due # Never /\ fire'[a].due <= i
                    /\ answer'[a][i] = "ran" => RanBy(a, i)'
                    /\ i \in entry'[a].trigger => ~ (set'[a] < i /\ i <= since'[a])
  BY DEF AnswerInv
<1>1. i \in Nat /\ set'[a] \in Nat /\ since'[a] \in Nat
  BY InstantsAre DEF Typed, Shape
<1>2. i \in entry'[a].trigger => ~ (set'[a] < i /\ i <= since'[a])
  BY <1>1, Blanks
<1>3. CASE fire' = fire /\ answer' = answer
  BY <1>2, <1>3, RanStays DEF AnswerInv
<1>4. CASE answer'[a] = Unanswered
  BY <1>2, <1>4 DEF Unanswered
<1> QED BY <1>3, <1>4

\* What is after the instant an entry owes since is not before the instant it is due at.
LEMMA OwesAre ==
  ASSUME Typed, OwesInv, loaded, NEW a \in Autos, NEW i \in entry[a].trigger, since[a] < i
  PROVE  entry[a].next # Never /\ entry[a].next <= i
<1>1. entry[a].trigger # {} /\ entry[a].next = NextFire(entry[a].trigger, since[a])
  BY DEF OwesInv
<1>2. entry[a].trigger \in SUBSET (1 .. Horizon)
  BY TriggersAre DEF Typed, Shape, EntryOf
<1>3. since[a] \in Nat /\ i \in Nat
  BY <1>2, Numbers, SchedulerAssumption
<1>4. /\ entry[a].next = Never => \A k \in entry[a].trigger : k <= since[a]
      /\ entry[a].next # Never => \A k \in entry[a].trigger : since[a] < k => entry[a].next <= k
  BY <1>1, <1>2, <1>3, NextFireIs
<1> QED BY <1>3, <1>4

LEMMA AnswerTakes ==
  ASSUME Typed, ProcInv, OwesInv, AnswerInv, NEW a \in Autos, TickTakes(a)
  PROVE  AnswerInv'
<1>0. /\ run' = run /\ set' = set /\ tick.pc = "working" /\ DueIn(a) /\ loaded /\ Takes(a)
      /\ FireBegins(a, "tick", Visited(a).next, todo[a] # Shared)
  BY DEF TickTakes, ProcInv
<1>1. /\ tick.now \in Instants /\ Visited(a).next \in Instants /\ Visited(a).next # Never
      /\ todo[a] = Shared => Visited(a) = entry[a] /\ entry[a].trigger \in Triggers
  BY <1>0, VisitedIs
<1>2. /\ \A b \in Autos : b # a \/ fire[a] # NoFire => fire'[b] = fire[b]
      /\ fire[a] = NoFire => fire'[a].by = "tick" /\ fire'[a].due = Visited(a).next
  <2> DEFINE due == Visited(a).next  stale == todo[a] # Shared
  <2>1. FireBegins(a, "tick", due, stale) /\ due \in Instants /\ stale \in BOOLEAN
    BY <1>0, <1>1
  <2> HIDE DEF due, stale
  <2>2. /\ \A b \in Autos : b # a \/ fire[a] # NoFire => fire'[b] = fire[b]
        /\ fire[a] = NoFire => fire'[a].by = "tick" /\ fire'[a].due = due
    BY <2>1, FireBeginsType DEF Typed
  <2> QED BY <2>2 DEF due
<1>3. /\ \A b \in Autos : b # a => answer'[b] = answer[b]
      /\ \A i \in Instants :
           /\ answer'[a][i] # answer[a][i] =>
                /\ i \in Visited(a).trigger /\ Visited(a).next <= i /\ answer[a][i] = "none"
                /\ answer'[a][i] = IF fire[a] = NoFire THEN "firing" ELSE "refused"
           /\ /\ i \in Visited(a).trigger /\ Visited(a).next <= i /\ set[a] < i /\ i <= tick.now
              => answer'[a][i] # "none"
  BY <1>0, TakesAnswers DEF Typed, Shape
<1>4. \A b \in Autos : /\ entry'[b].trigger = entry[b].trigger
                       /\ b # a \/ todo[a] # Shared => since'[b] = since[b]
                       /\ todo[a] = Shared => since'[a] = tick.now
  BY TakesIs
<1>5. NoFire.by = "none"
  BY DEF NoFire
<1> SUFFICES ASSUME NEW b \in Autos, NEW i \in Instants
             PROVE  /\ answer'[b][i] = "firing" => fire'[b].by = "tick" /\ fire'[b].due # Never /\ fire'[b].due <= i
                    /\ answer'[b][i] = "ran" => RanBy(b, i)'
                    /\ i \in entry'[b].trigger /\ set'[b] < i /\ i <= since'[b] => answer'[b][i] # "none"
  BY DEF AnswerInv
<1>6. answer'[b][i] = "firing" => fire'[b].by = "tick" /\ fire'[b].due # Never /\ fire'[b].due <= i
  <2>1. CASE b = a /\ answer'[a][i] # answer[a][i]
    BY <1>1, <1>2, <1>3, <2>1
  <2>2. CASE answer'[b][i] = answer[b][i]
    <3>1. answer[b][i] = "firing" => fire[b].by = "tick" /\ fire[b].due # Never /\ fire[b].due <= i
      BY DEF AnswerInv
    <3>2. fire[b].by = "tick" => fire'[b] = fire[b]
      BY <1>2, <1>5
    <3> QED BY <2>2, <3>1, <3>2
  <2> QED BY <1>3, <2>1, <2>2
<1>7. answer'[b][i] = "ran" => RanBy(b, i)'
  <2>1. answer'[b][i] = "ran" => answer[b][i] = "ran"
    BY <1>3
  <2>2. RanBy(b, i) => RanBy(b, i)'
    BY <1>0, RanStays, SameRunsKept
  <2> QED BY <2>1, <2>2 DEF AnswerInv
<1>8. ASSUME i \in entry'[b].trigger, set'[b] < i, i <= since'[b] PROVE answer'[b][i] # "none"
  <2>0. i \in entry[b].trigger /\ set[b] < i
    BY <1>0, <1>4, <1>8
  <2>1. answer[b][i] # "none" => answer'[b][i] # "none"
    BY <1>3
  <2>2. CASE b # a \/ todo[a] # Shared \/ i <= since[a]
    BY <1>4, <1>8, <2>0, <2>1, <2>2 DEF AnswerInv
  <2>3. CASE b = a /\ todo[a] = Shared /\ ~ (i <= since[a])
    <3>1. since[a] \in Nat /\ i \in Nat
      BY Numbers, InstantsAre
    <3>2. since[a] < i
      BY <2>3, <3>1
    <3>3. entry[a].next <= i
      BY <1>0, <2>0, <2>3, <3>2, OwesAre
    <3>4. Visited(a).next <= i /\ i \in Visited(a).trigger
      BY <1>1, <2>0, <2>3, <3>3
    <3> QED BY <1>3, <1>4, <1>8, <2>0, <2>3, <3>4
  <2> QED BY <2>2, <2>3
<1> QED BY <1>6, <1>7, <1>8

LEMMA AnswerRunNow ==
  ASSUME Typed, AnswerInv, NEW a \in Autos, RunNow(a)
  PROVE  AnswerInv'
<1>1. \A b \in Autos : fire[b] = NoFire \/ fire'[b] = fire[b]
  BY InstantsAre, FireBeginsType DEF RunNow, Typed
<1>2. \A b \in Autos : fire[b].by = "tick" => fire'[b] = fire[b]
  BY <1>1 DEF NoFire
<1>3. UNCHANGED <<entry, set, since, answer>> /\ SameRuns
  BY SameRunsKept DEF RunNow, entryVars
<1> QED BY <1>2, <1>3, RanStays DEF AnswerInv

\* A fire that launches does so for the instants it is at work for.
LEMMA LaunchRan ==
  ASSUME Typed, AnswerInv, NEW a \in Autos, FireLaunches(a)
  PROVE  /\ \A b \in Autos, i \in Instants : RanBy(b, i) => RanBy(b, i)'
         /\ \A i \in Instants : answer[a][i] = "firing" => RanBy(a, i)'
<1> DEFINE r == CHOOSE x \in Unused : \A q \in Unused : x <= q
           new == [pc |-> "launched", auto |-> a, due |-> fire[a].due, born |-> bornAt, stale |-> fire[a].stale]
<1>1. r \in Unused
  BY FirstUnused DEF FireLaunches
<1>2. run' = [run EXCEPT ![r] = new] /\ fire[a] # NoFire
  BY DEF FireLaunches
<1>3. new.pc = "launched" /\ new.auto = a /\ new.due = fire[a].due
  OBVIOUS
<1> HIDE DEF r, new
<1>4. r \in Runs /\ run'[r] = new /\ \A q \in Runs : q # r => run'[q] = run[q]
  BY <1>1, <1>2 DEF Unused, Typed, Shape
<1>5. ASSUME NEW b \in Autos, NEW i \in Instants, RanBy(b, i) PROVE RanBy(b, i)'
  <2>1. PICK q \in Runs : run[q].pc # "unused" /\ run[q].auto = b /\ run[q].due \in 1 .. i
    BY <1>5 DEF RanBy, RunsOf
  <2>2. q # r
    BY <1>1, <2>1 DEF Unused
  <2> QED BY <1>4, <2>1, <2>2 DEF RanBy, RunsOf
<1>6. ASSUME NEW i \in Instants, answer[a][i] = "firing" PROVE RanBy(a, i)'
  <2>1. fire[a].due # Never /\ fire[a].due <= i /\ fire[a].due \in Nat /\ i \in Nat
    BY <1>2, <1>6, Numbers, InstantsAre DEF AnswerInv
  <2>2. run'[r].due \in 1 .. i
    BY <1>3, <1>4, <2>1 DEF Never
  <2> QED BY <1>3, <1>4, <2>2 DEF RanBy, RunsOf
<1> QED BY <1>5, <1>6

LEMMA AnswerFire ==
  ASSUME Typed, AnswerInv, NEW a \in Autos, FireSteps(a)
  PROVE  AnswerInv'
<1>0. /\ UNCHANGED <<entry, set, since>> /\ answer \in [Autos -> AnswerOf] /\ fire[a] \in FireOf
      /\ \A b \in Autos : b # a => fire'[b] = fire[b] /\ answer'[b] = answer[b]
  BY FireStepIs DEF entryVars, Typed, Shape
<1>1. ASSUME NEW why \in {"refused", "ran"}, FireGives(a, why),
             \A b \in Autos, i \in Instants : RanBy(b, i) => RanBy(b, i)',
             why = "ran" => \A i \in Instants : answer[a][i] = "firing" => RanBy(a, i)'
      PROVE  AnswerInv'
  <2>1. \A i \in Instants : answer'[a][i] = IF answer[a][i] = "firing" THEN why ELSE answer[a][i]
    <3>1. why \in Becoming /\ Answers(a, why)
      BY <1>1 DEF Becoming, FireGives
    <3> QED BY <1>0, <3>1, AnswersIs
  <2>2. ASSUME NEW i \in Instants
        PROVE  /\ answer'[a][i] # "firing" /\ (answer'[a][i] = "ran" => RanBy(a, i)')
               /\ answer'[a][i] = "none" => answer[a][i] = "none"
    BY <1>1, <2>1 DEF AnswerInv
  <2> QED BY <1>0, <1>1, <2>2 DEF AnswerInv
<1>2. ASSUME NEW p \in {"scanning", "clear"}, fire[a] # NoFire, fire' = [fire EXCEPT ![a].pc = p],
             answer' = answer, run' = run
      PROVE  AnswerInv'
  <2>1. fire' = [fire EXCEPT ![a] = [fire[a] EXCEPT !.pc = p]]
    BY <1>2
  <2>2. fire'[a] = [fire[a] EXCEPT !.pc = p]
    BY <2>1 DEF Typed, Shape
  <2>3. fire'[a].by = fire[a].by /\ fire'[a].due = fire[a].due
    BY <1>0, <1>2, <2>2, FireIs
  <2> QED BY <1>0, <1>2, <2>3, RanStays, SameRunsKept DEF AnswerInv
<1>3. ASSUME run' = run PROVE \A b \in Autos, i \in Instants : RanBy(b, i) => RanBy(b, i)'
  BY <1>3, RanStays, SameRunsKept
<1>4. CASE FireRefused(a)
  BY <1>1, <1>3, <1>4 DEF FireRefused
<1>5. CASE FireLooks(a)
  BY <1>1, <1>2, <1>3, <1>5 DEF FireLooks
<1>6. CASE FireScans(a)
  BY <1>1, <1>2, <1>3, <1>6 DEF FireScans
<1>7. CASE FireLaunches(a)
  <2>1. FireGives(a, "ran")
    BY <1>7 DEF FireLaunches
  <2> QED BY <1>1, <1>7, <2>1, LaunchRan
<1> QED BY <1>4, <1>5, <1>6, <1>7 DEF FireSteps

LEMMA AnswerSets ==
  ASSUME Typed, ListInv, AnswerInv, NEW e \in edits, EditSets(e)
  PROVE  AnswerInv'
<1>1. /\ SetEntries(e.list, clock) /\ loaded /\ e.list \in Lists /\ clock \in Instants
      /\ UNCHANGED <<run, fire>>
  BY DEF EditSets, ListInv, OwesInv, Typed, Shape, EditOf
<1>2. \A a \in Autos : IF entry[a].trigger = e.list[a].trigger
                         THEN set'[a] = set[a] /\ since'[a] = since[a] /\ answer'[a] = answer[a]
                         ELSE set'[a] = clock /\ since'[a] = clock /\ answer'[a] = Unanswered
  BY <1>1 DEF EditSets
<1>3. \A a \in Autos : entry'[a].trigger = e.list[a].trigger \/ entry'[a].trigger = {}
  BY <1>1, SetEntriesFollow
<1> SUFFICES ASSUME NEW a \in Autos, NEW i \in Instants
             PROVE  /\ answer'[a][i] = "firing" => fire'[a].by = "tick" /\ fire'[a].due # Never /\ fire'[a].due <= i
                    /\ answer'[a][i] = "ran" => RanBy(a, i)'
                    /\ i \in entry'[a].trigger /\ set'[a] < i /\ i <= since'[a] => answer'[a][i] # "none"
  BY DEF AnswerInv
<1>4. CASE entry[a].trigger = e.list[a].trigger
  <2>1. RanBy(a, i) => RanBy(a, i)'
    BY <1>1, RanStays, SameRunsKept
  <2> QED BY <1>1, <1>2, <1>3, <1>4, <2>1 DEF AnswerInv
<1>5. CASE entry[a].trigger # e.list[a].trigger
  <2>1. i \in Nat /\ clock \in Nat /\ answer'[a][i] = "none" /\ set'[a] = clock /\ since'[a] = clock
    BY <1>1, <1>2, <1>5, InstantsAre DEF Unanswered
  <2> QED BY <2>1
<1> QED BY <1>4, <1>5

LEMMA AnswerNext ==
  ASSUME Typed, Typed', ProcInv, ListInv, AnswerInv, [Next]_vars
  PROVE  AnswerInv'
<1>1. CASE UNCHANGED vars \/ Tock \/ LoadReads \/ TickStarts \/ TickEnds
  BY <1>1, AnswerKept, SameRunsKept DEF vars, Tock, LoadReads, TickStarts, TickEnds, entryVars
<1>2. CASE LoadSets
  BY <1>2, AnswerAnew, SameRunsKept DEF LoadSets
<1>3. CASE RunSteps \/ BootScanEnds
  BY <1>3, RunsKept, RunGoesIs, ScanEndsIs, AnswerKept DEF entryVars
<1>4. ASSUME NEW a \in Autos, Create(a) \/ Update(a) \/ Remove(a) PROVE AnswerInv'
  BY <1>4, EditIs, AnswerKept, SameRunsKept DEF entryVars
<1>5. ASSUME NEW e \in edits, EditWrites(e) PROVE AnswerInv'
  BY <1>5, AnswerKept, SameRunsKept DEF EditWrites, entryVars
<1>6. CASE Crash
  BY <1>6, RunsKept, AnswerAnew DEF Crash
<1>7. CASE Boot
  BY <1>7, SameRunsKept, AnswerAnew DEF Boot
<1>8. CASE Next
  BY <1>1, <1>2, <1>3, <1>4, <1>5, <1>6, <1>7, <1>8, AnswerTakes, AnswerRunNow, AnswerFire, AnswerSets, Steps
     DEF ListInv
<1> QED BY <1>1, <1>8

\* An instant not taken since is one its entry is due at.
LEMMA AnswerIsEnough == ASSUME Typed, ListInv, AnswerInv PROVE NoneSwallowed
<1> SUFFICES ASSUME loaded, NEW a \in Autos, NEW i \in entry[a].trigger, set[a] < i, i <= clock
             PROVE  \/ Due(entry[a], i)
                    \/ answer[a][i] = "firing" /\ fire[a].by = "tick" /\ fire[a].due <= i
                    \/ answer[a][i] = "ran" /\ \E r \in RunsOf(a) : run[r].due \in 1 .. i
                    \/ answer[a][i] = "refused"
  BY DEF NoneSwallowed
<1>1. entry[a].trigger \in SUBSET (1 .. Horizon)
  BY TriggersAre DEF Typed, Shape, EntryOf
<1>2. since[a] \in Nat /\ i \in Nat /\ i \in Instants
  BY <1>1, Numbers, SchedulerAssumption DEF Instants
<1>3. CASE since[a] < i
  BY <1>3, OwesAre DEF ListInv, Due
<1>4. CASE i <= since[a]
  <2>1. answer[a][i] # "none" /\ answer[a][i] \in Becoming
    BY <1>2, <1>4 DEF AnswerInv, Typed, Shape, AnswerOf
  <2> QED BY <1>2, <2>1 DEF AnswerInv, Becoming, RanBy
<1> QED BY <1>2, <1>3, <1>4

\* Late, never lost: an instant that came since its trigger was scheduled in this process is still
\* due, or its fire is at work, or a run was launched at it or at one it waited behind, or a fire was
\* turned down, for any triggers, edits, slow fires and fires by hand, in every process that crashes
\* start (scheduler.ts:285 leaves what they cut off), when no edit comes before the first load.
THEOREM NoInstantSwallowed == ASSUME ~Early PROVE Spec => []NoneSwallowed
<1>1. Typed /\ [Next]_vars => Typed'
  BY TypedNext
<1>2. Typed /\ OnceInv /\ [Next]_vars => OnceInv'
  BY OnceNext
<1>3. Typed /\ OnceInv /\ ListInv /\ [Next]_vars => ListInv'
  BY ListNext DEF OnceInv
<1>4. Typed /\ OnceInv /\ ListInv /\ AnswerInv /\ [Next]_vars => AnswerInv'
  BY TypedNext, AnswerNext DEF OnceInv
<1>5. Typed /\ ListInv /\ AnswerInv => NoneSwallowed
  BY AnswerIsEnough
<1> QED BY <1>1, <1>2, <1>3, <1>4, <1>5, TypedInit, OnceInit, ListInit, AnswerInit, PTL DEF Spec

\* No edit is lost: the saved list is what the edits asked for, and when none is at work the entries
\* are exactly the automations that are on, when no edit comes before the first load.
THEOREM EditsAreKept == ASSUME ~Early PROVE Spec => []EditsStand
<1>1. Typed /\ [Next]_vars => Typed'
  BY TypedNext
<1>2. Typed /\ OnceInv /\ [Next]_vars => OnceInv'
  BY OnceNext
<1>3. Typed /\ OnceInv /\ ListInv /\ [Next]_vars => ListInv'
  BY ListNext DEF OnceInv
<1>4. ListInv => EditsStand
  BY DEF ListInv, SerialInv, EditsStand
<1> QED BY <1>1, <1>2, <1>3, <1>4, TypedInit, OnceInit, ListInit, PTL DEF Spec


=============================================================================
