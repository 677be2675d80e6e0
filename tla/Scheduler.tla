----------------------------- MODULE Scheduler -----------------------------
(***************************************************************************)
(* The stateful half of automations (scheduler.ts): the tick that fires    *)
(* what is due, Run now, edits of the saved list, and the facts a fire     *)
(* reads from the run store, around crashes and the boot's resumes.  One   *)
(* workflow; time is a clock of Horizon instants, a trigger the set of     *)
(* instants it names (automations.ts computes them).                       *)
(***************************************************************************)
EXTENDS Naturals, FiniteSets

CONSTANTS Autos,     \* the automations of the workflow
          Clicked,   \* those a person may run by hand
          Triggers,  \* the triggers they may have
          First,     \* the trigger each is saved with at first
          Runs,      \* ids of runs, in the order they are launched
          Horizon,   \* the last instant
          ScanLimit, \* SCAN_LIMIT
          SlowBoot,  \* may a fire begin before the boot's resumes are done?
          Early,     \* may an edit come before the first load?
          MidTick,   \* may an edit come while a tick is at work?
          MaxAround  \* bound on edits, fires by hand and crashes

ASSUME SchedulerAssumption ==
  /\ Runs \subseteq Nat \ {0} /\ Horizon \in Nat
  /\ Triggers \subseteq (SUBSET (1 .. Horizon)) \ {{}}
  /\ First \in [Autos -> Triggers] /\ Clicked \subseteq Autos
  /\ {SlowBoot, Early, MidTick} \subseteq BOOLEAN
  /\ {ScanLimit, MaxAround} \subseteq Nat

VARIABLES
  clock,
  saved,    \* the automations in the workflow's metadata
  run,      \* the run store: each run, and how far it is
  \* the process
  up, bornAt, resumed,
  loaded, entry,
  tick,     \* the pass at work
  todo,     \* the entries it has still to visit, as its snapshot holds them
  fire,     \* the fire of each automation that is launching (`firing`)
  edits,    \* the edits at work
  \* history and bound
  asked,    \* the automations as the last edits want them
  set,      \* the instant after which each entry was scheduled
  since,    \* the instant up to which its instants have been taken
  answer,   \* what became of each instant that was taken since
  around

procVars == <<up, bornAt, resumed>>
entryVars == <<loaded, entry, set, since>>
tickVars == <<tick, todo>>
savedVars == <<saved, edits, asked>>
vars == <<clock, saved, run, procVars, entryVars, tickVars, fire, edits, asked, answer, around>>

Instants == 0 .. Horizon
Never == 0
Gone == [on |-> FALSE, trigger |-> {}]
NoEntry == [trigger |-> {}, next |-> Never]
Unvisited == [at |-> "none"]
Shared == [at |-> "shared"]
Own(e) == [at |-> "own", trigger |-> e.trigger, next |-> e.next]
NoTick == [pc |-> "idle"]
NoFire == [by |-> "none"]
NoRun == [pc |-> "unused"]
Unanswered == [i \in Instants |-> "none"]

There(a) == saved[a].trigger # {}
Due(e, now) == e.next # Never /\ e.next <= now

\* nextFire: the first instant of the trigger after one, or null.
NextFire(trigger, after) ==
  LET later == {i \in trigger : i > after}
  IN  IF later = {} THEN Never ELSE CHOOSE i \in later : \A j \in later : i <= j

\* `controllers` has the run
Live(r) == run[r].pc \in {"launched", "running"}
RunsOf(a) == {r \in Runs : run[r].pc # "unused" /\ run[r].auto = a}
Unused == {r \in Runs : run[r].pc = "unused"}

-----------------------------------------------------------------------------
Init ==
  /\ clock = 0 /\ run = [r \in Runs |-> NoRun]
  /\ saved = [a \in Autos |-> [on |-> TRUE, trigger |-> First[a]]] /\ asked = saved
  /\ up = TRUE /\ bornAt = 0 /\ resumed = TRUE
  /\ loaded = FALSE /\ entry = [a \in Autos |-> NoEntry]
  /\ tick = NoTick /\ todo = [a \in Autos |-> Unvisited]
  /\ fire = [a \in Autos |-> NoFire] /\ edits = {}
  /\ set = [a \in Autos |-> 0] /\ since = set
  /\ answer = [a \in Autos |-> Unanswered]
  /\ around = 0

\* One more of the bounded things people and hosts do.
Around == around < MaxAround /\ around' = around + 1

Tock ==
  /\ clock < Horizon /\ clock' = clock + 1
  /\ UNCHANGED <<saved, run, procVars, entryVars, tickVars, fire, edits, asked, answer, around>>

-----------------------------------------------------------------------------
(* The entries *)

\* Mutant: An edit schedules every entry of the workflow from the time of the edit.
KeptNever(a, auto) == FALSE

\* An unchanged trigger keeps its instant.
Kept(a, auto) == entry[a].trigger = auto.trigger

EntryFor(a, auto, after) ==
  IF ~auto.on THEN NoEntry
  ELSE [trigger |-> auto.trigger,
        next |-> IF Kept(a, auto) THEN entry[a].next ELSE NextFire(auto.trigger, after)]

\* Every entry is a new object: a pass at work keeps the ones it saw.
SetEntries(list, after) ==
  /\ entry' = [a \in Autos |-> EntryFor(a, list[a], after)]
  /\ todo' = [a \in Autos |-> IF todo[a] = Shared THEN Own(entry[a]) ELSE todo[a]]

\* loadAll reads the workflows ...
LoadReads ==
  /\ up /\ tick = NoTick /\ ~loaded /\ (resumed \/ SlowBoot)
  /\ tick' = [pc |-> "loading", list |-> saved]
  /\ UNCHANGED <<clock, saved, run, procVars, entryVars, todo, fire, edits, asked, answer, around>>

\* ... and schedules them from when this process was born.
LoadSets ==
  /\ tick.pc = "loading"
  /\ SetEntries(tick.list, bornAt)
  /\ loaded' = TRUE /\ tick' = NoTick
  /\ set' = [a \in Autos |-> bornAt] /\ since' = set'
  /\ UNCHANGED <<clock, saved, run, procVars, fire, edits, asked, answer, around>>

-----------------------------------------------------------------------------
(* The tick *)

TickStarts ==
  /\ up /\ tick = NoTick /\ loaded /\ (resumed \/ SlowBoot)
  /\ \E a \in Autos : Due(entry[a], clock)   \* else it is over at once
  /\ tick' = [pc |-> "working", now |-> clock]
  /\ todo' = [a \in Autos |-> IF entry[a] = NoEntry THEN Unvisited ELSE Shared]
  /\ UNCHANGED <<clock, saved, run, procVars, entryVars, fire, edits, asked, answer, around>>

Visited(a) == IF todo[a] = Shared THEN entry[a] ELSE todo[a]
DueIn(a) == todo[a] # Unvisited /\ Due(Visited(a), tick.now)
Awaits == \E a \in Autos : fire[a].by = "tick"

\* A fire is refused at once while another of its automation is launching.
FireBegins(a, by, due, stale) ==
  IF fire[a] # NoFire THEN UNCHANGED fire
  ELSE fire' = [fire EXCEPT ![a] = [by |-> by, due |-> due, stale |-> stale, pc |-> "asked"]]

\* A fire answers for every instant that came since the one it is due at: the first answer counts.
Takes(a) ==
  answer' = [answer EXCEPT ![a] = [i \in Instants |->
    IF /\ answer[a][i] = "none" /\ set[a] < i /\ i <= tick.now
       /\ i \in Visited(a).trigger /\ Visited(a).next <= i
    THEN IF fire[a] = NoFire THEN "firing" ELSE "refused"
    ELSE answer[a][i]]]

\* What the fire at work came to is what became of its instants.
Becomes(what, why) == [i \in Instants |-> IF what[i] = "firing" THEN why ELSE what[i]]
Answers(a, why) == answer' = [answer EXCEPT ![a] = Becomes(answer[a], why)]

\* Mutant: The pass fires before it advances.
TickTakesUnadvanced(a) ==
  /\ tick.pc = "working" /\ ~Awaits /\ DueIn(a)
  /\ todo' = [todo EXCEPT ![a] = Unvisited]
  /\ FireBegins(a, "tick", Visited(a).next, todo[a] # Shared) /\ Takes(a)
  /\ UNCHANGED <<clock, saved, run, procVars, entryVars, tick, edits, asked, around>>

\* Advance first, then fire.
TickTakes(a) ==
  /\ tick.pc = "working" /\ ~Awaits /\ DueIn(a)
  /\ IF todo[a] = Shared
       THEN /\ entry' = [entry EXCEPT ![a].next = NextFire(entry[a].trigger, tick.now)]
            /\ since' = [since EXCEPT ![a] = tick.now]
       ELSE UNCHANGED <<entry, since>>
  /\ todo' = [todo EXCEPT ![a] = Unvisited]
  /\ FireBegins(a, "tick", Visited(a).next, todo[a] # Shared) /\ Takes(a)
  /\ UNCHANGED <<clock, saved, run, procVars, loaded, set, tick, edits, asked, around>>

TickEnds ==
  /\ tick.pc = "working" /\ ~Awaits /\ \A a \in Autos : ~DueIn(a)
  /\ tick' = NoTick /\ todo' = [a \in Autos |-> Unvisited]
  /\ UNCHANGED <<clock, saved, run, procVars, entryVars, fire, edits, asked, answer, around>>

-----------------------------------------------------------------------------
(* fireOne *)

RunNow(a) ==
  /\ a \in Clicked /\ up /\ There(a) /\ fire[a] = NoFire /\ (resumed \/ SlowBoot)
  /\ Around
  /\ FireBegins(a, "hand", Never, FALSE)
  /\ UNCHANGED <<clock, saved, run, procVars, entryVars, tickVars, edits, asked, answer>>

FireGives(a, why) == fire' = [fire EXCEPT ![a] = NoFire] /\ Answers(a, why)

\* The workflow is disabled, has no owner, the deployment drains, an input does not resolve.
FireRefused(a) ==
  /\ fire[a] # NoFire /\ FireGives(a, "refused")
  /\ UNCHANGED <<clock, saved, run, procVars, entryVars, tickVars, edits, asked, around>>

\* Mutant: runFacts without `launched`: a launch that is not stamped yet is not seen.
LaunchedUnseen(a) == {}

\* The runs whose run.start is not written yet: `launched`, pruned.
Launched(a) == {r \in RunsOf(a) : run[r].pc = "launched"}

\* runFacts begins with the launched ones ...
FireLooks(a) ==
  /\ fire[a] # NoFire /\ fire[a].pc = "asked"
  /\ IF Launched(a) # {} THEN FireGives(a, "refused")
     ELSE fire' = [fire EXCEPT ![a].pc = "scanning"] /\ UNCHANGED answer
  /\ UNCHANGED <<clock, saved, run, procVars, entryVars, tickVars, edits, asked, around>>

\* ... and goes on with the newest runs, back to the automation's latest success.
Scanned(a) ==
  {r \in RunsOf(a) :
     /\ Cardinality({q \in Runs \ Unused : q > r}) < ScanLimit
     /\ \A q \in RunsOf(a) : q > r => run[q].pc # "success"}

FireScans(a) ==
  /\ fire[a] # NoFire /\ fire[a].pc = "scanning"
  /\ IF \E r \in Scanned(a) : run[r].pc = "running"
       THEN FireGives(a, "refused")
       ELSE fire' = [fire EXCEPT ![a].pc = "clear"] /\ UNCHANGED answer
  /\ UNCHANGED <<clock, saved, run, procVars, entryVars, tickVars, edits, asked, around>>

FireLaunches(a) ==
  /\ fire[a] # NoFire /\ fire[a].pc = "clear" /\ Unused # {}
  /\ LET r == CHOOSE r \in Unused : \A q \in Unused : r <= q
     IN  run' = [run EXCEPT ![r] = [pc |-> "launched", auto |-> a, due |-> fire[a].due,
                                    born |-> bornAt, stale |-> fire[a].stale]]
  /\ FireGives(a, "ran")
  /\ UNCHANGED <<clock, saved, procVars, entryVars, tickVars, edits, asked, around>>

-----------------------------------------------------------------------------
(* The runs *)

RunGoes(from, to) ==
  /\ \E r \in Runs : run[r].pc \in from /\ run' = [run EXCEPT ![r].pc = to]
  /\ UNCHANGED <<clock, saved, entryVars, tickVars, fire, edits, asked, answer>>

RunStamped == RunGoes({"launched"}, "running") /\ UNCHANGED <<procVars, around>>
RunSucceeds == RunGoes({"running"}, "success") /\ UNCHANGED <<procVars, around>>
RunFails == RunGoes({"running"}, "over") /\ UNCHANGED <<procVars, around>>

\* The boot's scan resumes a run the crash cut off, or passes it over: like one that failed, or
\* was never stamped, it is then of no account to a fire.
BootResumes == up /\ ~resumed /\ RunGoes({"dead"}, "running") /\ UNCHANGED <<procVars, around>>

BootScanEnds ==
  /\ up /\ ~resumed /\ resumed' = TRUE
  /\ run' = [r \in Runs |-> IF run[r].pc = "dead" THEN [run[r] EXCEPT !.pc = "over"] ELSE run[r]]
  /\ UNCHANGED <<clock, saved, up, bornAt, entryVars, tickVars, fire, edits, asked, answer, around>>

-----------------------------------------------------------------------------
(* Edits: one at a time *)

\* Mutant: Reads and writes of the list may cross.
SerialNot == TRUE

Serial == edits = {}

Edit(a, auto) ==
  /\ up /\ Around
  /\ Serial
  /\ (loaded \/ Early) /\ (tick = NoTick \/ MidTick)
  /\ auto # saved[a]
  /\ edits' = edits \cup {[of |-> a, list |-> [saved EXCEPT ![a] = auto], written |-> FALSE]}
  /\ UNCHANGED <<clock, saved, run, procVars, entryVars, tickVars, fire, asked, answer>>

\* A trigger that comes with an edit must have an instant to come.
Comes(trigger) == NextFire(trigger, clock) # Never

Create(a) == ~There(a) /\ \E t \in Triggers : Comes(t) /\ Edit(a, [on |-> TRUE, trigger |-> t])
Update(a) ==
  /\ There(a)
  /\ \/ Edit(a, [saved[a] EXCEPT !.on = ~@])
     \/ \E t \in Triggers : Comes(t) /\ Edit(a, [saved[a] EXCEPT !.trigger = t])
Remove(a) == There(a) /\ Edit(a, Gone)

\* setWorkflowAutomations writes the whole list.
EditWrites(e) ==
  /\ ~e.written
  /\ saved' = e.list /\ asked' = [asked EXCEPT ![e.of] = e.list[e.of]]
  /\ edits' = (edits \ {e}) \cup {[e EXCEPT !.written = TRUE]}
  /\ UNCHANGED <<clock, run, procVars, entryVars, tickVars, fire, answer, around>>

EditSets(e) ==
  /\ e.written /\ (tick = NoTick \/ MidTick)
  /\ SetEntries(e.list, clock)
  /\ LET same(a) == entry[a].trigger = e.list[a].trigger \/ ~loaded
     IN  /\ set' = [a \in Autos |-> IF same(a) THEN set[a] ELSE clock]
         /\ since' = [a \in Autos |-> IF same(a) THEN since[a] ELSE clock]
         /\ answer' = [a \in Autos |-> IF same(a) THEN answer[a] ELSE Unanswered]
  /\ edits' = edits \ {e}
  /\ UNCHANGED <<clock, saved, run, procVars, loaded, tick, fire, asked, around>>

-----------------------------------------------------------------------------
Crash ==
  /\ up /\ Around
  /\ up' = FALSE /\ resumed' = FALSE /\ loaded' = FALSE
  /\ entry' = [a \in Autos |-> NoEntry] /\ todo' = [a \in Autos |-> Unvisited]
  /\ tick' = NoTick /\ fire' = [a \in Autos |-> NoFire] /\ edits' = {}
  /\ run' = [r \in Runs |-> CASE run[r].pc = "launched" -> [run[r] EXCEPT !.pc = "over"]
                              [] run[r].pc = "running" -> [run[r] EXCEPT !.pc = "dead"]
                              [] OTHER -> run[r]]
  /\ answer' = [a \in Autos |-> Unanswered]
  /\ UNCHANGED <<clock, saved, bornAt, asked, set, since>>

Boot ==
  /\ ~up /\ up' = TRUE /\ bornAt' = clock
  /\ set' = [a \in Autos |-> clock] /\ since' = set'
  /\ UNCHANGED <<clock, saved, run, resumed, loaded, entry, tickVars, fire, edits, asked, answer, around>>

FireSteps(a) == FireRefused(a) \/ FireLooks(a) \/ FireScans(a) \/ FireLaunches(a)
TickSteps == LoadReads \/ LoadSets \/ TickStarts \/ TickEnds \/ \E a \in Autos : TickTakes(a)
EditSteps == \E e \in edits : EditWrites(e) \/ EditSets(e)

Next ==
  \/ Tock \/ TickSteps \/ EditSteps
  \/ \E a \in Autos : FireSteps(a) \/ RunNow(a) \/ Create(a) \/ Update(a) \/ Remove(a)
  \/ RunStamped \/ RunSucceeds \/ RunFails
  \/ BootResumes \/ BootScanEnds \/ Crash \/ Boot

Spec == Init /\ [][Next]_vars

-----------------------------------------------------------------------------
(* Properties *)

Lists == [Autos -> [on : BOOLEAN, trigger : Triggers] \cup {Gone}]
EntryOf == [trigger : Triggers \cup {{}}, next : Instants]

\* The shape of the state: entries, snapshots, fires and runs name instants and triggers that exist.
TypeOK ==
  /\ {clock, bornAt} \subseteq Instants /\ {saved, asked} \subseteq Lists
  /\ {up, resumed, loaded} \subseteq BOOLEAN
  /\ entry \in [Autos -> EntryOf] /\ {set, since} \subseteq [Autos -> Instants]
  /\ tick \in {NoTick} \cup [pc : {"loading"}, list : Lists] \cup [pc : {"working"}, now : Instants]
  /\ todo \in [Autos -> {Unvisited, Shared} \cup [at : {"own"}, trigger : Triggers, next : Instants]]
  /\ fire \in [Autos -> {NoFire} \cup [by : {"tick", "hand"}, due : Instants, stale : BOOLEAN,
                                       pc : {"asked", "scanning", "clear"}]]
  /\ run \in [Runs -> {NoRun} \cup
       [pc : {"launched", "running", "success", "over", "dead"}, auto : Autos,
        due : Instants, born : Instants, stale : BOOLEAN]]
  /\ edits \subseteq [of : Autos, list : Lists, written : BOOLEAN]
  /\ answer \in [Autos -> [Instants -> {"none", "firing", "ran", "refused"}]]
  /\ around \in Nat

\* The one overlap rule: an automation never has two runs going, whatever ticks, Run now and
\* a boot's resumes do.
NoOverlap ==
  \A r, q \in Runs : r # q /\ Live(r) /\ Live(q) => run[r].auto # run[q].auto

\* A run launched for an instant is launched in its time, by a process that was up when it came (a
\* restart does not stampede), and no other run is launched for it, across crashes, edits and Run
\* now; a pass that visits an entry an edit has replaced is told apart, see FiredOnceEver.
FiredOnce ==
  \A r \in Runs \ Unused : run[r].due # Never =>
    /\ run[r].born < run[r].due /\ run[r].due <= clock
    /\ \A q \in Runs \ Unused :
         /\ run[q].auto = run[r].auto /\ run[q].due = run[r].due
         /\ ~run[q].stale /\ ~run[r].stale
         => q = r

\* "tick fires what is due -- once": the same with no exception.
FiredOnceEver ==
  \A r, q \in Runs \ Unused :
    run[r].auto = run[q].auto /\ run[r].due = run[q].due /\ run[r].due # Never => r = q

\* "Late, never lost": an instant that came since its trigger was scheduled in this process is still
\* due, or in the fire at work, or in a run that was launched at it or at an earlier one it waited
\* behind, or was turned down: a fire was launching, a run was going, or nothing may be launched.
\* Edits of other automations, slow passes and fires by hand swallow none.
NoneSwallowed ==
  up /\ loaded =>
    \A a \in Autos : \A i \in entry[a].trigger :
      set[a] < i /\ i <= clock =>
        \/ Due(entry[a], i)
        \/ answer[a][i] = "firing" /\ fire[a].by = "tick" /\ fire[a].due <= i
        \/ answer[a][i] = "ran" /\ \E r \in RunsOf(a) : run[r].due \in 1 .. i
        \/ answer[a][i] = "refused"

\* Racing edits are all kept, and once they are done the entries are the enabled automations.
EditsStand ==
  /\ saved = asked
  /\ up /\ loaded /\ edits = {} =>
       \A a \in Autos : entry[a].trigger = IF saved[a].on THEN saved[a].trigger ELSE {}

=============================================================================
