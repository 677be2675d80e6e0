------------------------------- MODULE Wakes -------------------------------
(***************************************************************************)
(* The wakes of one conversation (wake.ts) beside the turns it wakes into: *)
(* a job turn that ends is put on disk and goes, with all that waited, as  *)
(* one more turn of the session, which people's turns, other holders, a    *)
(* drain (drain.ts) and crashes keep from it.  The glue is createStrut's.  *)
(***************************************************************************)
EXTENDS Naturals, FiniteSets, Sequences

CONSTANTS Ends,      \* job turns that end naming this conversation
          Runs,      \* the ids of the turns launched on its session
          Other,     \* a holder of the session that no launch on it names
          WakeMax,   \* wake turns since the person's last turn, at most
          SeenMax,   \* ends remembered, so that one heard twice wakes once
          Templates, \* may the workflow have a params.wake (TRUE), or none (FALSE)?
          Early,     \* may an end be heard, or a drain lifted, before the boot scan?
          SlowWrite, \* may a run end while the wake file is being written?
          MaxCrashes, MaxAround   \* bounds on crashes, and on all that happens around

ASSUME WakesAssumption ==
  /\ Runs \subseteq Nat \ {0} /\ Other \notin Runs \cup {0}
  /\ Templates \subseteq BOOLEAN
  /\ {Early, SlowWrite} \subseteq BOOLEAN
  /\ {WakeMax, MaxCrashes, MaxAround} \subseteq Nat /\ SeenMax \in Nat \ {0}

VARIABLES
  \* on disk
  file,     \* wakes/<session>.json
  turns,    \* the session's turn lines, oldest first
  summary,  \* the outcome in each run's run.json
  \* the process
  up, scanned,
  kind,     \* what each run is
  carries,  \* the ends in a wake turn's prompt
  pc,       \* how far each run is
  held,     \* who holds the session
  lock,     \* who is inside the lock of the wake file, and what it will write
  anchor,   \* jobEnded calls that read the session's turns and wait for the lock
  wanted,   \* a drain of the wake file was asked for
  pending,  \* is the session known to have something queued or in flight?
  retrying, \* a retry timer runs
  draining, \* the deployment's drain is on
  \* history and bounds
  taken,    \* the ends taken on, in order
  capped, dropped, slipped, excused,
  crashes, around

disk == <<file, turns, summary>>
turnVars == <<kind, carries, pc, held>>
queueVars == <<lock, anchor, wanted, pending, retrying>>
procVars == <<up, scanned, draining>>
bounds == <<crashes, around>>
history == <<taken, capped, dropped, slipped, excused>>
vars == <<disk, procVars, turnVars, queueVars, history, bounds>>

NoRun == 0
Free == [by |-> "free"]
NoAnchor == [none |-> TRUE]

EmptyFile == [queued |-> {}, turn |-> NoRun, seen |-> <<>>]
EndsIn(s) == {s[i] : i \in DOMAIN s}
InFlight(f) == IF f.turn = NoRun THEN {} ELSE carries[f.turn]

\* liveSessions, and for these runs also `controllers`
Live(r) == pc[r] \in {"launched", "open", "committed", "final"}
LiveOn == {r \in Runs : Live(r)}
Unused == {r \in Runs : pc[r] = "unused"}

-----------------------------------------------------------------------------
Init ==
  /\ file = EmptyFile /\ turns = <<>> /\ summary = [r \in Runs |-> "none"]
  /\ up = TRUE /\ scanned = TRUE /\ draining = FALSE
  /\ kind = [r \in Runs |-> "none"] /\ carries = [r \in Runs |-> {}]
  /\ pc = [r \in Runs |-> "unused"] /\ held = NoRun
  /\ lock = Free /\ anchor = [e \in Ends |-> NoAnchor]
  /\ wanted = FALSE /\ pending = FALSE /\ retrying = FALSE
  /\ taken = <<>> /\ capped = {} /\ dropped = {} /\ slipped = {} /\ excused = 0
  /\ crashes = 0 /\ around = 0

-----------------------------------------------------------------------------
(* The turns of the session *)

\* One more of the bounded things people, hosts and nested runs do.
Around == around < MaxAround /\ around' = around + 1

NextRun == CHOOSE r \in Unused : \A q \in Unused : r <= q
NewRun(k, es) ==
  /\ kind' = [kind EXCEPT ![NextRun] = k]
  /\ carries' = [carries EXCEPT ![NextRun] = es]
  /\ pc' = [pc EXCEPT ![NextRun] = "launched"]

\* A person's turn: nothing waits for the session here.
LaunchPerson ==
  /\ up /\ ~draining /\ Unused # {} /\ Around
  /\ NewRun("person", {})
  /\ UNCHANGED <<disk, procVars, held, queueVars, history, crashes>>

Ended(r, outcome) ==
  /\ summary' = [summary EXCEPT ![r] = outcome]
  /\ pc' = [pc EXCEPT ![r] = "final"]

\* SessionsCapability.open
OpenSession(r) ==
  /\ pc[r] = "launched"
  /\ \/ /\ held = NoRun
        /\ held' = r /\ pc' = [pc EXCEPT ![r] = "open"]
        /\ UNCHANGED summary
     \/ /\ held # NoRun
        /\ Ended(r, "busy")
        /\ UNCHANGED held
  /\ UNCHANGED <<file, turns, procVars, kind, carries, queueVars, history, bounds>>

\* The turn line is in the session's file.
CommitTurn(r) ==
  /\ pc[r] = "open" /\ held = r
  /\ turns' = Append(turns, [run |-> r, wake |-> kind[r] = "wake"])
  /\ pc' = [pc EXCEPT ![r] = "committed"]
  /\ UNCHANGED <<file, summary, procVars, kind, carries, held, queueVars, history, bounds>>

\* finalize, then the disposers, one of which lets the session go.
EndRun(r) ==
  /\ \/ pc[r] = "committed" /\ Ended(r, "ok")
     \/ pc[r] \in {"launched", "open"} /\ Ended(r, "failed")
  /\ held' = IF held = r THEN NoRun ELSE held
  /\ UNCHANGED <<file, turns, procVars, kind, carries, queueVars, history, bounds>>

\* The end of launchDetached: untrack, then kick.
Untrack(r) ==
  /\ pc[r] = "final" /\ kind[r] = "person"
  /\ SlowWrite \/ lock = Free
  /\ pc' = [pc EXCEPT ![r] = "gone"]
  /\ wanted' = (wanted \/ pending)
  /\ UNCHANGED <<disk, procVars, kind, carries, held, lock, anchor, pending, retrying, history, bounds>>

\* A nested run's agent takes the session, and lets it go.
HoldOther ==
  /\ up /\ held = NoRun /\ Around
  /\ held' = Other
  /\ UNCHANGED <<disk, procVars, kind, carries, pc, queueVars, history, crashes>>

ReleaseOther ==
  /\ held = Other
  /\ held' = NoRun
  /\ UNCHANGED <<disk, procVars, kind, carries, pc, queueVars, history, bounds>>

-----------------------------------------------------------------------------
(* The wake file, read and written under its lock *)

\* write(): the file is replaced as a whole, then `pending` follows it.
Put(f) ==
  /\ file' = f
  /\ pending' = (f.queued # {} \/ f.turn # NoRun)

-----------------------------------------------------------------------------
(* jobEnded *)

\* The session's turns are read before the lock is taken.
HearEnd(e) ==
  /\ up /\ (Early \/ scanned)
  /\ anchor[e] = NoAnchor
  /\ IF e \in EndsIn(taken) THEN Around ELSE UNCHANGED around
  /\ anchor' = [anchor EXCEPT ![e] = [none |-> FALSE, turns |-> turns]]
  /\ UNCHANGED <<disk, procVars, turnVars, lock, wanted, pending, retrying, history, crashes>>

\* trailingWakes
Trailing(ts) == {i \in DOMAIN ts : \A j \in i..Len(ts) : ts[j].wake}
RunsIn(ts, lines) == {ts[i].run : i \in lines}

\* Mutant: the wake turn in flight is not counted.
WakesBeforeUncommitted(ts) == Cardinality(Trailing(ts))

\* The wake turns since the person's last turn, the one in flight included.
WakesBefore(ts) ==
  Cardinality(Trailing(ts)) +
  IF file.turn # NoRun /\ file.turn \notin RunsIn(ts, DOMAIN ts) THEN 1 ELSE 0

PersonInFlight == \E r \in LiveOn : r # file.turn

Newest(s) == IF Len(s) <= SeenMax THEN s ELSE SubSeq(s, Len(s) - SeenMax + 1, Len(s))

\* Take the end on: seen, and queued unless a turn of its own would be one too
\* many.  `excused` counts those the turn lines of now would have capped.
Admit(e) ==
  LET alone == file.queued = {}
      no == /\ alone /\ ~PersonInFlight
            /\ WakesBefore(anchor[e].turns) >= WakeMax
  IN  /\ Put([file EXCEPT !.seen = Newest(Append(@, e)), !.queued = IF no THEN @ ELSE @ \cup {e}])
      /\ wanted' = (wanted \/ ~no)
      /\ taken' = Append(taken, e)
      /\ capped' = IF no THEN capped \cup {e} ELSE capped
      /\ excused' = IF alone /\ ~no /\ WakesBefore(turns) >= WakeMax THEN excused + 1 ELSE excused

\* Mutant: an end is not looked up among those seen.
ConsiderAgain(e) ==
  /\ lock = Free /\ anchor[e] # NoAnchor
  /\ Admit(e)
  /\ anchor' = [anchor EXCEPT ![e] = NoAnchor]
  /\ UNCHANGED <<turns, summary, procVars, turnVars, lock, retrying, dropped, slipped, bounds>>

\* jobEnded in the lock: each end once.
Consider(e) ==
  /\ lock = Free /\ anchor[e] # NoAnchor
  /\ IF e \in EndsIn(file.seen)
     THEN UNCHANGED <<file, pending, wanted, taken, capped, excused>>
     ELSE Admit(e)
  /\ anchor' = [anchor EXCEPT ![e] = NoAnchor]
  /\ UNCHANGED <<turns, summary, procVars, turnVars, lock, retrying, dropped, slipped, bounds>>

-----------------------------------------------------------------------------
(* drain: launch what is queued, once the session is free *)

\* Mutant: a turn that left no summary counts as done.
AfterTurnForgetful ==
  IF summary[file.turn] = "busy"
  THEN [file EXCEPT !.turn = NoRun, !.queued = @ \cup carries[file.turn]]
  ELSE [file EXCEPT !.turn = NoRun]

\* What becomes of a turn on file that is not live: its ends go again unless
\* its run finished with anything but `session_busy`.
AfterTurn ==
  IF summary[file.turn] \in {"none", "busy"}
  THEN [file EXCEPT !.turn = NoRun, !.queued = @ \cup carries[file.turn]]
  ELSE [file EXCEPT !.turn = NoRun]

At(at, f, changed) == [by |-> "drain", at |-> at, f |-> f, changed |-> changed]
Write(f) == At("write", f, TRUE)

DrainEnter ==
  /\ wanted /\ lock = Free
  /\ wanted' = FALSE
  /\ LET changed == file.turn # NoRun
         f == IF changed THEN AfterTurn ELSE file
     IN  lock' = IF changed /\ Live(file.turn) THEN Free
                 ELSE IF f.queued # {} THEN At("check", f, changed)
                 ELSE IF changed THEN Write(f)
                 ELSE Free
  /\ UNCHANGED <<disk, procVars, turnVars, anchor, pending, retrying, history, bounds>>

Draining(at) == lock.by = "drain" /\ lock.at = at
SessionBusy == held # NoRun \/ LiveOn # {}

\* Mutant: a busy session is left to whoever kicks it.
DrainWaitsForKick ==
  /\ Draining("check") /\ SessionBusy
  /\ IF lock.changed
     THEN lock' = Write(lock.f) /\ UNCHANGED pending
     ELSE lock' = Free /\ pending' = TRUE
  /\ UNCHANGED <<disk, procVars, turnVars, anchor, wanted, retrying, history, bounds>>

\* A run launched on the session will kick; another holder is retried.
DrainWaits ==
  /\ Draining("check") /\ SessionBusy
  /\ retrying' = (retrying \/ LiveOn = {})
  /\ IF lock.changed
     THEN lock' = Write(lock.f) /\ UNCHANGED pending
     ELSE lock' = Free /\ pending' = TRUE
  /\ UNCHANGED <<disk, procVars, turnVars, anchor, wanted, history, bounds>>

\* The workflow lost its params.wake, or is disabled.
DrainDrops ==
  /\ Draining("check") /\ ~SessionBusy /\ FALSE \in Templates
  /\ lock' = Write([lock.f EXCEPT !.queued = {}])
  /\ dropped' = dropped \cup lock.f.queued
  /\ UNCHANGED <<disk, procVars, turnVars, anchor, wanted, pending, retrying, taken, capped, slipped, excused, bounds>>

\* The session was free: the prompt is made while others go on.
DrainGoes ==
  /\ Draining("check") /\ ~SessionBusy /\ TRUE \in Templates
  /\ lock' = [lock EXCEPT !.at = "launch"]
  /\ UNCHANGED <<disk, procVars, turnVars, anchor, wanted, pending, retrying, history, bounds>>

\* The launch, then the write that says so.  A drain of the deployment
\* refuses it (the error leaves the file as it is).
DrainLaunches ==
  /\ Draining("launch")
  /\ IF draining THEN lock' = Free /\ UNCHANGED <<kind, carries, pc>>
     ELSE /\ Unused # {}
          /\ NewRun("wake", lock.f.queued)
          /\ lock' = Write([lock.f EXCEPT !.queued = {}, !.turn = NextRun])
  /\ UNCHANGED <<disk, procVars, held, anchor, wanted, pending, retrying, history, bounds>>

\* Until it lands, the lock is held and nothing else knows.
DrainWrites ==
  /\ Draining("write")
  /\ Put(lock.f)
  /\ lock' = Free
  /\ UNCHANGED <<turns, summary, procVars, turnVars, anchor, wanted, retrying, history, bounds>>

RetryFires ==
  /\ retrying
  /\ retrying' = FALSE /\ wanted' = TRUE
  /\ UNCHANGED <<disk, procVars, turnVars, lock, anchor, pending, history, bounds>>

\* Mutant: the ends of a turn that lost the session to a person are let go.
AfterOwnEndForgetful(r) == [file EXCEPT !.turn = NoRun]

AfterOwnEnd(r) ==
  [file EXCEPT !.turn = NoRun, !.queued = IF summary[r] = "busy" THEN @ \cup carries[r] ELSE @]

\* The end of a wake turn, before whose untrack and kick no file is read.
TurnEnded(r) ==
  /\ pc[r] = "final" /\ kind[r] = "wake" /\ lock = Free
  /\ IF file.turn # r THEN UNCHANGED <<file, pending>> ELSE Put(AfterOwnEnd(r))
  /\ pc' = [pc EXCEPT ![r] = "gone"]
  /\ wanted' = (wanted \/ pending')
  /\ UNCHANGED <<turns, summary, procVars, kind, carries, held, lock, anchor, retrying, history, bounds>>

-----------------------------------------------------------------------------
(* The deployment's drain, crashes and boots *)

\* PUT /drain
SetDrain ==
  /\ up /\ Around
  /\ draining' = TRUE
  /\ UNCHANGED <<disk, up, scanned, turnVars, queueVars, history, crashes>>

\* Mutant: lifting launches nothing.
LiftOnly ==
  /\ draining /\ (Early \/ scanned)
  /\ draining' = FALSE
  /\ UNCHANGED <<disk, up, scanned, turnVars, queueVars, history, bounds>>

\* DELETE /drain, or the first look at a drain past its deadline: what it
\* held back is reconciled.
LiftDrain ==
  /\ draining /\ (Early \/ scanned)
  /\ draining' = FALSE
  /\ wanted' = TRUE
  /\ UNCHANGED <<disk, up, scanned, turnVars, lock, anchor, pending, retrying, history, bounds>>

\* A run whose run.start did not reach its log leaves nothing to resume.
Crash ==
  /\ up /\ crashes < MaxCrashes
  /\ up' = FALSE /\ scanned' = FALSE /\ draining' = FALSE
  /\ \E unlogged \in SUBSET {r \in Runs : pc[r] = "launched"} :
       pc' = [r \in Runs |-> IF r \in unlogged THEN "gone"
                             ELSE IF pc[r] \in {"launched", "open", "committed"} THEN "cut"
                             ELSE IF pc[r] = "final" THEN "gone"
                             ELSE pc[r]]
  /\ held' = NoRun
  /\ lock' = Free /\ anchor' = [e \in Ends |-> NoAnchor]
  /\ wanted' = FALSE /\ pending' = FALSE /\ retrying' = FALSE
  /\ slipped' = slipped \cup {r \in Runs : pc[r] = "committed"}
                 \cup IF Draining("write") THEN {lock.f.turn} \ {NoRun} ELSE {}
  /\ crashes' = crashes + 1
  /\ UNCHANGED <<disk, kind, carries, taken, capped, dropped, excused, around>>

Boot ==
  /\ ~up
  /\ up' = TRUE
  /\ UNCHANGED <<disk, scanned, draining, turnVars, queueVars, history, bounds>>

\* bootResumeRuns: the scan resumes the runs cut off, but those past their
\* restarts or parked by a person; then the wakes are reconciled.
Scan ==
  /\ up /\ ~scanned
  /\ scanned' = TRUE
  /\ \E resumed \in SUBSET {r \in Runs : pc[r] = "cut"} :
       /\ draining => resumed = {}
       /\ pc' = [r \in Runs |-> IF r \in resumed THEN "launched"
                                ELSE IF pc[r] = "cut" THEN "gone" ELSE pc[r]]
  /\ wanted' = TRUE
  /\ UNCHANGED <<disk, up, draining, kind, carries, held, lock, anchor, pending, retrying, history, bounds>>

-----------------------------------------------------------------------------
RunStep(r) == OpenSession(r) \/ CommitTurn(r) \/ EndRun(r) \/ TurnEnded(r) \/ Untrack(r)
DrainStep == DrainEnter \/ DrainWaits \/ DrainDrops \/ DrainGoes \/ DrainLaunches \/ DrainWrites

Next ==
  \/ LaunchPerson \/ HoldOther \/ ReleaseOther
  \/ \E r \in Runs : RunStep(r)
  \/ \E e \in Ends : HearEnd(e) \/ Consider(e)
  \/ DrainStep \/ RetryFires
  \/ SetDrain \/ LiftDrain \/ Crash \/ Boot \/ Scan

\* Runs go on, holders let go, a drain ends, a dead process is started again;
\* withLock serves in order, so what waits for it is strongly fair.
Fairness ==
  /\ WF_vars(\E r \in Runs : OpenSession(r) \/ CommitTurn(r) \/ EndRun(r) \/ Untrack(r))
  /\ SF_vars((\E r \in Runs : TurnEnded(r)) \/ (\E e \in Ends : Consider(e)))
  /\ SF_vars(DrainStep) /\ WF_vars(RetryFires)
  /\ WF_vars(ReleaseOther) /\ WF_vars(LiftDrain) /\ WF_vars(Boot \/ Scan)

Spec == Init /\ [][Next]_vars /\ Fairness

-----------------------------------------------------------------------------
Outcomes == {"ok", "busy", "failed"}
Files == [queued : SUBSET Ends, turn : Runs \cup {NoRun}, seen : Seq(Ends)]

\* The shape of the state: the file, the turn lines, and who is inside the file's lock.
TypeOK ==
  /\ file \in Files
  /\ turns \in Seq([run : Runs, wake : BOOLEAN])
  /\ summary \in [Runs -> Outcomes \cup {"none"}]
  /\ up \in BOOLEAN /\ scanned \in BOOLEAN /\ draining \in BOOLEAN
  /\ kind \in [Runs -> {"none", "person", "wake"}]
  /\ carries \in [Runs -> SUBSET Ends]
  /\ pc \in [Runs -> {"unused", "launched", "open", "committed", "final", "cut", "gone"}]
  /\ held \in Runs \cup {NoRun, Other}
  /\ lock.by # "free" => lock.f \in Files
  /\ wanted \in BOOLEAN /\ pending \in BOOLEAN /\ retrying \in BOOLEAN
  /\ taken \in Seq(Ends) /\ capped \subseteq Ends /\ dropped \subseteq Ends

WakeRuns == {r \in Runs : kind[r] = "wake"}
FinishedWith(e) == {r \in WakeRuns : e \in carries[r] /\ summary[r] \in {"ok", "failed"}}
Told(e) == {r \in WakeRuns : e \in carries[r] /\ r \in RunsIn(turns, DOMAIN turns)}

\* An end strut took on is on disk until a turn carried it to an end, over
\* crashes at every point between queueing, launching and removing it.
NoEndLost ==
  \A e \in EndsIn(taken) \ (capped \cup dropped) :
    \/ e \in file.queued
    \/ e \in InFlight(file)
    \/ FinishedWith(e) # {}

\* Taken on again SeenMax or more ends later: by then it was forgotten.
Forgotten == {taken[i] : i \in {k \in DOMAIN taken :
                \E j \in DOMAIN taken : taken[j] = taken[k] /\ k + SeenMax < j}}

\* The conversation hears an end in one turn, however often strut does, unless
\* SeenMax others came between.  But for turns that slipped: a crash fell
\* between their launch, or their last word, and its record.
ToldOnce == \A e \in Ends \ Forgotten : Cardinality(Told(e) \ slipped) <= 1

\* Strut answers itself at most WakeMax times before a person speaks again,
\* but for turns that slipped and ends that were excused.
CapKept == Cardinality(RunsIn(turns, Trailing(turns)) \ slipped) <= WakeMax + excused

\* wake.ts:22 as it stands: "`max` wake turns since the last person's turn (the
\* session's turn lines".
Capped == Cardinality(RunsIn(turns, Trailing(turns))) <= WakeMax

Settled(e) == e \in dropped \/ FinishedWith(e) # {}

\* An end that is queued comes to a turn that ends, or its workflow drops it.
QueuedGoes == \A e \in Ends : e \in file.queued ~> (Settled(e) \/ Unused = {})
=============================================================================
