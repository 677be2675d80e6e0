--------------------------- MODULE AgentSessions ---------------------------
(***************************************************************************)
(* One agent session: the thread its turns append to (FileSessionStore),   *)
(* the lock a turn takes (sessionsCapability), and the agent steps that    *)
(* take it, read the thread, and commit -- around failures, crashes and    *)
(* runs let go by a force-cancel while their step's body goes on.          *)
(***************************************************************************)
EXTENDS Naturals, Sequences, FiniteSets, SequencesExt

CONSTANTS Runs,      \* the runs with an agent step on this session
          Nobody,    \* no holder
          Count,     \* the messages of one turn
          LetsGo,    \* may a force-cancel let go of a run that is committing?
          Tear,      \* may the process die between truncating a file and writing it?
          MaxAround  \* bound on deletions and crashes

ASSUME AgentSessionsAssumption ==
  /\ Nobody \notin Runs /\ Count \in Nat \ {0} /\ MaxAround \in Nat
  /\ {LetsGo, Tear} \subseteq BOOLEAN

VARIABLES
  \* on disk
  system,   \* system.md: the turn that wrote it
  messages, \* messages.jsonl: the turn each line is of
  turns,    \* turns.jsonl: its turn lines
  tail,     \* how that file ends: with a newline, without one, or in what no one can parse
  dir,      \* does the session's directory exist?
  \* the process
  held,     \* who holds the session
  pc,       \* how far each run's agent step is
  try,      \* how often each run's step has been begun
  thread,   \* the turns of the thread as the step loaded it
  line,     \* the turn line an appendTurn will write
  ended,    \* runs that ended while their step's body goes on
  deleting, \* a DELETE has found no holder
  \* history and bound
  removed,  \* the turns a DELETE took, or took the thread from under
  around

files == <<system, messages, turns>>
disk == <<files, tail, dir>>
step == <<pc, try, thread, line>>
delete == <<deleting, removed>>
vars == <<disk, held, step, ended, delete, around>>

Turn(r) == <<r, try[r]>>
MessagesOf(r, n) == [i \in 1 .. n |-> Turn(r)]

NoTurn == <<>>
NoLine == [offset |-> 0, first |-> TRUE]
Turns(lines) == [k \in DOMAIN lines |-> lines[k].turn]
TotalOf(lines) == IF lines = <<>> THEN 0 ELSE Last(lines).offset + Last(lines).count

Committing == {"reading", "cutting", "rewriting", "writing", "lining", "committed"}
\* turns() parses every line of turns.jsonl: one that is a fragment, or two in one, throws.
Readable == tail # "torn"

AtWork == {"loading", "talking", "returned"} \cup Committing

-----------------------------------------------------------------------------
Init ==
  /\ system = NoTurn /\ messages = <<>> /\ turns = <<>> /\ tail = "clean" /\ dir = FALSE
  /\ held = Nobody /\ ended = {} /\ deleting = FALSE /\ removed = {}
  /\ around = 0
  /\ pc = [r \in Runs |-> "idle"] /\ try = [r \in Runs |-> 1]
  /\ thread = [r \in Runs |-> <<>>] /\ line = [r \in Runs |-> NoLine]

\* One more of the bounded things hosts and people do.
Around == around < MaxAround /\ around' = around + 1

Goes(r, from, to) == pc[r] = from /\ pc' = [pc EXCEPT ![r] = to]

\* What the step has read goes with the calls that read it.
Forgets(r) == thread' = [thread EXCEPT ![r] = <<>>] /\ line' = [line EXCEPT ![r] = NoLine]

-----------------------------------------------------------------------------
(* sessionsCapability *)

\* Mutant: the lock is taken once the thread is loaded.
OpenUnlocked(r) ==
  /\ Goes(r, "idle", "loading") /\ held' = r
  /\ UNCHANGED <<disk, try, thread, line, ended, delete, around>>

Open(r) ==
  /\ IF held = Nobody
       THEN Goes(r, "idle", "loading") /\ held' = r
       ELSE Goes(r, "idle", "failed") /\ UNCHANGED held   \* session_busy
  /\ UNCHANGED <<disk, try, thread, line, ended, delete, around>>

Released(r) == held' = IF held = r THEN Nobody ELSE held

Load(r) ==
  /\ IF Readable
       THEN /\ Goes(r, "loading", "talking") /\ UNCHANGED held
            /\ thread' = [thread EXCEPT ![r] = Turns(turns)]
       ELSE Goes(r, "loading", "failed") /\ Released(r) /\ UNCHANGED thread
  /\ UNCHANGED <<disk, try, line, ended, delete, around>>

\* Commit only while held.
Commit(r) ==
  /\ IF held = r
       THEN Goes(r, "talking", "reading") /\ UNCHANGED <<thread, line>>
       ELSE Goes(r, "talking", "failed") /\ Forgets(r)   \* session_released
  /\ UNCHANGED <<disk, held, try, ended, delete, around>>

\* The model call, or a refusal after the load, fails the step.
Fail(r) ==
  /\ Goes(r, "talking", "failed") /\ Released(r) /\ Forgets(r)
  /\ UNCHANGED <<disk, try, ended, delete, around>>

-----------------------------------------------------------------------------
(* FileSessionStore.appendTurn, one file operation a step *)

ReadTurns(r) ==
  /\ Readable /\ Goes(r, "reading", "cutting")
  /\ line' = [line EXCEPT ![r] = [offset |-> TotalOf(turns), first |-> turns = <<>>]]
  /\ UNCHANGED <<disk, held, try, thread, ended, delete, around>>

\* Mutant: what a crash left behind the last turn is kept.
ExcessIgnored(r) == FALSE

\* Lines a crash left behind an uncommitted turn.
Excess(r) == Len(messages) > line[r].offset

Cut(r) ==
  /\ Goes(r, "cutting", IF Excess(r) THEN "rewriting" ELSE "writing")
  /\ dir' = TRUE
  /\ system' = IF line[r].first THEN Turn(r) ELSE system
  /\ UNCHANGED <<messages, turns, tail, held, try, thread, line, ended, delete, around>>

\* lines.slice(0, n)
Slice(lines, n) == SubSeq(lines, 1, IF n < Len(lines) THEN n ELSE Len(lines))

Rewrite(r) ==
  /\ Goes(r, "rewriting", "writing") /\ dir
  /\ messages' = Slice(messages, line[r].offset)
  /\ UNCHANGED <<system, turns, tail, dir, held, try, thread, line, ended, delete, around>>

WriteMessages(r) ==
  /\ Goes(r, "writing", "lining") /\ dir
  /\ messages' = messages \o MessagesOf(r, Count)
  /\ UNCHANGED <<system, turns, tail, dir, held, try, thread, line, ended, delete, around>>

\* The turn line is the commit.  Behind a line without its newline it becomes one with it.
WriteLine(r) ==
  /\ Goes(r, "lining", "committed") /\ dir
  /\ turns' = Append(turns, [turn |-> Turn(r), offset |-> line[r].offset, count |-> Count,
                             after |-> thread[r]])
  /\ tail' = IF tail = "clean" THEN "clean" ELSE "torn"
  /\ Forgets(r)
  /\ UNCHANGED <<system, messages, dir, held, try, ended, delete, around>>

\* The turns cannot be read, or a DELETE took the directory away: the call fails, and the step.
CommitFails(r) ==
  /\ \E at \in {"reading", "rewriting", "writing", "lining"} :
       Goes(r, at, "failed") /\ IF at = "reading" THEN ~Readable ELSE ~dir
  /\ Released(r) /\ Forgets(r)
  /\ UNCHANGED <<disk, try, ended, delete, around>>

\* The step's finally lets the session go before the runner hears of its output.
Return(r) ==
  /\ Goes(r, "committed", "returned") /\ Released(r)
  /\ UNCHANGED <<disk, try, thread, line, ended, delete, around>>

-----------------------------------------------------------------------------
(* The run *)

\* The runner writes step.end.
Journal(r) ==
  /\ Goes(r, "returned", "done")
  /\ UNCHANGED <<disk, held, try, thread, line, ended, delete, around>>

\* A force-cancel ends the run: its disposer lets go, the step's body goes on.
ForceCancel(r) ==
  /\ r \notin ended /\ pc[r] \in AtWork \ (IF LetsGo THEN {} ELSE Committing)
  /\ ended' = ended \cup {r} /\ Released(r)
  /\ UNCHANGED <<disk, step, delete, around>>

\* DELETE /sessions: refused while held; the directory goes in a later step.
DeleteChecks ==
  /\ ~deleting /\ held = Nobody /\ Around
  /\ deleting' = TRUE
  /\ UNCHANGED <<disk, held, step, ended, removed>>

DeleteRemoves ==
  /\ deleting /\ deleting' = FALSE /\ dir' = FALSE
  /\ system' = NoTurn /\ messages' = <<>> /\ turns' = <<>> /\ tail' = "clean"
  /\ removed' = removed \cup ToSet(Turns(turns))
                  \cup {Turn(r) : r \in {q \in Runs : pc[q] \in AtWork \ {"loading"}}}
  /\ UNCHANGED <<held, step, ended, around>>

\* The process dies.  A write may be cut short, and what it appended be part of it: some of the
\* messages, a fragment of the turn line, or that line without its newline.  The runs that had not
\* ended are resumed, and a step that is not journaled is executed again.
Crash ==
  /\ Around
  /\ held' = Nobody /\ deleting' = FALSE
  /\ pc' = [r \in Runs |-> CASE pc[r] \in AtWork /\ r \notin ended -> "idle"
                             [] pc[r] \in AtWork -> "failed"
                             [] OTHER -> pc[r]]
  /\ try' = [r \in Runs |-> IF pc[r] \in AtWork THEN try[r] + 1 ELSE try[r]]
  /\ \/ UNCHANGED messages
     \/ \E r \in Runs : \E n \in 1 .. Count :
          pc[r] = "writing" /\ dir /\ messages' = messages \o MessagesOf(r, n)
     \/ Tear /\ dir /\ (\E r \in Runs : pc[r] = "rewriting") /\ messages' = <<>>
  /\ \/ UNCHANGED tail
     \/ dir /\ (\E r \in Runs : pc[r] = "lining") /\ tail' = "torn"
     \/ tail = "clean" /\ turns # <<>> /\ tail' = "open"
        /\ \E r \in Runs : pc[r] = "committed" /\ Last(turns).turn = Turn(r)
  /\ thread' = [r \in Runs |-> <<>>] /\ line' = [r \in Runs |-> NoLine]
  /\ UNCHANGED <<system, turns, dir, ended, removed>>

StepOf(r) ==
  \/ Open(r) \/ Load(r) \/ Commit(r) \/ Fail(r)
  \/ ReadTurns(r) \/ Cut(r) \/ Rewrite(r) \/ WriteMessages(r) \/ WriteLine(r) \/ CommitFails(r)
  \/ Return(r) \/ Journal(r)

Next ==
  \/ \E r \in Runs : StepOf(r) \/ ForceCancel(r)
  \/ DeleteChecks \/ DeleteRemoves \/ Crash

Spec == Init /\ [][Next]_vars

-----------------------------------------------------------------------------
(* Properties *)

Tries == Runs \X (1 .. MaxAround + 1)
TurnLines == [turn : Tries, offset : Nat, count : {Count}, after : Seq(Tries)]

\* The shape of the files and of what each step has read of them.
TypeOK ==
  /\ system \in Tries \cup {NoTurn} /\ messages \in Seq(Tries) /\ turns \in Seq(TurnLines)
  /\ tail \in {"clean", "open", "torn"}
  /\ held \in Runs \cup {Nobody} /\ ended \subseteq Runs /\ {deleting, dir} \subseteq BOOLEAN
  /\ removed \subseteq Tries /\ around \in 0 .. MaxAround
  /\ pc \in [Runs -> {"idle", "failed", "done"} \cup AtWork]
  /\ try \in [Runs -> 1 .. MaxAround + 1]
  /\ thread \in [Runs -> Seq(Tries)] /\ line \in [Runs -> [offset : Nat, first : BOOLEAN]]

\* What load gives, when a crash has not left it a turn line it cannot parse: under each turn line
\* the messages of that turn, all of them and no other's, whatever a crash left of the messages;
\* and the system prompt is the one of turn 0.  Nothing is said from a turn on that a DELETE took
\* the directory from under while it was at work.
ThreadWhole ==
  Readable => \A k \in DOMAIN turns :
    (\A j \in 1 .. k : turns[j].turn \notin removed) =>
      /\ turns[k].offset = TotalOf(SubSeq(turns, 1, k - 1))
      /\ \A i \in turns[k].offset + 1 .. turns[k].offset + turns[k].count :
           i \in DOMAIN messages /\ messages[i] = turns[k].turn
      /\ system = turns[1].turn

\* A turn continues the thread it read: no other turn came between its load and its commit.  A
\* run whose step is journaled has its turn in the thread, and one step commits again only when a
\* crash came between its commit and its step.end.  A DELETE may have taken either.  Of the lines that
\* were written, whether or not the file still parses.
TurnsContinue ==
  /\ \A k \in DOMAIN turns :
       turns[k].turn \in removed \/ turns[k].after = Turns(SubSeq(turns, 1, k - 1))
  /\ \A r \in Runs : pc[r] = "done" => Turn(r) \in ToSet(Turns(turns)) \cup removed
  /\ \A j, k \in DOMAIN turns : turns[j].turn = turns[k].turn => j = k

\* createStrut.ts:4395, "is in use by run": no session is deleted under a turn.  It may be, when a
\* turn opens it between the look at its holder and the removal.
DeleteSpares == [][turns # <<>> /\ turns' = <<>> => held = Nobody]_vars
=============================================================================
