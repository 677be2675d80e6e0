------------------------ MODULE AgentSessions_proofs ------------------------
(***************************************************************************)
(* What holds of a session's thread for any runs, any length of a turn and *)
(* any number of crashes and deletions, when a force-cancel does not let   *)
(* go of a run that commits, and no write that truncates a file is torn.   *)
(***************************************************************************)
EXTENDS AgentSessions, SequenceTheorems, TLAPS

Untorn == LetsGo = FALSE /\ Tear = FALSE

-----------------------------------------------------------------------------
(* The invariant *)

\* An attempt's number counts the crashes it lived through.
TryInv == \A r \in Runs : try[r] <= around + 1

\* Who is between its open and the end of its commit holds the session, unless
\* its run was ended under it; who commits does so in any case.
LockInv ==
  /\ \A r \in Runs : pc[r] \in Committing => held = r
  /\ \A r \in Runs : pc[r] \in {"loading", "talking"} /\ r \notin ended => held = r
  /\ \A r \in ended : held # r /\ pc[r] # "idle"

AtCommit(r) == pc[r] \in {"cutting", "rewriting", "writing", "lining"}
Holding(r) == held = r /\ (pc[r] \in {"talking", "reading"} \/ AtCommit(r))

\* What the holder read is what is there, unless a DELETE took it: then nothing is there.
FreshInv ==
  /\ \A r \in Runs : pc[r] \in {"idle", "loading"} => Turn(r) \notin removed
  /\ \A r \in Runs : Holding(r) =>
       IF Turn(r) \in removed THEN turns = <<>> ELSE thread[r] = Turns(turns)
  /\ \A r \in Runs : AtCommit(r) /\ Turn(r) \notin removed =>
       line[r] = [offset |-> TotalOf(turns), first |-> turns = <<>>]

\* A try is begun after all that was committed or deleted of its run; none is committed twice.
Overs == {"committed", "returned", "done", "failed"}
Over(r) == pc[r] \in Overs
HistInv ==
  /\ \A t \in removed : t[2] <= try[t[1]]
  /\ \A k \in DOMAIN turns :
       \/ turns[k].turn[2] < try[turns[k].turn[1]]
       \/ turns[k].turn[2] = try[turns[k].turn[1]] /\ Over(turns[k].turn[1])
  /\ \A j, k \in DOMAIN turns : turns[j].turn = turns[k].turn => j = k

DoneInv ==
  \A r \in Runs : pc[r] \in {"committed", "returned", "done"} =>
    Turn(r) \in removed \/ \E k \in DOMAIN turns : turns[k].turn = Turn(r)

AfterInv ==
  \A k \in DOMAIN turns :
    turns[k].turn \in removed \/ turns[k].after = Turns(SubSeq(turns, 1, k - 1))

\* A DELETE came in the way of no turn in the thread, or of its first.
Clean == turns # <<>> => turns[1].turn \notin removed
CleanInv == Clean => \A k \in DOMAIN turns : turns[k].turn \notin removed

At(lines, k) == IF k = 1 THEN 0 ELSE lines[k - 1].offset + lines[k - 1].count

WholeInv ==
  Clean => \A k \in DOMAIN turns :
    /\ turns[k].offset = At(turns, k)
    /\ turns[k].offset + turns[k].count <= TotalOf(turns)
    /\ \A i \in turns[k].offset + 1 .. turns[k].offset + turns[k].count :
         i \in DOMAIN messages /\ messages[i] = turns[k].turn
    /\ system = turns[1].turn

\* How far an appendTurn is with the files.
AppendInv ==
  \A r \in Runs : AtCommit(r) /\ Turn(r) \notin removed /\ Clean =>
    /\ pc[r] # "cutting" /\ turns = <<>> => system = Turn(r)
    /\ pc[r] = "writing" => Len(messages) = line[r].offset
    /\ pc[r] = "lining" =>
         /\ Len(messages) = line[r].offset + Count
         /\ \A i \in line[r].offset + 1 .. line[r].offset + Count : messages[i] = Turn(r)

IInv ==
  TypeOK /\ TryInv /\ LockInv /\ FreshInv /\ HistInv /\ DoneInv /\ AfterInv /\ CleanInv
  /\ WholeInv /\ AppendInv

-----------------------------------------------------------------------------
(* Types *)

LEMMA TurnType == ASSUME TypeOK, NEW r \in Runs PROVE Turn(r) \in Tries
BY DEF TypeOK, Turn, Tries

LEMMA MessagesType ==
  ASSUME TypeOK, NEW r \in Runs, NEW n \in Nat
  PROVE  /\ MessagesOf(r, n) \in Seq(Tries)
         /\ Len(MessagesOf(r, n)) = n
         /\ \A i \in 1 .. n : MessagesOf(r, n)[i] = Turn(r)
<1>1. MessagesOf(r, n) \in [1 .. n -> Tries]
  BY TurnType DEF MessagesOf
<1>2. MessagesOf(r, n) \in Seq(Tries)
  BY <1>1, SeqDef
<1>3. DOMAIN MessagesOf(r, n) = 1 .. n
  BY <1>1
<1> QED BY <1>2, <1>3, LenProperties DEF MessagesOf

LEMMA SliceType ==
  ASSUME NEW S, NEW lines \in Seq(S), NEW n \in Nat
  PROVE  /\ Slice(lines, n) \in Seq(S)
         /\ Len(Slice(lines, n)) = IF n < Len(lines) THEN n ELSE Len(lines)
         /\ \A i \in 1 .. Len(Slice(lines, n)) : Slice(lines, n)[i] = lines[i]
<1> DEFINE m == IF n < Len(lines) THEN n ELSE Len(lines)
<1>1. Len(lines) \in Nat /\ m \in Nat /\ m <= Len(lines)
  BY LenProperties
<1>2. \A i \in 1 .. m : lines[i] \in S
  BY <1>1, ElementOfSeq
<1>3. /\ SubSeq(lines, 1, m) \in Seq(S)
      /\ Len(SubSeq(lines, 1, m)) = m
      /\ \A i \in 1 .. m : SubSeq(lines, 1, m)[i] = lines[i]
  BY <1>1, <1>2, SubSeqProperties
<1> QED BY <1>3 DEF Slice

LEMMA TurnsType ==
  ASSUME NEW lines \in Seq(TurnLines)
  PROVE  /\ Turns(lines) \in Seq(Tries)
         /\ Len(Turns(lines)) = Len(lines)
         /\ \A k \in 1 .. Len(lines) : Turns(lines)[k] = lines[k].turn
<1>1. /\ Len(lines) \in Nat /\ DOMAIN lines = 1 .. Len(lines)
      /\ \A k \in 1 .. Len(lines) : lines[k] \in TurnLines
  BY LenProperties
<1>2. \A k \in 1 .. Len(lines) : lines[k].turn \in Tries
  BY <1>1 DEF TurnLines
<1>3. Turns(lines) \in [1 .. Len(lines) -> Tries]
  BY <1>1, <1>2 DEF Turns
<1>4. Turns(lines) \in Seq(Tries)
  BY <1>1, <1>3, SeqDef
<1> QED BY <1>1, <1>3, <1>4, LenProperties DEF Turns

LEMMA TotalType ==
  ASSUME NEW lines \in Seq(TurnLines)
  PROVE  /\ TotalOf(lines) \in Nat
         /\ lines = <<>> => TotalOf(lines) = 0
         /\ lines # <<>> => TotalOf(lines) = lines[Len(lines)].offset + lines[Len(lines)].count
<1>1. CASE lines = <<>>
  BY <1>1 DEF TotalOf
<1>2. CASE lines # <<>>
  <2>1. Len(lines) \in 1 .. Len(lines)
    BY <1>2, EmptySeq
  <2>2. lines[Len(lines)] \in TurnLines
    BY <2>1, ElementOfSeq
  <2> QED BY <1>2, <2>2, AgentSessionsAssumption DEF TotalOf, Last, TurnLines
<1> QED BY <1>1, <1>2

LEMMA InitInv == Init => IInv
<1> SUFFICES ASSUME Init PROVE IInv
  OBVIOUS
<1> USE AgentSessionsAssumption DEF Init
<1>1. TypeOK
  <2>1. /\ try \in [Runs -> 1 .. MaxAround + 1] /\ pc \in [Runs -> {"idle", "failed", "done"} \cup AtWork]
        /\ around \in 0 .. MaxAround /\ held \in Runs \cup {Nobody}
    OBVIOUS
  <2>2. /\ thread \in [Runs -> Seq(Tries)] /\ line \in [Runs -> [offset : Nat, first : BOOLEAN]]
        /\ messages \in Seq(Tries) /\ turns \in Seq(TurnLines)
    BY EmptySeq DEF NoLine
  <2> QED BY <2>1, <2>2 DEF TypeOK, NoTurn
<1>2. TryInv /\ LockInv /\ DoneInv
  BY DEF TryInv, LockInv, DoneInv, Committing
<1>3. FreshInv
  BY DEF FreshInv, Holding, AtCommit
<1>4. HistInv /\ AfterInv /\ CleanInv
  BY DEF HistInv, AfterInv, CleanInv
<1>5. WholeInv /\ AppendInv
  BY DEF WholeInv, AppendInv, AtCommit
<1> QED BY <1>1, <1>2, <1>3, <1>4, <1>5 DEF IInv

LEMMA TypeNext == ASSUME TypeOK, TryInv, [Next]_vars PROVE TypeOK' /\ TryInv'
<1> USE AgentSessionsAssumption DEF TypeOK, TryInv, disk, files, step, delete, AtWork, Committing
<1>0. <<>> \in Seq(Tries) /\ <<>> \in Seq(TurnLines)
  BY EmptySeq
<1>1. ASSUME NEW r \in Runs, StepOf(r) PROVE TypeOK' /\ TryInv'
  <2> USE DEF Goes, Released, Forgets, NoLine
  <2>1. CASE Open(r)
    BY <2>1 DEF Open
  <2>2. CASE Load(r)
    BY <2>2, TurnsType DEF Load
  <2>3. CASE Commit(r)
    <3>1. CASE held = r
      <4>1. pc' = [pc EXCEPT ![r] = "reading"] /\ thread' = thread /\ line' = line
        BY <2>3, <3>1 DEF Commit
      <4> QED BY <2>3, <4>1 DEF Commit
    <3>2. CASE held # r
      <4>1. /\ pc' = [pc EXCEPT ![r] = "failed"] /\ thread' = [thread EXCEPT ![r] = <<>>]
            /\ line' = [line EXCEPT ![r] = NoLine]
        BY <2>3, <3>2 DEF Commit
      <4> QED BY <1>0, <2>3, <4>1 DEF Commit
    <3> QED BY <3>1, <3>2
  <2>4. CASE Fail(r)
    BY <1>0, <2>4 DEF Fail
  <2>5. CASE ReadTurns(r)
    BY <2>5, TotalType DEF ReadTurns
  <2>6. CASE Cut(r)
    BY <2>6, TurnType DEF Cut
  <2>7. CASE Rewrite(r)
    <3>1. Slice(messages, line[r].offset) \in Seq(Tries)
      BY SliceType
    <3> QED BY <2>7, <3>1 DEF Rewrite
  <2>8. CASE WriteMessages(r)
    <3>1. messages \o MessagesOf(r, Count) \in Seq(Tries)
      BY MessagesType, ConcatProperties
    <3> QED BY <2>8, <3>1 DEF WriteMessages
  <2>9. CASE WriteLine(r)
    <3>1. [turn |-> Turn(r), offset |-> line[r].offset, count |-> Count, after |-> thread[r]] \in TurnLines
      BY TurnType DEF TurnLines
    <3> QED BY <1>0, <2>9, <3>1 DEF WriteLine
  <2>10. CASE CommitFails(r)
    BY <1>0, <2>10 DEF CommitFails
  <2>11. CASE Return(r)
    BY <2>11 DEF Return
  <2>12. CASE Journal(r)
    BY <2>12 DEF Journal
  <2> QED BY <1>1, <2>1, <2>2, <2>3, <2>4, <2>5, <2>6, <2>7, <2>8, <2>9, <2>10, <2>11, <2>12 DEF StepOf
<1>2. ASSUME NEW r \in Runs, ForceCancel(r) PROVE TypeOK' /\ TryInv'
  BY <1>2 DEF ForceCancel, Released
<1>3. CASE DeleteChecks
  BY <1>3 DEF DeleteChecks, Around
<1>4. CASE DeleteRemoves
  <2>1. removed' \subseteq Tries
    <3>1. ToSet(Turns(turns)) \subseteq Tries
      BY TurnsType, LenProperties DEF ToSet
    <3> QED BY <1>4, <3>1, TurnType DEF DeleteRemoves
  <2> QED BY <1>0, <1>4, <2>1 DEF DeleteRemoves, NoTurn
<1>5. CASE Crash
  <2>1. /\ around' = around + 1 /\ around < MaxAround
        /\ try' = [r \in Runs |-> IF pc[r] \in AtWork THEN try[r] + 1 ELSE try[r]]
    BY <1>5 DEF Crash, Around
  <2>2. try' \in [Runs -> 1 .. MaxAround + 1] /\ TryInv'
    BY <2>1
  <2>3. messages' \in Seq(Tries)
    <3>1. ASSUME NEW r \in Runs, NEW n \in 1 .. Count
          PROVE  messages \o MessagesOf(r, n) \in Seq(Tries)
      <4>1. n \in Nat
        OBVIOUS
      <4> QED BY <4>1, MessagesType, ConcatProperties
    <3>2. \/ messages' = messages
          \/ messages' = <<>>
          \/ \E r \in Runs : \E n \in 1 .. Count : messages' = messages \o MessagesOf(r, n)
      BY <1>5 DEF Crash
    <3>3. messages \in Seq(Tries)
      OBVIOUS
    <3> HIDE DEF TypeOK
    <3> QED BY <1>0, <3>1, <3>2, <3>3
  <2>4. pc' \in [Runs -> {"idle", "failed", "done"} \cup AtWork]
    BY <1>5 DEF Crash
  <2>5. thread' \in [Runs -> Seq(Tries)] /\ line' \in [Runs -> [offset : Nat, first : BOOLEAN]]
    BY <1>0, <1>5 DEF Crash, NoLine
  <2>6. /\ held' = Nobody /\ deleting' = FALSE
        /\ UNCHANGED <<system, turns, dir, ended, removed>> /\ tail' \in {tail, "torn", "open"}
    BY <1>5 DEF Crash
  <2>7. around' \in 0 .. MaxAround
    BY <2>1
  <2>8. TypeOK'
    BY <2>2, <2>3, <2>4, <2>5, <2>6, <2>7
  <2> QED BY <2>2, <2>8
<1>6. CASE UNCHANGED vars
  BY <1>6 DEF vars
<1> QED BY <1>1, <1>2, <1>3, <1>4, <1>5, <1>6 DEF Next

-----------------------------------------------------------------------------
(* The lock, and the tries *)

LEMMA LineWritten ==
  ASSUME TypeOK, NEW r \in Runs, WriteLine(r)
  PROVE  /\ Len(turns) \in Nat /\ DOMAIN turns = 1 .. Len(turns)
         /\ turns' # <<>> /\ Len(turns') = Len(turns) + 1 /\ DOMAIN turns' = 1 .. Len(turns) + 1
         /\ \A k \in DOMAIN turns : turns'[k] = turns[k]
         /\ turns'[Len(turns) + 1].turn = Turn(r)
         /\ turns'[Len(turns) + 1].offset = line[r].offset
         /\ turns'[Len(turns) + 1].count = Count
         /\ turns'[Len(turns) + 1].after = thread[r]
<1> DEFINE new == [turn |-> Turn(r), offset |-> line[r].offset, count |-> Count, after |-> thread[r]]
<1>1. turns \in Seq(TurnLines) /\ turns' = Append(turns, new)
  BY DEF TypeOK, WriteLine
<1>2. new \in TurnLines
  BY TurnType DEF TypeOK, TurnLines
<1>3. turns' \in Seq(TurnLines)
  BY <1>1, <1>2
<1> HIDE DEF new
<1>4. Len(turns') = Len(turns) + 1 /\ turns'[Len(turns) + 1] = new
  BY <1>1, <1>2
<1>5. \A k \in 1 .. Len(turns) : turns'[k] = turns[k]
  BY <1>1, <1>2
<1> QED BY <1>1, <1>3, <1>4, <1>5, LenProperties, EmptySeq DEF new

\* Only a holder commits, and a run that ended does not hold.
LEMMA LockNext == ASSUME Untorn, TypeOK, LockInv, [Next]_vars PROVE LockInv'
<1> USE AgentSessionsAssumption DEF TypeOK, LockInv, Untorn, disk, files, step, delete, AtWork, Committing
<1>1. ASSUME NEW r \in Runs, StepOf(r) PROVE LockInv'
  <2> USE DEF Goes, Released, Forgets
  <2>1. CASE Open(r)
    BY <2>1 DEF Open
  <2>2. CASE Load(r)
    BY <2>2 DEF Load
  <2>3. CASE Commit(r)
    BY <2>3 DEF Commit
  <2>4. CASE Fail(r)
    BY <2>4 DEF Fail
  <2>5. CASE ReadTurns(r)
    BY <2>5 DEF ReadTurns
  <2>6. CASE Cut(r)
    BY <2>6 DEF Cut
  <2>7. CASE Rewrite(r)
    BY <2>7 DEF Rewrite
  <2>8. CASE WriteMessages(r)
    BY <2>8 DEF WriteMessages
  <2>9. CASE WriteLine(r)
    BY <2>9 DEF WriteLine
  <2>10. CASE CommitFails(r)
    BY <2>10 DEF CommitFails
  <2>11. CASE Return(r)
    BY <2>11 DEF Return
  <2>12. CASE Journal(r)
    BY <2>12 DEF Journal
  <2> QED BY <1>1, <2>1, <2>2, <2>3, <2>4, <2>5, <2>6, <2>7, <2>8, <2>9, <2>10, <2>11, <2>12 DEF StepOf
<1>2. ASSUME NEW r \in Runs, ForceCancel(r) PROVE LockInv'
  BY <1>2 DEF ForceCancel, Released
<1>3. CASE DeleteChecks
  BY <1>3 DEF DeleteChecks
<1>4. CASE DeleteRemoves
  BY <1>4 DEF DeleteRemoves
<1>5. CASE Crash
  BY <1>5 DEF Crash
<1>6. CASE UNCHANGED vars
  BY <1>6 DEF vars
<1> QED BY <1>1, <1>2, <1>3, <1>4, <1>5, <1>6 DEF Next

\* A step that returned, and was not journaled, has its turn in the thread.
LEMMA DoneNext == ASSUME TypeOK, DoneInv, [Next]_vars PROVE DoneInv'
<1> USE AgentSessionsAssumption DEF TypeOK, DoneInv, Turn, disk, files, step, delete, AtWork, Committing
<1>1. ASSUME NEW r \in Runs, StepOf(r) PROVE DoneInv'
  <2> USE DEF Goes
  <2>1. CASE Open(r)
    BY <2>1 DEF Open
  <2>2. CASE Load(r)
    BY <2>2 DEF Load
  <2>3. CASE Commit(r)
    BY <2>3 DEF Commit
  <2>4. CASE Fail(r)
    BY <2>4 DEF Fail
  <2>5. CASE ReadTurns(r)
    BY <2>5 DEF ReadTurns
  <2>6. CASE Cut(r)
    BY <2>6 DEF Cut
  <2>7. CASE Rewrite(r)
    BY <2>7 DEF Rewrite
  <2>8. CASE WriteMessages(r)
    BY <2>8 DEF WriteMessages
  <2>9. CASE WriteLine(r)
    <3>1. pc' = [pc EXCEPT ![r] = "committed"] /\ removed' = removed /\ try' = try
      BY <2>9 DEF WriteLine
    <3>2. /\ Len(turns) \in Nat /\ DOMAIN turns = 1 .. Len(turns) /\ DOMAIN turns' = 1 .. Len(turns) + 1
          /\ \A k \in DOMAIN turns : turns'[k] = turns[k]
          /\ turns'[Len(turns) + 1].turn = Turn(r)
      BY <2>9, LineWritten, Zenon
    <3>3. /\ Len(turns) + 1 \in DOMAIN turns'
          /\ \A k \in DOMAIN turns : k \in DOMAIN turns'
      BY <3>2
    <3> QED BY <3>1, <3>2, <3>3
  <2>10. CASE CommitFails(r)
    BY <2>10 DEF CommitFails
  <2>11. CASE Return(r)
    BY <2>11 DEF Return
  <2>12. CASE Journal(r)
    BY <2>12 DEF Journal
  <2> QED BY <1>1, <2>1, <2>2, <2>3, <2>4, <2>5, <2>6, <2>7, <2>8, <2>9, <2>10, <2>11, <2>12 DEF StepOf
<1>2. ASSUME NEW r \in Runs, ForceCancel(r) PROVE DoneInv'
  BY <1>2 DEF ForceCancel
<1>3. CASE DeleteChecks
  BY <1>3 DEF DeleteChecks
<1>4. CASE DeleteRemoves
  <2>1. \A k \in DOMAIN turns : turns[k].turn \in ToSet(Turns(turns))
    BY DEF ToSet, Turns
  <2>2. /\ \A k \in DOMAIN turns : turns[k].turn \in removed'
        /\ removed \subseteq removed'
        /\ \A r \in Runs : pc[r] \in {"committed", "returned"} => Turn(r) \in removed'
        /\ pc' = pc /\ try' = try
    BY <1>4, <2>1 DEF DeleteRemoves
  <2> HIDE DEF TypeOK
  <2> QED BY <2>2
<1>5. CASE Crash
  BY <1>5 DEF Crash
<1>6. CASE UNCHANGED vars
  BY <1>6 DEF vars
<1> QED BY <1>1, <1>2, <1>3, <1>4, <1>5, <1>6 DEF Next

\* Only the first turn of a thread may have lost its directory.
LEMMA CleanNext == ASSUME Untorn, TypeOK, LockInv, FreshInv, CleanInv, [Next]_vars PROVE CleanInv'
<1> USE AgentSessionsAssumption DEF TypeOK, LockInv, CleanInv, Clean, Turn, disk, files, step, delete, Committing
<1>1. ASSUME NEW r \in Runs, StepOf(r) PROVE CleanInv'
  <2> USE DEF Goes
  <2>1. CASE Open(r)
    BY <2>1 DEF Open
  <2>2. CASE Load(r)
    BY <2>2 DEF Load
  <2>3. CASE Commit(r)
    BY <2>3 DEF Commit
  <2>4. CASE Fail(r)
    BY <2>4 DEF Fail
  <2>5. CASE ReadTurns(r)
    BY <2>5 DEF ReadTurns
  <2>6. CASE Cut(r)
    BY <2>6 DEF Cut
  <2>7. CASE Rewrite(r)
    BY <2>7 DEF Rewrite
  <2>8. CASE WriteMessages(r)
    BY <2>8 DEF WriteMessages
  <2>9. CASE WriteLine(r)
    <3>0. removed' = removed
      BY <2>9 DEF WriteLine
    <3> HIDE DEF TypeOK, CleanInv, Clean, Turn, LockInv
    <3>1. /\ turns'[Len(turns) + 1].turn = Turn(r)
          /\ DOMAIN turns' = 1 .. Len(turns) + 1 /\ DOMAIN turns = 1 .. Len(turns)
          /\ \A k \in DOMAIN turns : turns'[k] = turns[k]
          /\ turns' # <<>> /\ Len(turns) \in Nat
      BY <2>9, LineWritten
    <3>2. Turn(r) \in removed => turns = <<>>
      BY <2>9 DEF WriteLine, FreshInv, Holding, AtCommit, LockInv
    <3>3. turns = <<>> => Len(turns) = 0
      OBVIOUS
    <3>4. turns # <<>> => 1 \in DOMAIN turns
      BY EmptySeq, LenProperties DEF TypeOK
    <3>5. CASE turns = <<>>
      BY <3>0, <3>1, <3>3, <3>5 DEF CleanInv, Clean
    <3>6. CASE turns # <<>>
      BY <3>0, <3>1, <3>2, <3>4, <3>6 DEF CleanInv, Clean
    <3> QED BY <3>5, <3>6
  <2>10. CASE CommitFails(r)
    BY <2>10 DEF CommitFails
  <2>11. CASE Return(r)
    BY <2>11 DEF Return
  <2>12. CASE Journal(r)
    BY <2>12 DEF Journal
  <2> QED BY <1>1, <2>1, <2>2, <2>3, <2>4, <2>5, <2>6, <2>7, <2>8, <2>9, <2>10, <2>11, <2>12 DEF StepOf
<1>2. ASSUME NEW r \in Runs, ForceCancel(r) PROVE CleanInv'
  BY <1>2 DEF ForceCancel
<1>3. CASE DeleteChecks
  BY <1>3 DEF DeleteChecks
<1>4. CASE DeleteRemoves
  BY <1>4 DEF DeleteRemoves
<1>5. CASE Crash
  BY <1>5 DEF Crash
<1>6. CASE UNCHANGED vars
  BY <1>6 DEF vars
<1> QED BY <1>1, <1>2, <1>3, <1>4, <1>5, <1>6 DEF Next

LEMMA TurnOf ==
  ASSUME TypeOK
  PROVE  /\ \A k \in DOMAIN turns : turns[k].turn \in Tries /\ turns[k].turn[1] \in Runs
                                    /\ turns[k].turn[2] \in Nat
         /\ \A r \in Runs : Turn(r)[1] = r /\ Turn(r)[2] = try[r] /\ try[r] \in Nat
         /\ \A t \in Tries : t[1] \in Runs /\ t[2] \in Nat
<1>1. \A t \in Tries : t[1] \in Runs /\ t[2] \in Nat
  BY DEF Tries
<1>2. \A k \in DOMAIN turns : turns[k] \in TurnLines
  BY LenProperties DEF TypeOK
<1> QED BY <1>1, <1>2 DEF TypeOK, TurnLines, Turn

\* The steps that commit, delete and restart nothing.
LEMMA HistKept ==
  ASSUME TypeOK, HistInv, UNCHANGED <<turns, removed, try>>,
         \A r \in Runs : Over(r) => Over(r)'
  PROVE  HistInv'
BY TurnOf DEF HistInv

\* A try that was committed or deleted is not begun again.
LEMMA HistNext == ASSUME TypeOK, HistInv, [Next]_vars PROVE HistInv'
<1> USE AgentSessionsAssumption DEF disk, files, step, delete, AtWork, Committing
<1>1. ASSUME NEW r \in Runs, StepOf(r) PROVE HistInv'
  <2> USE DEF Goes
  <2>1. CASE Open(r)
    <3>1. UNCHANGED <<turns, removed, try>> /\ \A q \in Runs : Over(q) => Over(q)'
      BY <2>1 DEF Open, Over, Overs, TypeOK
    <3> QED BY <3>1, HistKept
  <2>2. CASE Load(r)
    <3>1. UNCHANGED <<turns, removed, try>> /\ \A q \in Runs : Over(q) => Over(q)'
      BY <2>2 DEF Load, Over, Overs, TypeOK
    <3> QED BY <3>1, HistKept
  <2>3. CASE Commit(r)
    <3>1. UNCHANGED <<turns, removed, try>> /\ \A q \in Runs : Over(q) => Over(q)'
      BY <2>3 DEF Commit, Over, Overs, TypeOK
    <3> QED BY <3>1, HistKept
  <2>4. CASE Fail(r)
    <3>1. UNCHANGED <<turns, removed, try>> /\ \A q \in Runs : Over(q) => Over(q)'
      BY <2>4 DEF Fail, Over, Overs, TypeOK
    <3> QED BY <3>1, HistKept
  <2>5. CASE ReadTurns(r)
    <3>1. UNCHANGED <<turns, removed, try>> /\ \A q \in Runs : Over(q) => Over(q)'
      BY <2>5 DEF ReadTurns, Over, Overs, TypeOK
    <3> QED BY <3>1, HistKept
  <2>6. CASE Cut(r)
    <3>1. UNCHANGED <<turns, removed, try>> /\ \A q \in Runs : Over(q) => Over(q)'
      BY <2>6 DEF Cut, Over, Overs, TypeOK
    <3> QED BY <3>1, HistKept
  <2>7. CASE Rewrite(r)
    <3>1. UNCHANGED <<turns, removed, try>> /\ \A q \in Runs : Over(q) => Over(q)'
      BY <2>7 DEF Rewrite, Over, Overs, TypeOK
    <3> QED BY <3>1, HistKept
  <2>8. CASE WriteMessages(r)
    <3>1. UNCHANGED <<turns, removed, try>> /\ \A q \in Runs : Over(q) => Over(q)'
      BY <2>8 DEF WriteMessages, Over, Overs, TypeOK
    <3> QED BY <3>1, HistKept
  <2>9. CASE WriteLine(r)
    <3>1. removed' = removed /\ try' = try /\ pc' = [pc EXCEPT ![r] = "committed"] /\ pc[r] = "lining"
      BY <2>9 DEF WriteLine
    <3>2. /\ turns'[Len(turns) + 1].turn = Turn(r)
          /\ DOMAIN turns' = 1 .. Len(turns) + 1 /\ DOMAIN turns = 1 .. Len(turns)
          /\ \A k \in DOMAIN turns : turns'[k] = turns[k]
          /\ Len(turns) \in Nat
      BY <2>9, LineWritten
    <3>3. \A q \in Runs : (Over(q) => Over(q)') /\ Over(r)' /\ ~Over(r)
      BY <3>1 DEF TypeOK, Over, Overs
    <3>4. \A k \in DOMAIN turns : turns[k].turn # Turn(r)
      BY <3>3, TurnOf DEF HistInv
    <3>5. \A k \in DOMAIN turns' : k \in DOMAIN turns \/ k = Len(turns) + 1
      BY <3>2
    <3>6. \A j, k \in DOMAIN turns' : turns'[j].turn = turns'[k].turn => j = k
      BY <3>2, <3>4, <3>5 DEF HistInv
    <3>8. \A q \in Runs : (Over(q) => pc'[q] \in Overs) /\ pc'[r] \in Overs
      BY <3>3 DEF Over
    <3>7. \A k \in DOMAIN turns' :
            \/ turns'[k].turn[2] < try[turns'[k].turn[1]]
            \/ turns'[k].turn[2] = try[turns'[k].turn[1]] /\ pc'[turns'[k].turn[1]] \in Overs
      BY <3>1, <3>2, <3>8, <3>5, TurnOf DEF HistInv
    <3> QED BY <3>1, <3>6, <3>7 DEF HistInv, Over
  <2>10. CASE CommitFails(r)
    <3>1. UNCHANGED <<turns, removed, try>> /\ \A q \in Runs : Over(q) => Over(q)'
      BY <2>10 DEF CommitFails, Over, Overs, TypeOK
    <3> QED BY <3>1, HistKept
  <2>11. CASE Return(r)
    <3>1. UNCHANGED <<turns, removed, try>> /\ \A q \in Runs : Over(q) => Over(q)'
      BY <2>11 DEF Return, Over, Overs, TypeOK
    <3> QED BY <3>1, HistKept
  <2>12. CASE Journal(r)
    <3>1. UNCHANGED <<turns, removed, try>> /\ \A q \in Runs : Over(q) => Over(q)'
      BY <2>12 DEF Journal, Over, Overs, TypeOK
    <3> QED BY <3>1, HistKept
  <2> QED BY <1>1, <2>1, <2>2, <2>3, <2>4, <2>5, <2>6, <2>7, <2>8, <2>9, <2>10, <2>11, <2>12 DEF StepOf
<1>2. ASSUME NEW r \in Runs, ForceCancel(r) PROVE HistInv'
  BY <1>2, HistKept DEF ForceCancel, Over, Overs
<1>3. CASE DeleteChecks
  BY <1>3, HistKept DEF DeleteChecks, Over, Overs
<1>4. CASE DeleteRemoves
  <2>1. \A t \in ToSet(Turns(turns)) : \E k \in DOMAIN turns : t = turns[k].turn
    BY DEF ToSet, Turns
  <2>2. /\ try' = try /\ turns' = <<>>
        /\ removed' = removed \cup ToSet(Turns(turns))
                       \cup {Turn(r) : r \in {q \in Runs : pc[q] \in AtWork \ {"loading"}}}
    BY <1>4 DEF DeleteRemoves
  <2>3. \A t \in ToSet(Turns(turns)) : t[2] <= try[t[1]]
    BY <2>1, TurnOf DEF HistInv
  <2>4. \A r \in Runs : Turn(r)[2] <= try[Turn(r)[1]]
    BY TurnOf
  <2>5. \A t \in removed' : t[2] <= try'[t[1]]
    BY <2>2, <2>3, <2>4 DEF HistInv
  <2> QED BY <2>2, <2>5 DEF HistInv
<1>5. CASE Crash
  <2>1. /\ UNCHANGED <<turns, removed>>
        /\ try' = [r \in Runs |-> IF pc[r] \in AtWork THEN try[r] + 1 ELSE try[r]]
        /\ pc' = [r \in Runs |-> CASE pc[r] \in AtWork /\ r \notin ended -> "idle"
                                   [] pc[r] \in AtWork -> "failed"
                                   [] OTHER -> pc[r]]
    BY <1>5 DEF Crash
  <2>2. \A r \in Runs : /\ pc[r] \in AtWork => try'[r] = try[r] + 1
                        /\ pc[r] \notin AtWork => try'[r] = try[r] /\ (Over(r) => pc'[r] \in Overs)
    BY <2>1 DEF Over, Overs
  <2>3. \A r \in Runs : try[r] \in Nat /\ try'[r] \in Nat
    BY <2>2, TurnOf
  <2>4. \A t \in removed : t[1] \in Runs /\ t[2] \in Nat
    BY TurnOf DEF TypeOK
  <2>5. \A t \in removed' : t[2] <= try'[t[1]]
    BY <2>1, <2>2, <2>3, <2>4 DEF HistInv
  <2>6. \A k \in DOMAIN turns' :
            \/ turns'[k].turn[2] < try'[turns'[k].turn[1]]
            \/ turns'[k].turn[2] = try'[turns'[k].turn[1]] /\ pc'[turns'[k].turn[1]] \in Overs
    BY <2>1, <2>2, <2>3, TurnOf DEF HistInv
  <2> QED BY <2>1, <2>5, <2>6 DEF HistInv, Over
<1>6. CASE UNCHANGED vars
  BY <1>6, HistKept DEF vars, Over, Overs
<1> QED BY <1>1, <1>2, <1>3, <1>4, <1>5, <1>6 DEF Next

-----------------------------------------------------------------------------
(* What the holder read, and what it writes *)

\* The steps that leave the thread, and who holds it, alone.
LEMMA FreshKept ==
  ASSUME FreshInv, UNCHANGED <<turns, removed, try>>,
         \A r \in Runs : Holding(r)' => Holding(r) /\ thread'[r] = thread[r],
         \A r \in Runs : AtCommit(r)' => AtCommit(r) /\ line'[r] = line[r],
         \A r \in Runs : pc'[r] \in {"idle", "loading"} => pc[r] \in {"idle", "loading"}
  PROVE  FreshInv'
BY DEF FreshInv, Turn

\* What the holder read is what is there.
LEMMA FreshNext == ASSUME Untorn, TypeOK, LockInv, FreshInv, HistInv, [Next]_vars PROVE FreshInv'
<1> USE AgentSessionsAssumption DEF disk, files, step, delete, AtWork, Committing
<1>1. ASSUME NEW r \in Runs, StepOf(r) PROVE FreshInv'
  <2> USE DEF Goes, Released, Forgets
  <2>1. CASE Open(r)
    <3>1. /\ UNCHANGED <<turns, removed, try>>
          /\ \A q \in Runs : Holding(q)' => Holding(q) /\ thread'[q] = thread[q]
          /\ \A q \in Runs : AtCommit(q)' => AtCommit(q) /\ line'[q] = line[q]
          /\ \A q \in Runs : pc'[q] \in {"idle", "loading"} => pc[q] \in {"idle", "loading"}
      BY <2>1 DEF Open, Holding, AtCommit, TypeOK, LockInv
    <3> QED BY <3>1, FreshKept
  <2>2. CASE Load(r)
    <3> DEFINE Kept == /\ UNCHANGED <<turns, removed, try>>
                       /\ \A q \in Runs : Holding(q)' => Holding(q) /\ thread'[q] = thread[q]
                       /\ \A q \in Runs : AtCommit(q)' => AtCommit(q) /\ line'[q] = line[q]
                       /\ \A q \in Runs : pc'[q] \in {"idle", "loading"} => pc[q] \in {"idle", "loading"}
    <3>a. CASE ~Readable
      <4>1. Kept
        BY <2>2, <3>a DEF Load, Holding, AtCommit, TypeOK, LockInv
      <4> QED BY <4>1, FreshKept
    <3>b. CASE Readable
      <4>1. /\ UNCHANGED <<turns, removed, try, line>> /\ pc[r] = "loading"
            /\ thread' = [thread EXCEPT ![r] = Turns(turns)] /\ pc' = [pc EXCEPT ![r] = "talking"]
        BY <2>2, <3>b DEF Load
      <4>2. \A q \in Runs : q # r /\ Holding(q)' => Holding(q) /\ thread'[q] = thread[q]
        BY <2>2, <3>b, <4>1 DEF Load, Holding, AtCommit, TypeOK
      <4>3. \A q \in Runs : AtCommit(q)' => AtCommit(q)
        BY <4>1 DEF AtCommit, TypeOK
      <4>4. thread'[r] = Turns(turns) /\ Turn(r) \notin removed
        BY <4>1 DEF TypeOK, FreshInv
      <4>5. \A q \in Runs : Turn(q)' = Turn(q)
        BY <4>1 DEF Turn
      <4>6. \A q \in Runs : pc'[q] \in {"idle", "loading"} => pc[q] \in {"idle", "loading"}
        BY <4>1 DEF TypeOK
      <4> QED BY <4>1, <4>2, <4>3, <4>4, <4>5, <4>6 DEF FreshInv
    <3> QED BY <3>a, <3>b
  <2>3. CASE Commit(r)
    <3>1. /\ UNCHANGED <<turns, removed, try>>
          /\ \A q \in Runs : Holding(q)' => Holding(q) /\ thread'[q] = thread[q]
          /\ \A q \in Runs : AtCommit(q)' => AtCommit(q) /\ line'[q] = line[q]
          /\ \A q \in Runs : pc'[q] \in {"idle", "loading"} => pc[q] \in {"idle", "loading"}
      BY <2>3 DEF Commit, Holding, AtCommit, TypeOK, LockInv
    <3> QED BY <3>1, FreshKept
  <2>4. CASE Fail(r)
    <3>1. /\ UNCHANGED <<turns, removed, try>>
          /\ \A q \in Runs : Holding(q)' => Holding(q) /\ thread'[q] = thread[q]
          /\ \A q \in Runs : AtCommit(q)' => AtCommit(q) /\ line'[q] = line[q]
          /\ \A q \in Runs : pc'[q] \in {"idle", "loading"} => pc[q] \in {"idle", "loading"}
      BY <2>4 DEF Fail, Holding, AtCommit, TypeOK, LockInv
    <3> QED BY <3>1, FreshKept
  <2>5. CASE ReadTurns(r)
    <3>1. /\ UNCHANGED <<turns, removed, try, thread, held>> /\ pc[r] = "reading"
          /\ line' = [line EXCEPT ![r] = [offset |-> TotalOf(turns), first |-> turns = <<>>]]
          /\ pc' = [pc EXCEPT ![r] = "cutting"]
      BY <2>5 DEF ReadTurns
    <3>2. \A q \in Runs : Holding(q)' => Holding(q)
      BY <3>1 DEF Holding, AtCommit, TypeOK
    <3>3. \A q \in Runs : q # r /\ AtCommit(q)' => AtCommit(q) /\ line'[q] = line[q]
      BY <3>1 DEF AtCommit, TypeOK
    <3>4. line'[r] = [offset |-> TotalOf(turns), first |-> turns = <<>>]
      BY <3>1 DEF TypeOK
    <3>5. \A q \in Runs : Turn(q)' = Turn(q)
      BY <3>1 DEF Turn
    <3>6. \A q \in Runs : pc'[q] \in {"idle", "loading"} => pc[q] \in {"idle", "loading"}
      BY <3>1 DEF TypeOK
    <3> QED BY <3>1, <3>2, <3>3, <3>4, <3>5, <3>6 DEF FreshInv
  <2>6. CASE Cut(r)
    <3>1. /\ UNCHANGED <<turns, removed, try>>
          /\ \A q \in Runs : Holding(q)' => Holding(q) /\ thread'[q] = thread[q]
          /\ \A q \in Runs : AtCommit(q)' => AtCommit(q) /\ line'[q] = line[q]
          /\ \A q \in Runs : pc'[q] \in {"idle", "loading"} => pc[q] \in {"idle", "loading"}
      BY <2>6 DEF Cut, Holding, AtCommit, TypeOK, LockInv
    <3> QED BY <3>1, FreshKept
  <2>7. CASE Rewrite(r)
    <3>1. /\ UNCHANGED <<turns, removed, try>>
          /\ \A q \in Runs : Holding(q)' => Holding(q) /\ thread'[q] = thread[q]
          /\ \A q \in Runs : AtCommit(q)' => AtCommit(q) /\ line'[q] = line[q]
          /\ \A q \in Runs : pc'[q] \in {"idle", "loading"} => pc[q] \in {"idle", "loading"}
      BY <2>7 DEF Rewrite, Holding, AtCommit, TypeOK, LockInv
    <3> QED BY <3>1, FreshKept
  <2>8. CASE WriteMessages(r)
    <3>1. /\ UNCHANGED <<turns, removed, try>>
          /\ \A q \in Runs : Holding(q)' => Holding(q) /\ thread'[q] = thread[q]
          /\ \A q \in Runs : AtCommit(q)' => AtCommit(q) /\ line'[q] = line[q]
          /\ \A q \in Runs : pc'[q] \in {"idle", "loading"} => pc[q] \in {"idle", "loading"}
      BY <2>8 DEF WriteMessages, Holding, AtCommit, TypeOK, LockInv
    <3> QED BY <3>1, FreshKept
  <2>9. CASE WriteLine(r)
    <3>1. /\ UNCHANGED <<removed, try, held>> /\ pc[r] = "lining" /\ held = r
          /\ pc' = [pc EXCEPT ![r] = "committed"]
      BY <2>9 DEF WriteLine, LockInv
    <3>2. \A q \in Runs : ~Holding(q)' /\ ~AtCommit(q)'
      BY <3>1 DEF Holding, AtCommit, TypeOK, LockInv
    <3>3. \A q \in Runs : pc'[q] \in {"idle", "loading"} => pc[q] \in {"idle", "loading"}
      BY <3>1 DEF TypeOK
    <3>4. \A q \in Runs : Turn(q)' = Turn(q)
      BY <3>1 DEF Turn
    <3> QED BY <3>1, <3>2, <3>3, <3>4 DEF FreshInv
  <2>10. CASE CommitFails(r)
    <3>1. /\ UNCHANGED <<turns, removed, try>>
          /\ \A q \in Runs : Holding(q)' => Holding(q) /\ thread'[q] = thread[q]
          /\ \A q \in Runs : AtCommit(q)' => AtCommit(q) /\ line'[q] = line[q]
          /\ \A q \in Runs : pc'[q] \in {"idle", "loading"} => pc[q] \in {"idle", "loading"}
      BY <2>10 DEF CommitFails, Holding, AtCommit, TypeOK, LockInv
    <3> QED BY <3>1, FreshKept
  <2>11. CASE Return(r)
    <3>1. /\ UNCHANGED <<turns, removed, try>>
          /\ \A q \in Runs : Holding(q)' => Holding(q) /\ thread'[q] = thread[q]
          /\ \A q \in Runs : AtCommit(q)' => AtCommit(q) /\ line'[q] = line[q]
          /\ \A q \in Runs : pc'[q] \in {"idle", "loading"} => pc[q] \in {"idle", "loading"}
      BY <2>11 DEF Return, Holding, AtCommit, TypeOK, LockInv
    <3> QED BY <3>1, FreshKept
  <2>12. CASE Journal(r)
    <3>1. /\ UNCHANGED <<turns, removed, try>>
          /\ \A q \in Runs : Holding(q)' => Holding(q) /\ thread'[q] = thread[q]
          /\ \A q \in Runs : AtCommit(q)' => AtCommit(q) /\ line'[q] = line[q]
          /\ \A q \in Runs : pc'[q] \in {"idle", "loading"} => pc[q] \in {"idle", "loading"}
      BY <2>12 DEF Journal, Holding, AtCommit, TypeOK, LockInv
    <3> QED BY <3>1, FreshKept
  <2> QED BY <1>1, <2>1, <2>2, <2>3, <2>4, <2>5, <2>6, <2>7, <2>8, <2>9, <2>10, <2>11, <2>12 DEF StepOf
<1>2. ASSUME NEW r \in Runs, ForceCancel(r) PROVE FreshInv'
  BY <1>2, FreshKept DEF ForceCancel, Released, Holding, AtCommit
<1>3. CASE DeleteChecks
  BY <1>3, FreshKept DEF DeleteChecks, Holding, AtCommit
<1>4. CASE DeleteRemoves
  <2>1. /\ UNCHANGED <<try, pc, held>> /\ turns' = <<>>
        /\ removed' = removed \cup ToSet(Turns(turns))
                       \cup {Turn(r) : r \in {q \in Runs : pc[q] \in AtWork \ {"loading"}}}
    BY <1>4 DEF DeleteRemoves
  <2>2. \A r \in Runs : Turn(r)' = Turn(r)
    BY <2>1 DEF Turn
  <2>3. \A r \in Runs : Holding(r)' \/ AtCommit(r)' => Turn(r) \in removed'
    BY <2>1 DEF Holding, AtCommit
  <2>4. ASSUME NEW r \in Runs, pc[r] \in {"idle", "loading"} PROVE Turn(r) \notin removed'
    <3>1. Turn(r) \notin removed
      BY <2>4 DEF FreshInv
    <3>2. Turn(r) \notin ToSet(Turns(turns))
      <4>1. \A t \in ToSet(Turns(turns)) : \E k \in DOMAIN turns : t = turns[k].turn
        BY DEF ToSet, Turns
      <4>2. \A k \in DOMAIN turns : turns[k].turn # Turn(r)
        BY <2>4, TurnOf DEF HistInv, Over, Overs
      <4> QED BY <4>1, <4>2
    <3>3. \A q \in Runs : Turn(q) = Turn(r) => q = r
      BY TurnOf
    <3> QED BY <2>1, <2>4, <3>1, <3>2, <3>3
  <2> QED BY <2>1, <2>2, <2>3, <2>4 DEF FreshInv
<1>5. CASE Crash
  <2>1. /\ UNCHANGED <<turns, removed>> /\ held' = Nobody
        /\ try' = [r \in Runs |-> IF pc[r] \in AtWork THEN try[r] + 1 ELSE try[r]]
        /\ pc' = [r \in Runs |-> CASE pc[r] \in AtWork /\ r \notin ended -> "idle"
                                   [] pc[r] \in AtWork -> "failed"
                                   [] OTHER -> pc[r]]
    BY <1>5 DEF Crash
  <2>2. \A r \in Runs : ~AtCommit(r)' /\ ~Holding(r)'
    BY <2>1 DEF AtCommit, Holding
  <2>3. ASSUME NEW r \in Runs, pc'[r] \in {"idle", "loading"} PROVE Turn(r)' \notin removed
    <3>1. CASE pc[r] \in AtWork
      <4>1. Turn(r)'[1] = r /\ Turn(r)'[2] = try[r] + 1
        BY <2>1, <3>1 DEF Turn
      <4> QED BY <4>1, TurnOf DEF HistInv
    <3>2. CASE pc[r] \notin AtWork
      BY <2>1, <2>3, <3>2 DEF FreshInv, Turn
    <3> QED BY <3>1, <3>2
  <2> QED BY <2>1, <2>2, <2>3 DEF FreshInv
<1>6. CASE UNCHANGED vars
  BY <1>6, FreshKept DEF vars, Holding, AtCommit
<1> QED BY <1>1, <1>2, <1>3, <1>4, <1>5, <1>6 DEF Next

-----------------------------------------------------------------------------
(* The lines of the thread *)

LEMMA Prefix ==
  ASSUME NEW S, NEW lines \in Seq(S), NEW more \in Seq(S), Len(lines) <= Len(more),
         \A k \in 1 .. Len(lines) : more[k] = lines[k], NEW k \in 1 .. Len(lines) + 1
  PROVE  SubSeq(more, 1, k - 1) = SubSeq(lines, 1, k - 1)
<1>1. Len(lines) \in Nat /\ Len(more) \in Nat
  BY LenProperties
<1>2. \A i \in 1 .. k - 1 : lines[i] \in S /\ more[i] \in S /\ more[i] = lines[i]
  BY <1>1, ElementOfSeq
<1>3. /\ SubSeq(lines, 1, k - 1) \in Seq(S) /\ SubSeq(more, 1, k - 1) \in Seq(S)
      /\ Len(SubSeq(lines, 1, k - 1)) = k - 1 /\ Len(SubSeq(more, 1, k - 1)) = k - 1
      /\ \A i \in 1 .. k - 1 : SubSeq(lines, 1, k - 1)[i] = lines[i]
      /\ \A i \in 1 .. k - 1 : SubSeq(more, 1, k - 1)[i] = more[i]
  BY <1>1, <1>2, SubSeqProperties
<1> QED BY <1>1, <1>2, <1>3, SeqEqual

\* Only a turn line and a DELETE change the thread; only a DELETE takes turns from it.
LEMMA LinesKept ==
  ASSUME [Next]_vars
  PROVE  UNCHANGED <<turns, removed>> \/ DeleteRemoves \/ \E r \in Runs : WriteLine(r)
<1> USE DEF disk, files, delete
<1>1. ASSUME NEW r \in Runs, StepOf(r) PROVE UNCHANGED <<turns, removed>> \/ WriteLine(r)
  BY <1>1 DEF StepOf, Open, Load, Commit, Fail, ReadTurns, Cut, Rewrite, WriteMessages,
              CommitFails, Return, Journal
<1>2. ASSUME NEW r \in Runs, ForceCancel(r) PROVE UNCHANGED <<turns, removed>>
  BY <1>2 DEF ForceCancel
<1>3. DeleteChecks \/ Crash \/ UNCHANGED vars => UNCHANGED <<turns, removed>>
  BY DEF DeleteChecks, Crash, vars
<1> QED BY <1>1, <1>2, <1>3 DEF Next

\* A turn is written after the thread its step had loaded.
LEMMA AfterNext ==
  ASSUME TypeOK, TypeOK', LockInv, FreshInv, AfterInv, [Next]_vars
  PROVE  AfterInv'
<1>1. CASE UNCHANGED <<turns, removed>>
  BY <1>1 DEF AfterInv
<1>2. CASE DeleteRemoves
  BY <1>2 DEF DeleteRemoves, AfterInv
<1>3. ASSUME NEW r \in Runs, WriteLine(r) PROVE AfterInv'
  <2>1. turns \in Seq(TurnLines) /\ turns' \in Seq(TurnLines)
    BY DEF TypeOK
  <2>2. removed' = removed /\ held = r /\ pc[r] = "lining"
    BY <1>3 DEF WriteLine, Goes, delete, LockInv, Committing
  <2>3. \A k \in 1 .. Len(turns) + 1 : SubSeq(turns', 1, k - 1) = SubSeq(turns, 1, k - 1)
    <3>1. Len(turns) <= Len(turns') /\ \A k \in 1 .. Len(turns) : turns'[k] = turns[k]
      BY <1>3, LineWritten
    <3> QED BY <2>1, <3>1, Prefix
  <2>4. SubSeq(turns, 1, Len(turns)) = turns
    BY <2>1, SubSeqFull
  <2>5. Turn(r) \in removed \/ thread[r] = Turns(turns)
    BY <2>2 DEF FreshInv, Holding, AtCommit
  <2>6. ASSUME NEW k \in DOMAIN turns, turns[k].turn \notin removed
        PROVE  turns'[k].after = Turns(SubSeq(turns', 1, k - 1))
    <3>1. turns[k].after = Turns(SubSeq(turns, 1, k - 1))
      BY <2>6 DEF AfterInv
    <3>2. turns'[k] = turns[k] /\ k \in 1 .. Len(turns) + 1
      BY <1>3, LineWritten
    <3>3. SubSeq(turns', 1, k - 1) = SubSeq(turns, 1, k - 1)
      BY <2>3, <3>2
    <3> QED BY <3>1, <3>2, <3>3
  <2>7. Turn(r) \notin removed =>
          turns'[Len(turns) + 1].after = Turns(SubSeq(turns', 1, Len(turns) + 1 - 1))
    <3>1. Len(turns) \in Nat
      BY <1>3, LineWritten
    <3>2. Len(turns) + 1 \in 1 .. Len(turns) + 1 /\ Len(turns) + 1 - 1 = Len(turns)
      BY <3>1
    <3>3. SubSeq(turns', 1, Len(turns) + 1 - 1) = turns
      <4>1. SubSeq(turns', 1, Len(turns) + 1 - 1) = SubSeq(turns, 1, Len(turns) + 1 - 1)
        BY <2>3, <3>2
      <4> QED BY <2>4, <3>2, <4>1
    <3>4. turns'[Len(turns) + 1].after = thread[r]
      BY <1>3, LineWritten
    <3> QED BY <2>5, <3>3, <3>4
  <2>8. \A k \in DOMAIN turns' : k \in DOMAIN turns \/ k = Len(turns) + 1
    BY <1>3, LineWritten
  <2>9. \A k \in DOMAIN turns : turns'[k] = turns[k]
    BY <1>3, LineWritten
  <2>10. turns'[Len(turns) + 1].turn = Turn(r)
    BY <1>3, LineWritten
  <2> QED BY <2>2, <2>6, <2>7, <2>8, <2>9, <2>10 DEF AfterInv
<1> QED BY <1>1, <1>2, <1>3, LinesKept

-----------------------------------------------------------------------------
(* The files of the thread *)

\* What a thread's lines say of messages.jsonl: they end where the last turn does.
LEMMA Reach ==
  ASSUME TypeOK, WholeInv, Clean
  PROVE  Len(messages) \in Nat /\ TotalOf(turns) \in Nat /\ TotalOf(turns) <= Len(messages)
<1>1. /\ Len(messages) \in Nat /\ DOMAIN messages = 1 .. Len(messages)
      /\ Len(turns) \in Nat /\ DOMAIN turns = 1 .. Len(turns)
  BY LenProperties DEF TypeOK
<1>2. TotalOf(turns) \in Nat /\ (turns = <<>> => TotalOf(turns) = 0)
  BY TotalType DEF TypeOK
<1>3. CASE turns # <<>>
  <2> DEFINE n == Len(turns)
  <2>1. n \in DOMAIN turns
    BY <1>1, <1>3, EmptySeq DEF TypeOK
  <2>2. turns[n].offset \in Nat /\ turns[n].count = Count /\ Count \in Nat \ {0}
    <3>1. turns[n] \in TurnLines
      BY <1>1, <2>1, ElementOfSeq DEF TypeOK
    <3> HIDE DEF n
    <3> QED BY <3>1, AgentSessionsAssumption DEF TurnLines
  <2>3. TotalOf(turns) = turns[n].offset + turns[n].count
    BY <1>3, TotalType DEF TypeOK
  <2>4. TotalOf(turns) \in turns[n].offset + 1 .. turns[n].offset + turns[n].count
    BY <2>2, <2>3
  <2>5. TotalOf(turns) \in DOMAIN messages
    BY <2>1, <2>4 DEF WholeInv
  <2> QED BY <1>1, <1>2, <2>5
<1> QED BY <1>1, <1>2, <1>3

\* What the thread's lines cover is left alone when the messages behind them change.
LEMMA WholeKept ==
  ASSUME TypeOK, TypeOK', WholeInv, UNCHANGED <<turns, removed>>,
         Clean /\ turns # <<>> => system' = system,
         Clean => \A i \in DOMAIN messages :
                    i <= TotalOf(turns) => i \in DOMAIN messages' /\ messages'[i] = messages[i]
  PROVE  WholeInv'
<1> SUFFICES ASSUME Clean' PROVE WholeInv'
  BY DEF WholeInv
<1>1. Clean /\ turns' = turns
  BY DEF Clean
<1>2. ASSUME NEW k \in DOMAIN turns
      PROVE  /\ turns[k].offset = At(turns, k) /\ turns[k].offset + turns[k].count <= TotalOf(turns)
             /\ \A i \in turns[k].offset + 1 .. turns[k].offset + turns[k].count :
                  i \in DOMAIN messages' /\ messages'[i] = turns[k].turn
             /\ system' = turns[1].turn
  <2>1. /\ turns[k].offset = At(turns, k) /\ turns[k].offset + turns[k].count <= TotalOf(turns)
        /\ \A i \in turns[k].offset + 1 .. turns[k].offset + turns[k].count :
             i \in DOMAIN messages /\ messages[i] = turns[k].turn
        /\ system = turns[1].turn
    BY <1>1 DEF WholeInv
  <2>2. turns[k] \in TurnLines /\ turns # <<>> /\ TotalOf(turns) \in Nat
    BY LenProperties, EmptySeq, ElementOfSeq, TotalType DEF TypeOK
  <2>3. turns[k].offset \in Nat /\ turns[k].count \in Nat
    BY <2>2, AgentSessionsAssumption DEF TurnLines
  <2>4. ASSUME NEW i \in turns[k].offset + 1 .. turns[k].offset + turns[k].count
        PROVE  i \in DOMAIN messages' /\ messages'[i] = turns[k].turn
    BY <1>1, <2>1, <2>2, <2>3
  <2> QED BY <1>1, <2>1, <2>2, <2>4
<1> QED BY <1>1, <1>2 DEF WholeInv, At

\* The one at commit whose thread no DELETE touched goes by the lines that are there.
LEMMA Cutter ==
  ASSUME TypeOK, LockInv, FreshInv, NEW r \in Runs, AtCommit(r)
  PROVE  /\ \A q \in Runs : AtCommit(q) => q = r
         /\ Turn(r) \in removed => turns = <<>>
         /\ Turn(r) \notin removed =>
              line[r].offset = TotalOf(turns) /\ line[r].first = (turns = <<>>)
<1>1. held = r
  BY DEF LockInv, AtCommit, Committing
<1>2. \A q \in Runs : AtCommit(q) => q = r
  BY <1>1 DEF LockInv, AtCommit, Committing
<1>3. Turn(r) \in removed => turns = <<>>
  BY <1>1 DEF FreshInv, Holding
<1>4. Turn(r) \notin removed => line[r] = [offset |-> TotalOf(turns), first |-> turns = <<>>]
  BY DEF FreshInv
<1> QED BY <1>2, <1>3, <1>4

\* Each turn line keeps the messages it covers.
LEMMA WholeNext ==
  ASSUME Untorn, TypeOK, TypeOK', LockInv, FreshInv, CleanInv, WholeInv, AppendInv, [Next]_vars
  PROVE  WholeInv'
<1> USE DEF disk, files, delete
<1>1. CASE UNCHANGED <<turns, removed, system, messages>>
  BY <1>1, WholeKept
<1>2. ASSUME NEW r \in Runs, Cut(r) PROVE WholeInv'
  <2>1. UNCHANGED <<turns, removed, messages>> /\ AtCommit(r)
    BY <1>2 DEF Cut, Goes, AtCommit
  <2>2. Clean /\ turns # <<>> => ~line[r].first
    BY <2>1, Cutter
  <2>3. Clean /\ turns # <<>> => system' = system
    BY <1>2, <2>2 DEF Cut
  <2> QED BY <2>1, <2>3, WholeKept
<1>3. ASSUME NEW r \in Runs, Rewrite(r) PROVE WholeInv'
  <2>1. UNCHANGED <<turns, removed, system>> /\ AtCommit(r) /\ messages' = Slice(messages, line[r].offset)
    BY <1>3 DEF Rewrite, Goes, AtCommit
  <2>2. ASSUME Clean, NEW i \in DOMAIN messages, i <= TotalOf(turns)
        PROVE  i \in DOMAIN messages' /\ messages'[i] = messages[i]
    <3>1. /\ messages \in Seq(Tries) /\ line[r].offset \in Nat
          /\ i \in 1 .. Len(messages) /\ Len(messages) \in Nat
      BY LenProperties DEF TypeOK
    <3>2. turns # <<>>
      BY <2>2, <3>1, TotalType DEF TypeOK
    <3>3. i <= line[r].offset
      BY <2>1, <2>2, <3>2, Cutter
    <3>4. /\ messages' \in Seq(Tries)
          /\ Len(messages') = IF line[r].offset < Len(messages) THEN line[r].offset ELSE Len(messages)
          /\ \A j \in 1 .. Len(messages') : messages'[j] = messages[j]
      BY <2>1, <3>1, SliceType
    <3>5. i \in 1 .. Len(messages')
      BY <3>1, <3>3, <3>4
    <3> QED BY <3>4, <3>5, LenProperties
  <2> QED BY <2>1, <2>2, WholeKept
<1>4. ASSUME NEW r \in Runs, NEW n \in Nat, messages' = messages \o MessagesOf(r, n),
             UNCHANGED <<turns, removed, system>>
      PROVE  WholeInv'
  <2>1. ASSUME NEW i \in DOMAIN messages PROVE i \in DOMAIN messages' /\ messages'[i] = messages[i]
    <3>1. messages \in Seq(Tries) /\ MessagesOf(r, n) \in Seq(Tries)
      BY MessagesType DEF TypeOK
    <3> QED BY <1>4, <3>1, ConcatProperties, LenProperties
  <2> QED BY <1>4, <2>1, WholeKept
<1>5. ASSUME NEW r \in Runs, WriteMessages(r) PROVE WholeInv'
  <2>1. Count \in Nat
    BY AgentSessionsAssumption
  <2> QED BY <1>4, <1>5, <2>1 DEF WriteMessages
<1>6. CASE Crash
  <2>1. UNCHANGED <<turns, removed, system>>
    BY <1>6 DEF Crash
  <2>2. \/ messages' = messages
        \/ \E r \in Runs : \E n \in 1 .. Count : messages' = messages \o MessagesOf(r, n)
    BY <1>6 DEF Crash, Untorn
  <2>3. \A n \in 1 .. Count : n \in Nat
    OBVIOUS
  <2> QED BY <1>1, <1>4, <2>1, <2>2, <2>3
<1>7. CASE DeleteRemoves
  BY <1>7 DEF DeleteRemoves, WholeInv
<1>8. ASSUME NEW r \in Runs, WriteLine(r) PROVE WholeInv'
  <2> SUFFICES ASSUME Clean' PROVE WholeInv'
    BY DEF WholeInv
  <2>1. UNCHANGED <<removed, system, messages>> /\ AtCommit(r) /\ pc[r] = "lining"
    BY <1>8 DEF WriteLine, Goes, AtCommit
  <2>2. /\ Len(turns) \in Nat /\ DOMAIN turns = 1 .. Len(turns)
        /\ turns' # <<>> /\ Len(turns') = Len(turns) + 1 /\ DOMAIN turns' = 1 .. Len(turns) + 1
        /\ \A k \in DOMAIN turns : turns'[k] = turns[k]
        /\ turns'[Len(turns) + 1].turn = Turn(r)
        /\ turns'[Len(turns) + 1].offset = line[r].offset
        /\ turns'[Len(turns) + 1].count = Count
    BY <1>8, LineWritten
  <2>3. turns = <<>> => Len(turns) = 0
    OBVIOUS
  <2>4. turns # <<>> => Len(turns) >= 1
    BY <2>2, EmptySeq DEF TypeOK
  <2>5. Turn(r) \notin removed
    BY <2>1, <2>2, <2>3, Cutter DEF Clean
  <2>6. Clean
    BY <2>1, <2>2, <2>4 DEF Clean
  <2>7. line[r].offset = TotalOf(turns) /\ TotalOf(turns) \in Nat /\ Count \in Nat
    BY <2>1, <2>5, Cutter, TotalType, AgentSessionsAssumption DEF TypeOK
  <2>8. /\ Len(messages) = line[r].offset + Count
        /\ \A i \in line[r].offset + 1 .. line[r].offset + Count : messages[i] = Turn(r)
    BY <2>1, <2>5, <2>6 DEF AppendInv
  <2>9. TotalOf(turns') = TotalOf(turns) + Count
    <3>1. TotalOf(turns') = turns'[Len(turns')].offset + turns'[Len(turns')].count
      BY <2>2, TotalType DEF TypeOK
    <3> QED BY <2>2, <2>7, <3>1
  <2>10. system = turns'[1].turn
    <3>1. CASE turns = <<>>
      BY <2>1, <2>2, <2>3, <2>5, <2>6, <3>1 DEF AppendInv
    <3>2. CASE turns # <<>>
      BY <2>2, <2>4, <2>6, <3>2 DEF WholeInv
    <3> QED BY <3>1, <3>2
  <2>11. ASSUME NEW k \in DOMAIN turns'
         PROVE  /\ turns'[k].offset = At(turns', k)
                /\ turns'[k].offset + turns'[k].count <= TotalOf(turns')
                /\ \A i \in turns'[k].offset + 1 .. turns'[k].offset + turns'[k].count :
                     i \in DOMAIN messages /\ messages[i] = turns'[k].turn
    <3>1. CASE k \in DOMAIN turns
      <4>1. turns'[k] = turns[k] /\ At(turns', k) = At(turns, k)
        BY <2>2, <3>1 DEF At
      <4>2. turns[k].offset \in Nat /\ turns[k].count \in Nat
        <5>1. turns[k] \in TurnLines
          BY <2>2, <3>1, ElementOfSeq DEF TypeOK
        <5> QED BY <5>1, AgentSessionsAssumption DEF TurnLines
      <4>3. turns[k].offset + turns[k].count <= TotalOf(turns')
        BY <2>6, <2>7, <2>9, <3>1, <4>2 DEF WholeInv
      <4> QED BY <2>6, <3>1, <4>1, <4>3 DEF WholeInv
    <3>2. CASE k = Len(turns) + 1
      <4>1. turns'[k].offset = TotalOf(turns) /\ turns'[k].count = Count /\ turns'[k].turn = Turn(r)
        BY <2>2, <2>7, <3>2
      <4>2. At(turns', k) = TotalOf(turns)
        <5>1. CASE turns = <<>>
          <6>1. k = 1
            BY <2>3, <3>2, <5>1
          <6> QED BY <5>1, <6>1 DEF At, TotalOf
        <5>2. CASE turns # <<>>
          <6>1. k # 1 /\ k - 1 = Len(turns) /\ Len(turns) \in DOMAIN turns
            BY <2>2, <2>4, <3>2, <5>2
          <6> QED BY <2>2, <5>2, <6>1, TotalType DEF At, TypeOK
        <5> QED BY <5>1, <5>2
      <4>3. ASSUME NEW i \in TotalOf(turns) + 1 .. TotalOf(turns) + Count
            PROVE  i \in DOMAIN messages /\ messages[i] = Turn(r)
        <5>1. DOMAIN messages = 1 .. Len(messages)
          BY LenProperties DEF TypeOK
        <5> QED BY <2>7, <2>8, <5>1
      <4> QED BY <2>7, <2>9, <4>1, <4>2, <4>3
    <3> QED BY <2>2, <3>1, <3>2
  <2> QED BY <2>1, <2>10, <2>11 DEF WholeInv
<1>9. ASSUME NEW r \in Runs, StepOf(r) PROVE WholeInv'
  <2>1. \/ UNCHANGED <<turns, removed, system, messages>>
        \/ Cut(r) \/ Rewrite(r) \/ WriteMessages(r) \/ WriteLine(r)
    BY <1>9 DEF StepOf, Open, Load, Commit, Fail, ReadTurns, CommitFails, Return, Journal
  <2> QED BY <1>1, <1>2, <1>3, <1>5, <1>8, <2>1
<1>10. ASSUME NEW r \in Runs, ForceCancel(r) PROVE WholeInv'
  BY <1>1, <1>10 DEF ForceCancel
<1>11. DeleteChecks \/ UNCHANGED vars => WholeInv'
  BY <1>1 DEF DeleteChecks, vars
<1> QED BY <1>6, <1>7, <1>9, <1>10, <1>11 DEF Next

\* The steps that leave the files, and who writes to them, alone.
LEMMA AppendKept ==
  ASSUME AppendInv, UNCHANGED <<turns, removed, try, system, messages>>,
         \A r \in Runs : AtCommit(r)' =>
           pc'[r] = "cutting" \/ (AtCommit(r) /\ pc'[r] = pc[r] /\ line'[r] = line[r])
  PROVE  AppendInv'
BY DEF AppendInv, AtCommit, Clean, Turn

\* An appendTurn cuts what is behind the thread, then writes behind it.
LEMMA AppendNext ==
  ASSUME Untorn, TypeOK, LockInv, FreshInv, WholeInv, AppendInv, [Next]_vars
  PROVE  AppendInv'
<1> USE DEF disk, files, delete, step
<1>1. ASSUME NEW r \in Runs, StepOf(r) PROVE AppendInv'
  <2>1. CASE Open(r) \/ Load(r) \/ Commit(r) \/ Fail(r) \/ CommitFails(r) \/ Return(r) \/ Journal(r)
    <3>1. UNCHANGED <<turns, removed, try, system, messages>>
      BY <2>1 DEF Open, Load, Commit, Fail, CommitFails, Return, Journal
    <3>2. pc' = pc \/ \E to \in {"loading", "failed", "talking", "reading", "returned", "done"} :
                        pc' = [pc EXCEPT ![r] = to]
      BY <2>1 DEF Open, Load, Commit, Fail, CommitFails, Return, Journal, Goes
    <3>3. \A q \in Runs : AtCommit(q)' => AtCommit(q) /\ pc'[q] = pc[q]
      BY <3>2 DEF AtCommit, TypeOK
    <3>4. \A q \in Runs : q # r => line'[q] = line[q]
      BY <2>1 DEF Open, Load, Commit, Fail, CommitFails, Return, Journal, Forgets, TypeOK
    <3>5. ~AtCommit(r)'
      BY <2>1 DEF Open, Load, Commit, Fail, CommitFails, Return, Journal, Goes, AtCommit, TypeOK
    <3> QED BY <3>1, <3>3, <3>4, <3>5, AppendKept
  <2>2. CASE ReadTurns(r)
    <3>1. /\ UNCHANGED <<turns, removed, try, system, messages>> /\ pc' = [pc EXCEPT ![r] = "cutting"]
          /\ \A q \in Runs : q # r => line'[q] = line[q]
      BY <2>2 DEF ReadTurns, Goes, TypeOK
    <3>2. \A q \in Runs : AtCommit(q)' =>
            pc'[q] = "cutting" \/ (AtCommit(q) /\ pc'[q] = pc[q] /\ line'[q] = line[q])
      BY <3>1 DEF AtCommit, TypeOK
    <3> QED BY <3>1, <3>2, AppendKept
  <2>3. CASE Cut(r)
    <3>1. /\ UNCHANGED <<turns, removed, messages, line, try>> /\ AtCommit(r)
          /\ pc' = [pc EXCEPT ![r] = IF Excess(r) THEN "rewriting" ELSE "writing"]
          /\ system' = IF line[r].first THEN Turn(r) ELSE system
      BY <2>3 DEF Cut, Goes, AtCommit
    <3>2. \A q \in Runs : AtCommit(q)' => q = r
      BY <3>1, Cutter DEF AtCommit, TypeOK
    <3>3. pc'[r] = IF Excess(r) THEN "rewriting" ELSE "writing"
      BY <3>1 DEF TypeOK
    <3>4. Turn(r)' = Turn(r) /\ (Clean' <=> Clean)
      BY <3>1 DEF Turn, Clean
    <3>5. ASSUME Turn(r) \notin removed, Clean
          PROVE  /\ turns = <<>> => system' = Turn(r)
                 /\ pc'[r] = "writing" => Len(messages) = line[r].offset
      <4>1. line[r].offset = TotalOf(turns) /\ line[r].first = (turns = <<>>)
        BY <3>1, <3>5, Cutter
      <4>2. Len(messages) \in Nat /\ TotalOf(turns) \in Nat /\ TotalOf(turns) <= Len(messages)
        BY <3>5, Reach
      <4>3. turns = <<>> => system' = Turn(r)
        BY <3>1, <4>1
      <4>4. pc'[r] = "writing" => ~(Len(messages) > line[r].offset)
        BY <3>3 DEF Excess
      <4> QED BY <4>1, <4>2, <4>3, <4>4
    <3> QED BY <3>1, <3>2, <3>3, <3>4, <3>5 DEF AppendInv
  <2>4. CASE Rewrite(r)
    <3>1. /\ UNCHANGED <<turns, removed, system, line, try>> /\ AtCommit(r) /\ pc[r] = "rewriting"
          /\ pc' = [pc EXCEPT ![r] = "writing"] /\ messages' = Slice(messages, line[r].offset)
      BY <2>4 DEF Rewrite, Goes, AtCommit
    <3>2. \A q \in Runs : AtCommit(q)' => q = r
      BY <3>1, Cutter DEF AtCommit, TypeOK
    <3>3. pc'[r] = "writing"
      BY <3>1 DEF TypeOK
    <3>4. Turn(r)' = Turn(r) /\ (Clean' <=> Clean)
      BY <3>1 DEF Turn, Clean
    <3>5. ASSUME Turn(r) \notin removed, Clean
          PROVE  /\ turns = <<>> => system = Turn(r)
                 /\ Len(messages') = line[r].offset
      <4>1. line[r].offset = TotalOf(turns)
        BY <3>1, <3>5, Cutter
      <4>2. Len(messages) \in Nat /\ TotalOf(turns) \in Nat /\ TotalOf(turns) <= Len(messages)
        BY <3>5, Reach
      <4>3. Len(messages') = IF line[r].offset < Len(messages) THEN line[r].offset ELSE Len(messages)
        <5>1. messages \in Seq(Tries) /\ line[r].offset \in Nat
          BY <4>1, <4>2 DEF TypeOK
        <5> QED BY <3>1, <5>1, SliceType
      <4>4. turns = <<>> => system = Turn(r)
        BY <3>1, <3>5 DEF AppendInv
      <4> QED BY <4>1, <4>2, <4>3, <4>4
    <3> QED BY <3>1, <3>2, <3>3, <3>4, <3>5 DEF AppendInv
  <2>5. CASE WriteMessages(r)
    <3>1. /\ UNCHANGED <<turns, removed, system, line, try>> /\ AtCommit(r) /\ pc[r] = "writing"
          /\ pc' = [pc EXCEPT ![r] = "lining"] /\ messages' = messages \o MessagesOf(r, Count)
      BY <2>5 DEF WriteMessages, Goes, AtCommit
    <3>2. \A q \in Runs : AtCommit(q)' => q = r
      BY <3>1, Cutter DEF AtCommit, TypeOK
    <3>3. pc'[r] = "lining"
      BY <3>1 DEF TypeOK
    <3>4. Turn(r)' = Turn(r) /\ (Clean' <=> Clean)
      BY <3>1 DEF Turn, Clean
    <3>5. ASSUME Turn(r) \notin removed, Clean
          PROVE  /\ turns = <<>> => system = Turn(r)
                 /\ Len(messages') = line[r].offset + Count
                 /\ \A i \in line[r].offset + 1 .. line[r].offset + Count : messages'[i] = Turn(r)
      <4>1. Len(messages) = line[r].offset /\ (turns = <<>> => system = Turn(r))
        BY <3>1, <3>5 DEF AppendInv
      <4>2. Count \in Nat /\ messages \in Seq(Tries) /\ Len(messages) \in Nat
        BY LenProperties, AgentSessionsAssumption DEF TypeOK
      <4>3. /\ MessagesOf(r, Count) \in Seq(Tries) /\ Len(MessagesOf(r, Count)) = Count
            /\ \A i \in 1 .. Count : MessagesOf(r, Count)[i] = Turn(r)
        BY <4>2, MessagesType
      <4>4. /\ Len(messages') = Len(messages) + Count
            /\ \A i \in 1 .. Len(messages) + Count :
                 messages'[i] = IF i <= Len(messages) THEN messages[i]
                                                      ELSE MessagesOf(r, Count)[i - Len(messages)]
        BY <3>1, <4>2, <4>3, ConcatProperties
      <4>5. ASSUME NEW i \in Len(messages) + 1 .. Len(messages) + Count PROVE messages'[i] = Turn(r)
        <5>1. i \in 1 .. Len(messages) + Count /\ ~(i <= Len(messages)) /\ i - Len(messages) \in 1 .. Count
          BY <4>2
        <5> QED BY <4>3, <4>4, <5>1
      <4> QED BY <4>1, <4>4, <4>5
    <3> QED BY <3>1, <3>2, <3>3, <3>4, <3>5 DEF AppendInv
  <2>6. CASE WriteLine(r)
    <3>1. pc' = [pc EXCEPT ![r] = "committed"] /\ AtCommit(r)
      BY <2>6 DEF WriteLine, Goes, AtCommit
    <3>2. \A q \in Runs : ~AtCommit(q)'
      BY <3>1, Cutter DEF AtCommit, TypeOK
    <3> QED BY <3>2 DEF AppendInv
  <2> QED BY <1>1, <2>1, <2>2, <2>3, <2>4, <2>5, <2>6 DEF StepOf
<1>2. ASSUME NEW r \in Runs, ForceCancel(r) PROVE AppendInv'
  BY <1>2, AppendKept DEF ForceCancel, AtCommit
<1>3. CASE DeleteChecks \/ UNCHANGED vars
  BY <1>3, AppendKept DEF DeleteChecks, vars, AtCommit
<1>4. CASE DeleteRemoves
  <2>1. /\ UNCHANGED <<try, pc>>
        /\ removed' = removed \cup ToSet(Turns(turns))
                       \cup {Turn(r) : r \in {q \in Runs : pc[q] \in AtWork \ {"loading"}}}
    BY <1>4 DEF DeleteRemoves
  <2>2. \A r \in Runs : AtCommit(r)' => Turn(r)' \in removed'
    BY <2>1 DEF AtCommit, Turn, AtWork, Committing
  <2> QED BY <2>2 DEF AppendInv
<1>5. CASE Crash
  <2>1. \A r \in Runs : ~AtCommit(r)'
    BY <1>5 DEF Crash, AtCommit, AtWork, Committing
  <2> QED BY <2>1 DEF AppendInv
<1> QED BY <1>1, <1>2, <1>3, <1>4, <1>5 DEF Next

-----------------------------------------------------------------------------
(* The theorems *)

LEMMA Invariance == ASSUME Untorn PROVE Spec => []IInv
<1>1. ASSUME IInv, [Next]_vars PROVE IInv'
  <2>1. TypeOK' /\ TryInv'
    BY <1>1, TypeNext DEF IInv
  <2>2. LockInv' /\ FreshInv' /\ HistInv' /\ DoneInv' /\ CleanInv'
    BY <1>1, LockNext, FreshNext, HistNext, DoneNext, CleanNext DEF IInv
  <2>3. AfterInv' /\ WholeInv' /\ AppendInv'
    BY <1>1, <2>1, AfterNext, WholeNext, AppendNext DEF IInv
  <2> QED BY <2>1, <2>2, <2>3 DEF IInv
<1> QED BY <1>1, InitInv, PTL DEF Spec

\* Whatever fails, crashes or is deleted, the files and what each step has read of them keep their
\* shape (session-store.ts, appendTurn and load), torn writes and forced releases included.
THEOREM SessionTypeCorrect == Spec => []TypeOK
<1>1. Init => TypeOK /\ TryInv
  BY InitInv DEF IInv
<1> QED BY <1>1, TypeNext, PTL DEF Spec

LEMMA WholeOf ==
  ASSUME TypeOK, WholeInv, NEW k \in DOMAIN turns, \A j \in 1 .. k : turns[j].turn \notin removed
  PROVE  /\ turns[k].offset = TotalOf(SubSeq(turns, 1, k - 1))
         /\ \A i \in turns[k].offset + 1 .. turns[k].offset + turns[k].count :
              i \in DOMAIN messages /\ messages[i] = turns[k].turn
         /\ system = turns[1].turn
<1>1. /\ turns \in Seq(TurnLines) /\ Len(turns) \in Nat /\ k \in 1 .. Len(turns)
      /\ \A i \in 1 .. Len(turns) : turns[i] \in TurnLines
  BY LenProperties, ElementOfSeq DEF TypeOK
<1>2. Clean
  BY <1>1 DEF Clean
<1>3. /\ SubSeq(turns, 1, k - 1) \in Seq(TurnLines)
      /\ Len(SubSeq(turns, 1, k - 1)) = k - 1
      /\ \A i \in 1 .. k - 1 : SubSeq(turns, 1, k - 1)[i] = turns[i]
  BY <1>1, SubSeqProperties
<1>4. TotalOf(SubSeq(turns, 1, k - 1)) = At(turns, k)
  <2>1. CASE k = 1
    <3>1. SubSeq(turns, 1, k - 1) = <<>>
      BY <2>1, SubSeqEmpty
    <3> QED BY <2>1, <3>1 DEF At, TotalOf
  <2>2. CASE k # 1
    <3>1. k - 1 \in 1 .. k - 1 /\ SubSeq(turns, 1, k - 1) # <<>>
      BY <1>1, <1>3, <2>2, EmptySeq
    <3>2. TotalOf(SubSeq(turns, 1, k - 1)) = turns[k - 1].offset + turns[k - 1].count
      BY <1>3, <3>1, TotalType
    <3> QED BY <2>2, <3>2 DEF At
  <2> QED BY <2>1, <2>2
<1> QED BY <1>2, <1>4 DEF WholeInv

\* What load gives, while turns.jsonl parses, is whole: each turn line covers its own messages and no
\* other's (session-store.ts:268-310), for any crashes and deletions.
THEOREM ThreadsWhole == ASSUME Untorn PROVE Spec => []ThreadWhole
<1>1. IInv => ThreadWhole
  BY WholeOf DEF IInv, ThreadWhole
<1> QED BY <1>1, Invariance, PTL

\* No turn comes between another's load and its commit, and no step commits twice
\* (sessionsCapability in createStrut.ts, commit in session-store.ts).
THEOREM TurnsFollow == ASSUME Untorn PROVE Spec => []TurnsContinue
<1>1. ASSUME IInv PROVE TurnsContinue
  <2>1. \A r \in Runs : pc[r] = "done" => Turn(r) \in ToSet(Turns(turns)) \cup removed
    <3>1. \A k \in DOMAIN turns : turns[k].turn \in ToSet(Turns(turns))
      BY DEF ToSet, Turns
    <3> QED BY <1>1, <3>1 DEF IInv, DoneInv
  <2> QED BY <1>1, <2>1 DEF IInv, AfterInv, HistInv, TurnsContinue
<1> QED BY <1>1, Invariance, PTL
=============================================================================
