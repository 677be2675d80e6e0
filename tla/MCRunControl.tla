--------------------------- MODULE MCRunControl ---------------------------
(* Small trees of runs, and small bodies, for RunControl. *)
EXTENDS RunControl, TLC

CONSTANTS p, c, g,         \* a root run, its nested run, and the nested run's own
          b1, b2, c1, g1,  \* their branches
          t1, t2, t3, u1, v1   \* the threads of those branches' bodies

\* Three generations, one branch each, bodies of one thread.
LineRuns == {p, c, g}
LineParent == p :> NoRun @@ c :> p @@ g :> c
LineLine == p :> {p} @@ c :> {p, c} @@ g :> {p, c, g}
LineBranches == {b1, c1, g1}
LineRunOf == b1 :> p @@ c1 :> c @@ g1 :> g
LineThreads == {t1, u1, v1}
LineBranchOf == t1 :> b1 @@ u1 :> c1 @@ v1 :> g1

\* A run of two branches, one of which launches a nested run.
PairRuns == {p, c}
PairParent == p :> NoRun @@ c :> p
PairLine == p :> {p} @@ c :> {p, c}
PairBranches == {b1, b2, c1}
PairRunOf == b1 :> p @@ b2 :> p @@ c1 :> c
PairThreads == {t1, t2, u1}
PairBranchOf == t1 :> b1 @@ t2 :> b2 @@ u1 :> c1

\* One run, two branches, and a body with two sub-agents beside its own thread.
TeamRuns == {p}
TeamParent == p :> NoRun
TeamLine == p :> {p}
TeamBranches == {b1, b2}
TeamRunOf == b1 :> p @@ b2 :> p
TeamThreads == {t1, t2, t3, u1}
TeamBranchOf == t1 :> b1 @@ t2 :> b1 @@ t3 :> b1 @@ u1 :> b2
=============================================================================
