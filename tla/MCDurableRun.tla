--------------------------- MODULE MCDurableRun ---------------------------
(* Small flows for DurableRun. *)
EXTENDS DurableRun, TLC

CONSTANTS a, b, c  \* steps

\* A step.
LoneStep == {a}
LoneDeps == a :> {}

\* Two steps in a row.
PairSteps == {a, b}
PairDeps == a :> {} @@ b :> {a}
PairBelow == a :> {b} @@ b :> {}

\* One step and two that consume it side by side.
ForkSteps == {a, b, c}
ForkDeps == a :> {} @@ b :> {a} @@ c :> {a}
ForkBelow == a :> {b, c} @@ b :> {} @@ c :> {}

\* The second version changes step a, or step b.
One == <<[s \in {a, b, c} |-> 1]>>
FirstChanges == <<[s \in {a, b, c} |-> 1], [s \in {a, b, c} |-> IF s = a THEN 2 ELSE 1]>>
=============================================================================
