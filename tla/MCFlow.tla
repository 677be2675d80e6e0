------------------------------- MODULE MCFlow -------------------------------
(* Flow on small instances: the shapes a step may have.                    *)
EXTENDS Flow

Plain   == [when |-> "none", retries |-> 0, onError |-> FALSE]
OnTrue  == [Plain EXCEPT !.when = "true"]
OnFalse == [Plain EXCEPT !.when = "false"]
Rescued == [Plain EXCEPT !.onError = TRUE]
Both    == [Plain EXCEPT !.retries = 1, !.onError = TRUE]

\* Every graph whose steps depend on steps before them, and two that do not.
Backward == {d \in [Steps -> SUBSET Steps] : \A s \in Steps : d[s] \subseteq 1..(s - 1)}
Forward == {<<{2}, {3}, {}>>, <<{2, 3}, {}, {}>>}
AllGraphs == Backward \cup Forward
Gate == {<<{}, {1}, {1}>>, <<{}, {1}, {2}>>}

AllShapes == {OnTrue, Both}
GateShapes == {OnTrue, OnFalse, Rescued}
=============================================================================
