---------------------------- MODULE MCScheduler ----------------------------
(* Instances of Scheduler: two automations, triggers of one or two instants. *)
EXTENDS Scheduler, TLC

CONSTANTS a, b

Pair == {a, b}
Firsts == a :> {1, 2} @@ b :> {2}
Twos == {{1, 2}, {2}}
=============================================================================
