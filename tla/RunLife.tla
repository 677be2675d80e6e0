------------------------------ MODULE RunLife ------------------------------
(***************************************************************************)
(* What a durable run looks like to whoever reads it: it is opened once,   *)
(* comes to an outcome, is told (its summary), and changes its outcome     *)
(* only by being opened again.  DurableRun implements this.                *)
(***************************************************************************)
VARIABLES life,  \* "absent" | "open" | the outcome it came to
          told   \* the outcome its summary tells, or "none"

lvars == <<life, told>>

Outcomes == {"success", "error", "cancelled"}

LInit == life = "absent" /\ told = "none"

Open ==
  /\ life \in {"absent"} \cup Outcomes
  /\ told = "none"
  /\ life' = "open"
  /\ UNCHANGED told

\* Opening a run that is open already (its process died) changes nothing here.
Come(o) ==
  /\ life = "open"
  /\ life' = o
  /\ UNCHANGED told

Tell ==
  /\ life \in Outcomes
  /\ told' = life
  /\ UNCHANGED life

\* A resume takes the summary back before it opens the run.
Retract ==
  /\ told' = "none"
  /\ UNCHANGED life

LNext == Open \/ (\E o \in Outcomes : Come(o)) \/ Tell \/ Retract

LSpec == LInit /\ [][LNext]_lvars
=============================================================================
