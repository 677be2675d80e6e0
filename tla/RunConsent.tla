---------------------------- MODULE RunConsent ----------------------------
(***************************************************************************)
(* What run control promises, with no tree, no counters and no wakeups: a  *)
(* branch starts a unit of work only with a consent given while nothing in *)
(* its line of runs is paused or cancelled; a consent is used up by one    *)
(* unit; a stop is never taken back; and a run is over only when none of   *)
(* its branches holds a consent.  RunControl implements this.              *)
(***************************************************************************)
CONSTANTS Runs, Branches, RunOf

VARIABLES ask,       \* what is asked of a run: "go" | "hold" | "stop"
          consents,  \* branches let through and not yet through with their unit
          over       \* runs that ended

cvars == <<ask, consents, over>>

CInit ==
  /\ ask = [r \in Runs |-> "go"]
  /\ consents = {}
  /\ over = {}

\* Someone changes what is asked of some runs; runs told to stop stay told.
Ask(a) ==
  /\ \A r \in Runs : ask[r] = "stop" => a[r] = "stop"
  /\ ask' = a
  /\ UNCHANGED <<consents, over>>

Consent(b) ==
  /\ ask[RunOf[b]] = "go"
  /\ RunOf[b] \notin over
  /\ b \notin consents
  /\ consents' = consents \cup {b}
  /\ UNCHANGED <<ask, over>>

UsedUp(b) ==
  /\ b \in consents
  /\ consents' = consents \ {b}
  /\ UNCHANGED <<ask, over>>

Over(r) ==
  /\ \A b \in consents : RunOf[b] # r
  /\ over' = over \cup {r}
  /\ UNCHANGED <<ask, consents>>

CNext ==
  \/ \E a \in [Runs -> {"go", "hold", "stop"}] : Ask(a)
  \/ \E b \in Branches : Consent(b) \/ UsedUp(b)
  \/ \E r \in Runs : Over(r)

CSpec == CInit /\ [][CNext]_cvars
=============================================================================
