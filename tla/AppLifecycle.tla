---------------------------- MODULE AppLifecycle -----------------------------
(***************************************************************************)
(* What App promises about its lifecycle, without shards, services or     *)
(* exit functions (spec sections 3 and 4.1): the process goes through the *)
(* startup phases in their order, each phase at most once; a failed phase *)
(* ends startup and asks for the exit; a stop may be requested; the       *)
(* process ends only once an exit was asked for.  App::stop may come      *)
(* while startup is still going on, and startup may go on meanwhile.      *)
(***************************************************************************)
VARIABLES
  phase,      \* "configuring", "constructing", "starting", "running",
              \* "failed", "stopped" or "terminated"
  stopping    \* an exit was requested

avars == <<phase, stopping>>

Phases == {"configuring", "constructing", "starting", "running", "failed",
           "stopped", "terminated"}
Live == phase \notin {"stopped", "terminated"}

(* The startup phases, each mapped to the one that follows it.          *)
Following == [configuring |-> "constructing", constructing |-> "starting",
              starting |-> "running"]

(* How the process ends from each live phase once the exit completes.   *)
Ending == [p \in Phases |-> IF p = "failed" THEN "terminated" ELSE "stopped"]

ATypeOK == phase \in Phases /\ stopping \in BOOLEAN

AInit == phase = "configuring" /\ ~stopping

(* A startup phase completed on every shard.                              *)
Advance ==
  /\ phase \in DOMAIN Following
  /\ phase' = Following[phase]
  /\ UNCHANGED stopping

(* A startup phase failed: startup ends and the exit is requested.        *)
Fail ==
  /\ phase \in DOMAIN Following
  /\ phase' = "failed"
  /\ stopping' = TRUE

(* App::stop was called.                                                  *)
RequestStop ==
  /\ Live
  /\ stopping' = TRUE
  /\ UNCHANGED phase

(* The exit sequence completed.                                           *)
Finish ==
  /\ Live
  /\ stopping
  /\ phase' = Ending[phase]
  /\ UNCHANGED stopping

ANext == Advance \/ Fail \/ RequestStop \/ Finish

ASafety == AInit /\ [][ANext]_avars

=============================================================================
