----------------------------- MODULE JobLifecycle -----------------------------
(***************************************************************************)
(* What the registry of ingestion jobs promises its clients: a job is      *)
(* queued, runs once and ends with one outcome, or is lost with the        *)
(* process; at most MaxParallel jobs are past the queue and still hold     *)
(* resources.  IngestJobs implements this specification.                   *)
(***************************************************************************)
EXTENDS Naturals, FiniteSets

CONSTANTS Jobs, MaxParallel

VARIABLES
  phase,   \* what a client may be told of each job
  slots    \* the jobs that hold an execution slot

lifecycleVars == <<phase, slots>>

Final == {"completed", "failed"}
Phases == {"unknown", "queued", "running", "lost"} \cup Final

Init ==
  /\ phase = [j \in Jobs |-> "unknown"]
  /\ slots = {}

Become(j, from, to) ==
  /\ phase[j] = from
  /\ phase' = [phase EXCEPT ![j] = to]

Submit(j) == Become(j, "unknown", "queued") /\ UNCHANGED slots

Admit(j) ==
  /\ phase[j] = "queued"
  /\ j \notin slots
  /\ Cardinality(slots) < MaxParallel
  /\ slots' = slots \cup {j}
  /\ UNCHANGED phase

Begin(j) == j \in slots /\ Become(j, "queued", "running") /\ UNCHANGED slots

Finish(j) ==
  /\ j \in slots
  /\ \E o \in Final : Become(j, "running", o)
  /\ UNCHANGED slots

Free(j) ==
  /\ j \in slots
  /\ phase[j] \in Final
  /\ slots' = slots \ {j}
  /\ UNCHANGED phase

Crash ==
  /\ phase' = [j \in Jobs |-> IF phase[j] = "unknown" THEN "unknown" ELSE "lost"]
  /\ slots' = {}

Next ==
  \/ \E j \in Jobs : Submit(j) \/ Admit(j) \/ Begin(j) \/ Finish(j) \/ Free(j)
  \/ Crash

Spec == Init /\ [][Next]_lifecycleVars

=============================================================================
