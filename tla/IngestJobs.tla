------------------------------ MODULE IngestJobs ------------------------------
(***************************************************************************)
(* The in-memory registry of ingestion jobs of the backend                 *)
(* (ingest/ingest_runner.py, class IngestJobRegistry): request handlers    *)
(* create a job and start one daemon thread for it; the thread reads the   *)
(* configured parallelism, waits for an execution slot, builds the cached  *)
(* ingestion service, processes its documents one after the other,         *)
(* publishes the outcome and gives the slot back.  The registry dies with  *)
(* the process.                                                            *)
(***************************************************************************)
EXTENDS Naturals, Sequences, FiniteSets

CONSTANTS
  Jobs,           \* the job ids: each is handed out once, they are UUIDs
  Items,          \* the documents jobs are asked to ingest
  KindOf,         \* "plan" (process-batch) or "single" (process, retry) per job
  ItemsOf,        \* the documents of each job, in the order they are processed
  NameOf,         \* the lower-cased file name of a document
  FileOf,         \* the id of the files row of a document, once ingested
  MaxLimit,       \* bound: the largest value of rag.ingest.max_parallel_jobs
  MaxRestarts     \* bound: how often the process is restarted

ASSUME JobsAssumption ==
  /\ IsFiniteSet(Jobs)
  /\ KindOf \in [Jobs -> {"plan", "single"}]
  /\ ItemsOf \in [Jobs -> Seq(Items)]

\* get_or_create_file finds a row by its file name, among others.
ASSUME ItemsAssumption ==
  /\ FileOf \in [Items -> Nat \ {0}]
  /\ \A a, b \in Items : FileOf[a] = FileOf[b] => NameOf[a] = NameOf[b]

ASSUME LimitsAssumption == MaxLimit \in Nat \ {0} /\ MaxRestarts \in Nat

VARIABLES
  status,      \* IngestJobRecord.status, "absent" while the id is not in _jobs
  processed,   \* IngestJobRecord.processed, as the status route shows it
  error,       \* IngestJobRecord.error is not None
  active,      \* _active_jobs
  pc,          \* where the thread of each job is
  limit,       \* the parallelism the thread read; 0 before it has read one
  outcome,     \* what happened to the documents the thread has been through
  result,      \* the entries the ingestion service has collected for the thread
  configured,  \* rag.ingest.max_parallel_jobs as the database holds it
  built,       \* get_ingestion_service has returned once: lru_cache keeps it
  restarts     \* how often the process was restarted (bounded)

registry == <<status, processed, error>>
local == <<outcome, result>>
vars == <<status, processed, error, active, pc, limit, outcome, result,
          configured, built, restarts>>

\* What max(1, int(raw_value)) can be.
Limits == 1..MaxLimit

Statuses == {"absent", "registered", "running", "completed", "failed"}
Outcomes == {"completed", "failed", "vanished"}

\* An entry of IngestJobRecord.processed; file 0 stands for a failed document.
Entries == [file : Nat, name : {NameOf[i] : i \in Items},
            status : {"completed", "failed"}]

\* "none": the id is not used yet, "gone": its process has been restarted.
\* "dead": the thread died outside its try block, its slot is never returned.
Locations == {"none", "created", "resolve", "acquire", "admitted", "service",
              "items", "release", "done", "dead", "gone"}

\* The threads between _acquire_execution_slot and _release_execution_slot,
\* with the ones that will never get to the release.
SlotPcs == {"admitted", "service", "items", "release", "dead"}
Holders == {j \in Jobs : pc[j] \in SlotPcs}

Init ==
  /\ status = [j \in Jobs |-> "absent"]
  /\ processed = [j \in Jobs |-> <<>>]
  /\ error = [j \in Jobs |-> FALSE]
  /\ active = 0
  /\ pc = [j \in Jobs |-> "none"]
  /\ limit = [j \in Jobs |-> 0]
  /\ outcome = [j \in Jobs |-> <<>>]
  /\ result = [j \in Jobs |-> <<>>]
  /\ configured \in Limits
  /\ built = FALSE
  /\ restarts = 0

-----------------------------------------------------------------------------
(* What a thread keeps of its documents                                    *)

\* Mutant of EntryFor: a failed document keeps the state of its files row.
EntryForRowState(j, k, o) ==
  LET i == ItemsOf[j][k]
  IN  [file |-> IF o = "completed" THEN FileOf[i] ELSE 0,
       name |-> NameOf[i],
       status |-> IF o = "completed" THEN "completed" ELSE "registered"]

\* The result of process_document_plan or process_documents for the k-th
\* document of job j.
EntryFor(j, k, o) ==
  LET i == ItemsOf[j][k]
  IN  [file |-> IF o = "completed" THEN FileOf[i] ELSE 0,
       name |-> NameOf[i],
       status |-> IF o = "completed" THEN "completed" ELSE "failed"]

SameDocument(old, new) ==
  IF old.file > 0 /\ new.file > 0 THEN old.file = new.file
                                  ELSE old.name = new.name

\* Mutant of RecordProgress: an entry that is there already is kept.
RecordProgressOnce(entries, new) ==
  IF \E k \in DOMAIN entries : SameDocument(entries[k], new)
  THEN entries ELSE Append(entries, new)

\* _record_plan_progress: the first entry for the same document is replaced.
RecordProgress(entries, new) ==
  LET hits == {k \in DOMAIN entries : SameDocument(entries[k], new)}
      first == CHOOSE k \in hits : \A m \in hits : k <= m
  IN  IF hits = {} THEN Append(entries, new)
                   ELSE [entries EXCEPT ![first] = new]

HasErrors(outs) == \E k \in DOMAIN outs : outs[k] = "failed"

-----------------------------------------------------------------------------
Goto(j, from, to) ==
  /\ pc[j] = from
  /\ pc' = [pc EXCEPT ![j] = to]

\* create_job, create_plan_job: called by /process, /process-batch and retry.
CreateJob(j) ==
  /\ Goto(j, "none", "created")
  /\ status' = [status EXCEPT ![j] = "registered"]
  /\ UNCHANGED <<processed, error, active, limit, local, configured, built, restarts>>

\* Mutant of StartJob: a finished job is started once more.
StartJobAgain(j) ==
  /\ \E from \in {"created", "done"} : Goto(j, from, "resolve")
  /\ UNCHANGED <<registry, active, limit, local, configured, built, restarts>>

\* start: one daemon thread per job.
StartJob(j) ==
  /\ Goto(j, "created", "resolve")
  /\ UNCHANGED <<registry, active, limit, local, configured, built, restarts>>

\* Mutant of ResolveLimit: the job is called running while it still waits.
ResolveLimitRunning(j) ==
  /\ Goto(j, "resolve", "acquire")
  /\ \E n \in {configured, 1} : limit' = [limit EXCEPT ![j] = n]
  /\ status' = [status EXCEPT ![j] = "running"]
  /\ UNCHANGED <<processed, error, active, local, configured, built, restarts>>

\* _resolve_max_parallel_jobs: the limit is read once, before the wait; any
\* failure to read or parse it counts as 1.
ResolveLimit(j) ==
  /\ Goto(j, "resolve", "acquire")
  /\ \E n \in {configured, 1} : limit' = [limit EXCEPT ![j] = n]
  /\ UNCHANGED <<registry, active, local, configured, built, restarts>>

\* Mutant of AcquireSlot: the limit is off by one.
AcquireSlotOffByOne(j) ==
  /\ Goto(j, "acquire", "admitted")
  /\ active <= limit[j]
  /\ active' = active + 1
  /\ UNCHANGED <<registry, limit, local, configured, built, restarts>>

\* _acquire_execution_slot: one successful round of its polling loop.
AcquireSlot(j) ==
  /\ Goto(j, "acquire", "admitted")
  /\ active < limit[j]
  /\ active' = active + 1
  /\ UNCHANGED <<registry, limit, local, configured, built, restarts>>

\* The second critical section of _run_job.
MarkRunning(j) ==
  /\ Goto(j, "admitted", "service")
  /\ status' = [status EXCEPT ![j] = "running"]
  /\ UNCHANGED <<processed, error, active, limit, local, configured, built, restarts>>

\* get_ingestion_service returns: from now on lru_cache answers every caller.
BuildService(j) ==
  /\ Goto(j, "service", "items")
  /\ built' = TRUE
  /\ UNCHANGED <<registry, active, limit, local, configured, restarts>>

\* get_ingestion_service raises.  The call is outside the try block: nothing
\* catches the exception, nobody sets a final status or returns the slot.
ServiceConstructionFails(j) ==
  /\ ~built
  /\ Goto(j, "service", "dead")
  /\ UNCHANGED <<registry, active, limit, local, configured, built, restarts>>

\* One document is done with.  process_document_plan records an error and goes
\* on, and tells the registry; process_documents tells nobody.  A document whose
\* file is no longer on disk yields neither an entry nor an error, because
\* discover_sources returns an empty list for it.
ProcessItem(j, o) ==
  LET outs == Append(outcome[j], o)
      entry == EntryFor(j, Len(outs), o)
  IN  /\ pc[j] = "items"
      /\ Len(outs) <= Len(ItemsOf[j])
      /\ o = "failed" => KindOf[j] = "plan"
      /\ outcome' = [outcome EXCEPT ![j] = outs]
      /\ result' = IF o = "vanished" THEN result
                   ELSE [result EXCEPT ![j] = Append(@, entry)]
      /\ processed' = IF o = "vanished" \/ KindOf[j] = "single" THEN processed
                      ELSE [processed EXCEPT ![j] = RecordProgress(@, entry)]
      /\ UNCHANGED <<status, error, active, pc, limit, configured, built, restarts>>

\* Mutant of PublishResult: what the progress callback recorded is kept.
PublishProgress(j) ==
  /\ Len(outcome[j]) = Len(ItemsOf[j])
  /\ Goto(j, "items", "release")
  /\ error' = [error EXCEPT ![j] = HasErrors(outcome[j])]
  /\ status' = [status EXCEPT ![j] = IF HasErrors(outcome[j]) THEN "failed" ELSE "completed"]
  /\ UNCHANGED <<processed, active, limit, local, configured, built, restarts>>

\* Every document is done with: the result replaces the progress.
PublishResult(j) ==
  /\ Len(outcome[j]) = Len(ItemsOf[j])
  /\ Goto(j, "items", "release")
  /\ processed' = [processed EXCEPT ![j] = result[j]]
  /\ error' = [error EXCEPT ![j] = HasErrors(outcome[j])]
  /\ status' = [status EXCEPT ![j] = IF HasErrors(outcome[j]) THEN "failed" ELSE "completed"]
  /\ UNCHANGED <<active, limit, local, configured, built, restarts>>

\* Mutants of AbortJob: the except branch returns the slot, as the finally
\* branch does again; or the slot is returned after a success only.
AbortJobReleases(j) ==
  /\ KindOf[j] = "single" \/ outcome[j] = <<>>
  /\ Goto(j, "items", "release")
  /\ active' = active - 1
  /\ error' = [error EXCEPT ![j] = TRUE]
  /\ status' = [status EXCEPT ![j] = "failed"]
  /\ UNCHANGED <<processed, limit, local, configured, built, restarts>>

AbortJobKeepsSlot(j) ==
  /\ KindOf[j] = "single" \/ outcome[j] = <<>>
  /\ Goto(j, "items", "done")
  /\ error' = [error EXCEPT ![j] = TRUE]
  /\ status' = [status EXCEPT ![j] = "failed"]
  /\ UNCHANGED <<processed, active, limit, local, configured, built, restarts>>

\* The except branch: a document of a single job fails, or the registration
\* ahead of the first document does.
AbortJob(j) ==
  /\ KindOf[j] = "single" \/ outcome[j] = <<>>
  /\ Goto(j, "items", "release")
  /\ error' = [error EXCEPT ![j] = TRUE]
  /\ status' = [status EXCEPT ![j] = "failed"]
  /\ UNCHANGED <<processed, active, limit, local, configured, built, restarts>>

\* The finally branch: _release_execution_slot.
ReleaseSlot(j) ==
  /\ Goto(j, "release", "done")
  /\ active' = IF active > 0 THEN active - 1 ELSE active
  /\ UNCHANGED <<registry, limit, local, configured, built, restarts>>

\* An administrator saves another value of rag.ingest.max_parallel_jobs.
ChangeLimit ==
  /\ configured' \in Limits \ {configured}
  /\ UNCHANGED <<registry, active, pc, limit, local, built, restarts>>

\* The process dies and starts again: the registry, its counter, its daemon
\* threads and the cached service are gone, and so are the ids handed out.
Restart ==
  /\ restarts < MaxRestarts
  /\ restarts' = restarts + 1
  /\ status' = [j \in Jobs |-> "absent"]
  /\ processed' = [j \in Jobs |-> <<>>]
  /\ error' = [j \in Jobs |-> FALSE]
  /\ active' = 0
  /\ pc' = [j \in Jobs |-> IF pc[j] = "none" THEN "none" ELSE "gone"]
  /\ limit' = [j \in Jobs |-> 0]
  /\ outcome' = [j \in Jobs |-> <<>>]
  /\ result' = [j \in Jobs |-> <<>>]
  /\ built' = FALSE
  /\ UNCHANGED configured

\* The steps of the thread of job j, in the order _run_job takes them.
RunJob(j) ==
  \/ ResolveLimit(j)
  \/ AcquireSlot(j)
  \/ MarkRunning(j)
  \/ BuildService(j)
  \/ ServiceConstructionFails(j)
  \/ \E o \in Outcomes : ProcessItem(j, o)
  \/ PublishResult(j)
  \/ AbortJob(j)
  \/ ReleaseSlot(j)

Next ==
  \/ \E j \in Jobs : CreateJob(j) \/ StartJob(j) \/ RunJob(j)
  \/ ChangeLimit
  \/ Restart

Spec == Init /\ [][Next]_vars

\* A started thread keeps running: the operating system schedules it, and every
\* call it waits for returns or raises.  The polling loop of a waiting thread is
\* not a queue; weak fairness only says that it polls again.
FairSpec == Spec /\ \A j \in Jobs : WF_vars(RunJob(j))

\* What a client of the registry is told, in the terms of JobLifecycle.
Phase(j) ==
  CASE pc[j] = "gone" -> "lost"
    [] pc[j] # "gone" /\ status[j] = "absent" -> "unknown"
    [] pc[j] # "gone" /\ status[j] = "registered" -> "queued"
    [] OTHER -> status[j]

Lifecycle == INSTANCE JobLifecycle
  WITH phase <- [j \in Jobs |-> Phase(j)], slots <- Holders, MaxParallel <- MaxLimit

-----------------------------------------------------------------------------
TypeOK ==
  /\ status \in [Jobs -> Statuses]
  /\ processed \in [Jobs -> Seq(Entries)]
  /\ error \in [Jobs -> BOOLEAN]
  /\ active \in Nat
  /\ pc \in [Jobs -> Locations]
  /\ limit \in [Jobs -> Limits \cup {0}]
  /\ outcome \in [Jobs -> Seq(Outcomes)]
  /\ result \in [Jobs -> Seq(Entries)]
  /\ configured \in Limits
  /\ built \in BOOLEAN
  /\ restarts \in 0..MaxRestarts

\* The status of a job is the one its thread has reached.
StatusOf(p) ==
  CASE p \in {"none", "gone"} -> {"absent"}
    [] p \in {"created", "resolve", "acquire", "admitted"} -> {"registered"}
    [] p \in {"service", "items", "dead"} -> {"running"}
    [] p \in {"release", "done"} -> {"completed", "failed"}

StatusFollowsThread == \A j \in Jobs : status[j] \in StatusOf(pc[j])

\* The counter _active_jobs is the number of threads that took a slot and have
\* not returned it, the ones that died with their slot included: no path of
\* _run_job returns a slot twice, or one it does not have.
SlotAccounting == active = Cardinality(Holders)

\* _acquire_execution_slot bounds the parallelism by the limit each thread read
\* for itself, although the limits differ and change while jobs wait and run: of
\* the threads that were told "at most k", never more than k hold a slot.
ParallelismBound ==
  \A k \in Limits : Cardinality({j \in Holders : limit[j] <= k}) <= k

\* What a client that sees a final status is told is what happened to every
\* document: "completed" means no document failed and each one that was on disk
\* has its own entry, whatever the progress callback overwrote on the way.
OutcomeFaithful ==
  \A j \in Jobs :
    LET outs == outcome[j]
        With(s) == {k \in DOMAIN processed[j] : processed[j][k].status = s}
        Cases(s) == {k \in DOMAIN outs : outs[k] = s}
    IN  /\ status[j] = "completed" =>
             /\ ~error[j]
             /\ Len(outs) = Len(ItemsOf[j])
             /\ Cardinality(With("completed")) = Cardinality(Cases("completed"))
             /\ Cases("failed") = {}
        /\ status[j] = "failed" => error[j]
        /\ status[j] = "failed" /\ KindOf[j] = "plan" =>
             /\ Len(outs) \in {0, Len(ItemsOf[j])}
             /\ Cardinality(With("failed")) = Cardinality(Cases("failed"))

\* While a plan runs, _record_plan_progress may replace the entry of a document
\* by that of another one of the same name, but the name of every document that
\* was reported stays visible, with the outcome of the one reported last.
ProgressKeepsNames ==
  \A j \in Jobs : status[j] = "running" /\ KindOf[j] = "plan" =>
    LET told == result[j]
    IN  \A k \in DOMAIN told : \E m \in k..Len(told), n \in DOMAIN processed[j] :
          told[m].name = told[k].name /\ processed[j][n] = told[m]

\* A final status is final: no later step of any thread, a late progress
\* callback included, changes what the status route answers, until the process
\* is restarted and knows nothing of the job.
FinalStatusIsFinal ==
  [][\A j \in Jobs :
       status[j] \in {"completed", "failed"} =>
         \/ status'[j] = status[j] /\ processed'[j] = processed[j] /\ error'[j] = error[j]
         \/ status'[j] = "absent" /\ restarts' > restarts]_vars

\* The registry implements its lifecycle: no job is run twice or finished
\* twice, none is admitted past the largest limit, none leaves the queue but by
\* a slot it took itself.
ImplementsLifecycle == Lifecycle!Spec

\* Every started job reaches a final status, or is lost with its process, as
\* long as no thread died building the ingestion service.  Nothing stronger
\* holds: a dead thread keeps its slot, and can starve all the others.
JobsTerminate ==
  \A j \in Jobs :
    pc[j] = "resolve" ~>
      (pc[j] \in {"done", "gone"} \/ \E d \in Jobs : pc[d] = "dead")

=============================================================================
