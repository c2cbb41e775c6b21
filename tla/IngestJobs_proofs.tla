--------------------------- MODULE IngestJobs_proofs ---------------------------
(***************************************************************************)
(* Proofs about the job registry, for every set of jobs, every plan and    *)
(* every limit: types, slot accounting, bounded parallelism, finality of   *)
(* final statuses, and the refinement of JobLifecycle.                     *)
(***************************************************************************)
EXTENDS IngestJobs, FiniteSetTheorems, SequenceTheorems, WellFoundedInduction, TLAPS

(* The result of one document is an entry of the job's record.             *)
LEMMA EntryType ==
  ASSUME NEW j \in Jobs, NEW k \in 1..Len(ItemsOf[j]), NEW o \in Outcomes
  PROVE  EntryFor(j, k, o) \in Entries
<1>1. ItemsOf[j] \in Seq(Items)
  BY JobsAssumption
<1>2. ItemsOf[j][k] \in Items
  BY <1>1
<1>3. FileOf[ItemsOf[j][k]] \in Nat
  BY <1>2, ItemsAssumption
<1> QED
  BY <1>2, <1>3 DEF EntryFor, Entries

(* The progress callback keeps the record a sequence of entries.           *)
LEMMA ProgressType ==
  ASSUME NEW s \in Seq(Entries), NEW e \in Entries
  PROVE  RecordProgress(s, e) \in Seq(Entries)
<1>1. ASSUME NEW k PROVE [s EXCEPT ![k] = e] \in Seq(Entries)
  <2>1. s \in [1..Len(s) -> Entries] /\ Len(s) \in Nat
    BY LenProperties
  <2>2. [s EXCEPT ![k] = e] \in [1..Len(s) -> Entries]
    BY <2>1
  <2> QED
    BY <2>1, <2>2, SeqDef
<1>2. Append(s, e) \in Seq(Entries)
  OBVIOUS
<1> QED
  BY <1>1, <1>2 DEF RecordProgress

(* Every reachable state is well typed.                                    *)
THEOREM TypeCorrect == Spec => []TypeOK
<1>1. Init => TypeOK
  <2> SUFFICES ASSUME Init PROVE TypeOK
    OBVIOUS
  <2>1. <<>> \in Seq(Entries) /\ <<>> \in Seq(Outcomes)
    OBVIOUS
  <2>2. 0 \in 0..MaxRestarts
    BY LimitsAssumption
  <2>3. processed \in [Jobs -> Seq(Entries)] /\ result \in [Jobs -> Seq(Entries)]
    BY <2>1 DEF Init
  <2>4. outcome \in [Jobs -> Seq(Outcomes)]
    BY <2>1 DEF Init
  <2> QED
    BY <2>2, <2>3, <2>4 DEF Init, TypeOK, Statuses, Locations
<1>2. TypeOK /\ [Next]_vars => TypeOK'
  <2> SUFFICES ASSUME TypeOK, [Next]_vars PROVE TypeOK'
    OBVIOUS
  <2> USE DEF TypeOK, Statuses, Locations, registry, local, Goto
  <2>1. ASSUME NEW j \in Jobs, CreateJob(j) PROVE TypeOK'
    BY <2>1 DEF CreateJob
  <2>2. ASSUME NEW j \in Jobs, StartJob(j) PROVE TypeOK'
    BY <2>2 DEF StartJob
  <2>3. ASSUME NEW j \in Jobs, ResolveLimit(j) PROVE TypeOK'
    <3>1. PICK n \in {configured, 1} : limit' = [limit EXCEPT ![j] = n]
      BY <2>3 DEF ResolveLimit
    <3>2. n \in Limits
      BY LimitsAssumption DEF Limits
    <3> QED
      BY <2>3, <3>1, <3>2 DEF ResolveLimit
  <2>4. ASSUME NEW j \in Jobs, AcquireSlot(j) PROVE TypeOK'
    BY <2>4 DEF AcquireSlot
  <2>5. ASSUME NEW j \in Jobs, MarkRunning(j) PROVE TypeOK'
    BY <2>5 DEF MarkRunning
  <2>6. ASSUME NEW j \in Jobs, BuildService(j) PROVE TypeOK'
    BY <2>6 DEF BuildService
  <2>7. ASSUME NEW j \in Jobs, ServiceConstructionFails(j) PROVE TypeOK'
    BY <2>7 DEF ServiceConstructionFails
  <2>8. ASSUME NEW j \in Jobs, NEW o \in Outcomes, ProcessItem(j, o) PROVE TypeOK'
    <3> DEFINE outs == Append(outcome[j], o)
               entry == EntryFor(j, Len(outs), o)
    <3>1. outs \in Seq(Outcomes) /\ Len(outs) \in 1..Len(ItemsOf[j])
      BY <2>8, JobsAssumption DEF ProcessItem
    <3>2. entry \in Entries
      BY <3>1, EntryType
    <3>3. RecordProgress(processed[j], entry) \in Seq(Entries)
      BY <3>2, ProgressType
    <3>4. Append(result[j], entry) \in Seq(Entries)
      BY <3>2
    <3> HIDE DEF outs, entry
    <3>5. /\ outcome' = [outcome EXCEPT ![j] = outs]
          /\ \/ result' = result
             \/ result' = [result EXCEPT ![j] = Append(result[j], entry)]
          /\ \/ processed' = processed
             \/ processed' = [processed EXCEPT ![j] = RecordProgress(processed[j], entry)]
          /\ UNCHANGED <<status, error, active, pc, limit, configured, built, restarts>>
      BY <2>8 DEF ProcessItem, outs, entry
    <3> QED
      BY <3>1, <3>3, <3>4, <3>5
  <2>9. ASSUME NEW j \in Jobs, PublishResult(j) PROVE TypeOK'
    <3>1. HasErrors(outcome[j]) \in BOOLEAN
      BY DEF HasErrors
    <3> QED
      BY <2>9, <3>1 DEF PublishResult
  <2>10. ASSUME NEW j \in Jobs, AbortJob(j) PROVE TypeOK'
    BY <2>10 DEF AbortJob
  <2>11. ASSUME NEW j \in Jobs, ReleaseSlot(j) PROVE TypeOK'
    BY <2>11 DEF ReleaseSlot
  <2>12. CASE ChangeLimit
    BY <2>12 DEF ChangeLimit
  <2>13. CASE Restart
    <3>1. <<>> \in Seq(Entries) /\ <<>> \in Seq(Outcomes)
      OBVIOUS
    <3>2. processed' \in [Jobs -> Seq(Entries)] /\ result' \in [Jobs -> Seq(Entries)]
      BY <2>13, <3>1 DEF Restart
    <3>3. outcome' \in [Jobs -> Seq(Outcomes)]
      BY <2>13, <3>1 DEF Restart
    <3>4. restarts' \in 0..MaxRestarts
      BY <2>13, LimitsAssumption DEF Restart
    <3> QED
      BY <2>13, <3>2, <3>3, <3>4 DEF Restart
  <2>14. CASE UNCHANGED vars
    BY <2>14 DEF vars
  <2> QED
    BY <2>1, <2>2, <2>3, <2>4, <2>5, <2>6, <2>7, <2>8, <2>9, <2>10, <2>11,
       <2>12, <2>13, <2>14 DEF Next, RunJob
<1> QED
  BY <1>1, <1>2, PTL DEF Spec

-----------------------------------------------------------------------------
(* The status of a job and the position of its thread move together.       *)
THEOREM StatusFollows == Spec => []StatusFollowsThread
<1>1. Init => StatusFollowsThread
  BY DEF Init, StatusFollowsThread, StatusOf
<1>2. TypeOK /\ StatusFollowsThread /\ [Next]_vars => StatusFollowsThread'
  <2> SUFFICES ASSUME TypeOK, StatusFollowsThread, [Next]_vars
               PROVE  StatusFollowsThread'
    OBVIOUS
  <2> USE DEF StatusFollowsThread, StatusOf, registry, Goto
  <2> /\ pc \in [Jobs -> Locations]
      /\ status \in [Jobs -> Statuses]
    BY DEF TypeOK
  <2>1. ASSUME NEW j \in Jobs, CreateJob(j) PROVE StatusFollowsThread'
    BY <2>1 DEF CreateJob
  <2>2. ASSUME NEW j \in Jobs, StartJob(j) PROVE StatusFollowsThread'
    BY <2>2 DEF StartJob
  <2>3. ASSUME NEW j \in Jobs, ResolveLimit(j) PROVE StatusFollowsThread'
    BY <2>3 DEF ResolveLimit
  <2>4. ASSUME NEW j \in Jobs, AcquireSlot(j) PROVE StatusFollowsThread'
    BY <2>4 DEF AcquireSlot
  <2>5. ASSUME NEW j \in Jobs, MarkRunning(j) PROVE StatusFollowsThread'
    BY <2>5 DEF MarkRunning
  <2>6. ASSUME NEW j \in Jobs, BuildService(j) PROVE StatusFollowsThread'
    BY <2>6 DEF BuildService
  <2>7. ASSUME NEW j \in Jobs, ServiceConstructionFails(j) PROVE StatusFollowsThread'
    BY <2>7 DEF ServiceConstructionFails
  <2>8. ASSUME NEW j \in Jobs, NEW o \in Outcomes, ProcessItem(j, o)
        PROVE  StatusFollowsThread'
    BY <2>8 DEF ProcessItem
  <2>9. ASSUME NEW j \in Jobs, PublishResult(j) PROVE StatusFollowsThread'
    BY <2>9 DEF PublishResult
  <2>10. ASSUME NEW j \in Jobs, AbortJob(j) PROVE StatusFollowsThread'
    BY <2>10 DEF AbortJob
  <2>11. ASSUME NEW j \in Jobs, ReleaseSlot(j) PROVE StatusFollowsThread'
    BY <2>11 DEF ReleaseSlot
  <2>12. CASE ChangeLimit
    BY <2>12 DEF ChangeLimit
  <2>13. CASE Restart
    BY <2>13 DEF Restart
  <2>14. CASE UNCHANGED vars
    BY <2>14 DEF vars
  <2> QED
    BY <2>1, <2>2, <2>3, <2>4, <2>5, <2>6, <2>7, <2>8, <2>9, <2>10, <2>11,
       <2>12, <2>13, <2>14 DEF Next, RunJob
<1> QED
  BY <1>1, <1>2, TypeCorrect, PTL DEF Spec

-----------------------------------------------------------------------------
(* How the set of slot holders changes: the four kinds of step there are.  *)
LEMMA HoldersFinite == IsFiniteSet(Holders) /\ Cardinality(Holders) \in Nat
  BY JobsAssumption, FS_Subset, FS_CardinalityType DEF Holders

HoldersKept == Holders' = Holders /\ active' = active /\ \A h \in Holders : limit'[h] = limit[h]
HolderAdded(j) ==
  /\ j \in Jobs \ Holders
  /\ active < limit[j]
  /\ Holders' = Holders \cup {j}
  /\ active' = active + 1
  /\ limit' = limit
HolderRemoved(j) ==
  /\ j \in Holders
  /\ Holders' = Holders \ {j}
  /\ active' = (IF active > 0 THEN active - 1 ELSE active)
  /\ limit' = limit
HoldersLost == Holders' = {} /\ active' = 0

(* Every step of the registry is of one of those kinds.                    *)
LEMMA SlotSteps ==
  ASSUME TypeOK, [Next]_vars
  PROVE  \/ HoldersKept
         \/ \E j \in Jobs : HolderAdded(j) \/ HolderRemoved(j)
         \/ HoldersLost
<1> USE DEF Holders, SlotPcs, Goto
<1> pc \in [Jobs -> Locations]
  BY DEF TypeOK
<1>1. ASSUME NEW j \in Jobs, CreateJob(j) PROVE HoldersKept
  BY <1>1 DEF CreateJob, HoldersKept
<1>2. ASSUME NEW j \in Jobs, StartJob(j) PROVE HoldersKept
  BY <1>2 DEF StartJob, HoldersKept
<1>3. ASSUME NEW j \in Jobs, ResolveLimit(j) PROVE HoldersKept
  <2>1. pc[j] = "resolve" /\ pc' = [pc EXCEPT ![j] = "acquire"] /\ active' = active
    BY <1>3 DEF ResolveLimit
  <2>2. PICK n : limit' = [limit EXCEPT ![j] = n]
    BY <1>3 DEF ResolveLimit
  <2>3. limit \in [Jobs -> Limits \cup {0}]
    BY DEF TypeOK
  <2> QED
    BY <2>1, <2>2, <2>3 DEF HoldersKept
<1>4. ASSUME NEW j \in Jobs, AcquireSlot(j) PROVE HolderAdded(j)
  BY <1>4 DEF AcquireSlot, HolderAdded
<1>5. ASSUME NEW j \in Jobs, MarkRunning(j) PROVE HoldersKept
  BY <1>5 DEF MarkRunning, HoldersKept
<1>6. ASSUME NEW j \in Jobs, BuildService(j) PROVE HoldersKept
  BY <1>6 DEF BuildService, HoldersKept
<1>7. ASSUME NEW j \in Jobs, ServiceConstructionFails(j) PROVE HoldersKept
  BY <1>7 DEF ServiceConstructionFails, HoldersKept
<1>8. ASSUME NEW j \in Jobs, NEW o \in Outcomes, ProcessItem(j, o) PROVE HoldersKept
  BY <1>8 DEF ProcessItem, HoldersKept
<1>9. ASSUME NEW j \in Jobs, PublishResult(j) PROVE HoldersKept
  BY <1>9 DEF PublishResult, HoldersKept
<1>10. ASSUME NEW j \in Jobs, AbortJob(j) PROVE HoldersKept
  BY <1>10 DEF AbortJob, HoldersKept
<1>11. ASSUME NEW j \in Jobs, ReleaseSlot(j) PROVE HolderRemoved(j)
  BY <1>11 DEF ReleaseSlot, HolderRemoved
<1>12. ASSUME ChangeLimit PROVE HoldersKept
  BY <1>12 DEF ChangeLimit, HoldersKept
<1>13. ASSUME Restart PROVE HoldersLost
  BY <1>13 DEF Restart, HoldersLost
<1>14. ASSUME UNCHANGED vars PROVE HoldersKept
  BY <1>14 DEF vars, HoldersKept
<1> QED
  BY <1>1, <1>2, <1>3, <1>4, <1>5, <1>6, <1>7, <1>8, <1>9, <1>10, <1>11,
     <1>12, <1>13, <1>14 DEF Next, RunJob

(* The counter is the number of slots held or leaked.                      *)
THEOREM SlotsAreCounted == Spec => []SlotAccounting
<1>1. Init => SlotAccounting
  <2> SUFFICES ASSUME Init PROVE SlotAccounting
    OBVIOUS
  <2>1. Holders = {}
    BY DEF Init, Holders, SlotPcs
  <2> QED
    BY <2>1, FS_EmptySet DEF Init, SlotAccounting
<1>2. TypeOK /\ SlotAccounting /\ [Next]_vars => SlotAccounting'
  <2> SUFFICES ASSUME TypeOK, SlotAccounting, [Next]_vars PROVE SlotAccounting'
    OBVIOUS
  <2> USE DEF SlotAccounting
  <2>1. CASE HoldersKept
    BY <2>1 DEF HoldersKept
  <2>2. ASSUME NEW j \in Jobs, HolderAdded(j) PROVE SlotAccounting'
    <3>1. Cardinality(Holders \cup {j}) = Cardinality(Holders) + 1
      BY <2>2, HoldersFinite, FS_AddElement DEF HolderAdded
    <3> QED
      BY <2>2, <3>1 DEF HolderAdded
  <2>3. ASSUME NEW j \in Jobs, HolderRemoved(j) PROVE SlotAccounting'
    <3>1. Cardinality(Holders \ {j}) = Cardinality(Holders) - 1
      BY <2>3, HoldersFinite, FS_RemoveElement DEF HolderRemoved
    <3>2. Cardinality(Holders) > 0
      BY <2>3, HoldersFinite, FS_EmptySet DEF HolderRemoved
    <3> QED
      BY <2>3, <3>1, <3>2 DEF HolderRemoved
  <2>4. CASE HoldersLost
    BY <2>4, FS_EmptySet DEF HoldersLost
  <2> QED
    BY <2>1, <2>2, <2>3, <2>4, SlotSteps
<1> QED
  BY <1>1, <1>2, TypeCorrect, PTL DEF Spec

(* Of the threads that read a limit of at most k, at most k hold a slot.   *)
THEOREM ParallelismIsBounded == Spec => []ParallelismBound
<1> DEFINE Under(k) == {j \in Holders : limit[j] <= k}
<1>0. \A k \in Limits : k \in Nat
  BY LimitsAssumption DEF Limits
<1>1. Init => ParallelismBound
  <2> SUFFICES ASSUME Init, NEW k \in Limits PROVE Cardinality(Under(k)) <= k
    BY DEF ParallelismBound
  <2>1. Under(k) = {}
    BY DEF Init, Holders, SlotPcs
  <2> QED
    BY <2>1, <1>0, FS_EmptySet
<1>2. TypeOK /\ SlotAccounting /\ ParallelismBound /\ [Next]_vars => ParallelismBound'
  <2> SUFFICES ASSUME TypeOK, SlotAccounting, ParallelismBound, [Next]_vars,
                      NEW k \in Limits
               PROVE  Cardinality(Under(k)') <= k
    BY DEF ParallelismBound
  <2>0. /\ Cardinality(Under(k)) <= k
        /\ IsFiniteSet(Under(k))
        /\ Cardinality(Under(k)) \in Nat
        /\ k \in Nat
    BY <1>0, HoldersFinite, FS_Subset, FS_CardinalityType DEF ParallelismBound
  <2>1. CASE HoldersKept
    <3>1. Under(k)' = Under(k)
      BY <2>1 DEF HoldersKept
    <3> QED
      BY <2>0, <3>1
  <2>2. ASSUME NEW j \in Jobs, HolderAdded(j) PROVE Cardinality(Under(k)') <= k
    <3>1. CASE limit[j] <= k
      <4>1. Under(k)' \subseteq Holders \cup {j}
        BY <2>2 DEF HolderAdded
      <4>2. /\ IsFiniteSet(Holders \cup {j})
            /\ Cardinality(Holders \cup {j}) = active + 1
        BY <2>2, HoldersFinite, FS_AddElement DEF HolderAdded, SlotAccounting
      <4>3. Cardinality(Under(k)') <= active + 1 /\ Cardinality(Under(k)') \in Nat
        BY <4>1, <4>2, FS_Subset, FS_CardinalityType
      <4>4. limit[j] \in Nat /\ active \in Nat
        BY LimitsAssumption DEF TypeOK, Limits
      <4> QED
        BY <2>0, <2>2, <3>1, <4>3, <4>4 DEF HolderAdded
    <3>2. CASE ~(limit[j] <= k)
      <4>1. Under(k)' = Under(k)
        BY <2>2, <3>2 DEF HolderAdded
      <4> QED
        BY <2>0, <4>1
    <3> QED
      BY <3>1, <3>2
  <2>3. ASSUME NEW j \in Jobs, HolderRemoved(j) PROVE Cardinality(Under(k)') <= k
    <3>1. Under(k)' \subseteq Under(k)
      BY <2>3 DEF HolderRemoved
    <3>2. Cardinality(Under(k)') <= Cardinality(Under(k)) /\ Cardinality(Under(k)') \in Nat
      BY <2>0, <3>1, FS_Subset, FS_CardinalityType
    <3> QED
      BY <2>0, <3>2
  <2>4. CASE HoldersLost
    <3>1. Under(k)' = {}
      BY <2>4 DEF HoldersLost
    <3> QED
      BY <2>0, <3>1, FS_EmptySet
  <2> HIDE DEF Under
  <2> QED
    BY <2>1, <2>2, <2>3, <2>4, SlotSteps
<1> QED
  BY <1>1, <1>2, TypeCorrect, SlotsAreCounted, PTL DEF Spec

-----------------------------------------------------------------------------
(* No step changes the answer the status route gives for a finished job.   *)
THEOREM FinalStatusesAreFinal == Spec => FinalStatusIsFinal
<1> DEFINE Kept(j) ==
      status[j] \in {"completed", "failed"} =>
         \/ status'[j] = status[j] /\ processed'[j] = processed[j] /\ error'[j] = error[j]
         \/ status'[j] = "absent" /\ restarts' > restarts
<1>1. TypeOK /\ StatusFollowsThread /\ [Next]_vars => [\A j \in Jobs : Kept(j)]_vars
  <2> SUFFICES ASSUME TypeOK, StatusFollowsThread, Next, NEW f \in Jobs,
                      status[f] \in {"completed", "failed"}
               PROVE  Kept(f)
    BY DEF vars
  <2>1. pc[f] \in {"release", "done"}
    BY DEF StatusFollowsThread, StatusOf, TypeOK, Locations
  <2> USE DEF registry, Goto
  <2> /\ status \in [Jobs -> Statuses]
      /\ processed \in [Jobs -> Seq(Entries)]
      /\ error \in [Jobs -> BOOLEAN]
      /\ pc \in [Jobs -> Locations]
      /\ restarts \in Nat
    BY LimitsAssumption DEF TypeOK
  <2>2. ASSUME NEW j \in Jobs, CreateJob(j) PROVE Kept(f)
    BY <2>1, <2>2 DEF CreateJob
  <2>3. ASSUME NEW j \in Jobs, StartJob(j) PROVE Kept(f)
    BY <2>3 DEF StartJob
  <2>4. ASSUME NEW j \in Jobs, ResolveLimit(j) PROVE Kept(f)
    BY <2>4 DEF ResolveLimit
  <2>5. ASSUME NEW j \in Jobs, AcquireSlot(j) PROVE Kept(f)
    BY <2>5 DEF AcquireSlot
  <2>6. ASSUME NEW j \in Jobs, MarkRunning(j) PROVE Kept(f)
    BY <2>1, <2>6 DEF MarkRunning
  <2>7. ASSUME NEW j \in Jobs, BuildService(j) PROVE Kept(f)
    BY <2>7 DEF BuildService
  <2>8. ASSUME NEW j \in Jobs, ServiceConstructionFails(j) PROVE Kept(f)
    BY <2>8 DEF ServiceConstructionFails
  <2>9. ASSUME NEW j \in Jobs, NEW o \in Outcomes, ProcessItem(j, o) PROVE Kept(f)
    <3>1. j # f
      BY <2>1, <2>9 DEF ProcessItem
    <3>2. \A e : [processed EXCEPT ![j] = e][f] = processed[f]
      BY <3>1
    <3>3. processed'[f] = processed[f] /\ UNCHANGED <<status, error>>
      BY <2>9, <3>2 DEF ProcessItem
    <3> QED
      BY <3>3
  <2>10. ASSUME NEW j \in Jobs, PublishResult(j) PROVE Kept(f)
    BY <2>1, <2>10 DEF PublishResult
  <2>11. ASSUME NEW j \in Jobs, AbortJob(j) PROVE Kept(f)
    BY <2>1, <2>11 DEF AbortJob
  <2>12. ASSUME NEW j \in Jobs, ReleaseSlot(j) PROVE Kept(f)
    BY <2>12 DEF ReleaseSlot
  <2>13. CASE ChangeLimit
    BY <2>13 DEF ChangeLimit
  <2>14. CASE Restart
    <3>1. restarts' = restarts + 1 /\ status'[f] = "absent"
      BY <2>14 DEF Restart
    <3>2. restarts' > restarts
      BY <3>1
    <3> QED
      BY <3>1, <3>2
  <2> HIDE DEF Kept
  <2> QED
    BY <2>2, <2>3, <2>4, <2>5, <2>6, <2>7, <2>8, <2>9, <2>10, <2>11,
       <2>12, <2>13, <2>14 DEF Next, RunJob
<1> QED
  BY <1>1, TypeCorrect, StatusFollows, PTL DEF Spec, FinalStatusIsFinal

-----------------------------------------------------------------------------
(* The phase a client is told, from the status and the thread.             *)
LEMMA PhaseByThread ==
  ASSUME TypeOK, StatusFollowsThread, NEW j \in Jobs
  PROVE  /\ pc[j] = "none" => Phase(j) = "unknown"
         /\ pc[j] = "gone" => Phase(j) = "lost"
         /\ pc[j] \in {"created", "resolve", "acquire", "admitted"} => Phase(j) = "queued"
         /\ pc[j] \in {"service", "items", "dead"} => Phase(j) = "running"
         /\ pc[j] \in {"release", "done"} => Phase(j) = status[j] /\ status[j] \in {"completed", "failed"}
  BY DEF TypeOK, Locations, StatusFollowsThread, StatusOf, Phase

(* The registry implements its lifecycle.                                  *)
THEOREM LifecycleImplemented == Spec => ImplementsLifecycle
<1> USE DEF Lifecycle!lifecycleVars
<1>1. Init => Lifecycle!Init
  BY DEF Init, Lifecycle!Init, Phase, Holders, SlotPcs
<1>2. /\ TypeOK /\ StatusFollowsThread /\ SlotAccounting
      /\ (TypeOK /\ StatusFollowsThread)' /\ [Next]_vars
      => [Lifecycle!Next]_Lifecycle!lifecycleVars
  <2> SUFFICES ASSUME TypeOK, StatusFollowsThread, SlotAccounting,
                      TypeOK', StatusFollowsThread', [Next]_vars
               PROVE  [Lifecycle!Next]_Lifecycle!lifecycleVars
    OBVIOUS
  <2> DEFINE phase == [j \in Jobs |-> Phase(j)]
  <2>0. ASSUME NEW j \in Jobs PROVE
          /\ pc'[j] = "none" => Phase(j)' = "unknown"
          /\ pc'[j] = "gone" => Phase(j)' = "lost"
          /\ pc'[j] \in {"created", "resolve", "acquire", "admitted"} => Phase(j)' = "queued"
          /\ pc'[j] \in {"service", "items", "dead"} => Phase(j)' = "running"
          /\ pc'[j] \in {"release", "done"} =>
               Phase(j)' = status'[j] /\ status'[j] \in {"completed", "failed"}
    BY DEF TypeOK, Locations, StatusFollowsThread, StatusOf, Phase
  <2>00. /\ pc \in [Jobs -> Locations] /\ pc' \in [Jobs -> Locations]
         /\ status \in [Jobs -> Statuses] /\ status' \in [Jobs -> Statuses]
    BY DEF TypeOK
  <2> USE DEF Goto, registry
  <2>1. ASSUME NEW j \in Jobs, CreateJob(j) PROVE Lifecycle!Submit(j)
    <3>1. pc[j] = "none" /\ pc' = [pc EXCEPT ![j] = "created"]
          /\ status' = [status EXCEPT ![j] = "registered"]
      BY <2>1 DEF CreateJob
    <3>2. Holders' = Holders
      BY <2>00, <3>1 DEF Holders, SlotPcs
    <3>3. \A i \in Jobs : i # j => Phase(i)' = Phase(i)
      BY <2>00, <3>1 DEF Phase
    <3>4. Phase(j) = "unknown" /\ Phase(j)' = "queued"
      BY <2>0, <2>00, <3>1, PhaseByThread
    <3> HIDE DEF Phase
    <3> QED
      BY <3>2, <3>3, <3>4 DEF Lifecycle!Submit, Lifecycle!Become
  <2>2. ASSUME UNCHANGED <<pc, status>> PROVE UNCHANGED <<phase, Holders>>
    BY <2>2 DEF Phase, Holders
  <2>3. ASSUME NEW j \in Jobs, NEW from, NEW to, Goto(j, from, to), UNCHANGED status,
               from # "gone", to # "gone", from \in SlotPcs <=> to \in SlotPcs
        PROVE  UNCHANGED <<phase, Holders>>
    <3>1. \A i \in Jobs : Phase(i)' = Phase(i)
      BY <2>3, <2>00 DEF Phase
    <3>2. Holders' = Holders
      BY <2>3, <2>00 DEF Holders
    <3> QED
      BY <3>1, <3>2
  <2>4. ASSUME NEW j \in Jobs, AcquireSlot(j) PROVE Lifecycle!Admit(j)
    <3>1. /\ pc[j] = "acquire" /\ pc' = [pc EXCEPT ![j] = "admitted"]
          /\ status' = status /\ active < limit[j]
      BY <2>4 DEF AcquireSlot
    <3>2. Holders' = Holders \cup {j} /\ j \notin Holders
      BY <2>00, <3>1 DEF Holders, SlotPcs
    <3>3. \A i \in Jobs : Phase(i)' = Phase(i)
      BY <2>00, <3>1 DEF Phase
    <3>4. Phase(j) = "queued"
      BY <3>1, PhaseByThread
    <3>5. Cardinality(Holders) < MaxLimit
      <4>1. limit[j] \in 0..MaxLimit
        BY LimitsAssumption DEF TypeOK, Limits
      <4>2. active \in Nat /\ MaxLimit \in Nat
        BY LimitsAssumption DEF TypeOK
      <4>3. active < MaxLimit
        BY <3>1, <4>1, <4>2
      <4> QED
        BY <4>3 DEF SlotAccounting
    <3>6. Lifecycle!Cardinality(Holders) = Cardinality(Holders)
      BY DEF Cardinality, Lifecycle!Cardinality
    <3> HIDE DEF Phase, Holders
    <3> QED
      BY <3>2, <3>3, <3>4, <3>5, <3>6 DEF Lifecycle!Admit
  <2>5. ASSUME NEW j \in Jobs, MarkRunning(j) PROVE Lifecycle!Begin(j)
    <3>1. pc[j] = "admitted" /\ pc' = [pc EXCEPT ![j] = "service"]
          /\ status' = [status EXCEPT ![j] = "running"]
      BY <2>5 DEF MarkRunning
    <3>2. Holders' = Holders /\ j \in Holders
      BY <2>00, <3>1 DEF Holders, SlotPcs
    <3>3. \A i \in Jobs : i # j => Phase(i)' = Phase(i)
      BY <2>00, <3>1 DEF Phase
    <3>4. Phase(j) = "queued" /\ Phase(j)' = "running"
      BY <2>0, <2>00, <3>1, PhaseByThread
    <3> QED
      BY <3>2, <3>3, <3>4 DEF Lifecycle!Begin, Lifecycle!Become
  <2>6. ASSUME NEW j \in Jobs, PublishResult(j) \/ AbortJob(j) PROVE Lifecycle!Finish(j)
    <3>1. /\ pc[j] = "items" /\ pc' = [pc EXCEPT ![j] = "release"]
          /\ \E o : status' = [status EXCEPT ![j] = o]
      BY <2>6 DEF PublishResult, AbortJob
    <3>2. Holders' = Holders /\ j \in Holders
      BY <2>00, <3>1 DEF Holders, SlotPcs
    <3>3. \A i \in Jobs : i # j => Phase(i)' = Phase(i)
      BY <2>00, <3>1 DEF Phase
    <3>4. Phase(j) = "running" /\ Phase(j)' \in {"completed", "failed"}
      BY <2>0, <2>00, <3>1, PhaseByThread
    <3> QED
      BY <3>2, <3>3, <3>4 DEF Lifecycle!Finish, Lifecycle!Become, Lifecycle!Final
  <2>7. ASSUME NEW j \in Jobs, ReleaseSlot(j) PROVE Lifecycle!Free(j)
    <3>1. pc[j] = "release" /\ pc' = [pc EXCEPT ![j] = "done"] /\ status' = status
      BY <2>7 DEF ReleaseSlot
    <3>2. Holders' = Holders \ {j} /\ j \in Holders
      BY <2>00, <3>1 DEF Holders, SlotPcs
    <3>3. \A i \in Jobs : Phase(i)' = Phase(i)
      BY <2>00, <3>1 DEF Phase
    <3>4. Phase(j) \in {"completed", "failed"}
      BY <3>1, PhaseByThread
    <3> QED
      BY <3>2, <3>3, <3>4 DEF Lifecycle!Free, Lifecycle!Final
  <2>8. ASSUME Restart PROVE Lifecycle!Crash
    <3>1. pc' = [j \in Jobs |-> IF pc[j] = "none" THEN "none" ELSE "gone"]
      BY <2>8 DEF Restart
    <3>2. Holders' = {}
      BY <3>1 DEF Holders, SlotPcs
    <3>3. ASSUME NEW i \in Jobs
          PROVE  Phase(i)' = IF Phase(i) = "unknown" THEN "unknown" ELSE "lost"
      BY <2>0, <2>00, <3>1, PhaseByThread DEF Locations
    <3> QED
      BY <3>2, <3>3 DEF Lifecycle!Crash
  <2>9. ASSUME NEW j \in Jobs,
               \/ StartJob(j) \/ ResolveLimit(j) \/ BuildService(j)
               \/ ServiceConstructionFails(j)
        PROVE  UNCHANGED <<phase, Holders>>
    BY <2>3, <2>9 DEF StartJob, ResolveLimit, BuildService, ServiceConstructionFails, SlotPcs
  <2>10. ASSUME NEW j \in Jobs, NEW o \in Outcomes, ProcessItem(j, o)
         PROVE  UNCHANGED <<phase, Holders>>
    BY <2>2, <2>10 DEF ProcessItem
  <2>11. ASSUME ChangeLimit \/ UNCHANGED vars PROVE UNCHANGED <<phase, Holders>>
    BY <2>2, <2>11 DEF ChangeLimit, vars
  <2> HIDE DEF phase
  <2> QED
    BY <2>1, <2>4, <2>5, <2>6, <2>7, <2>8, <2>9, <2>10, <2>11
       DEF Next, RunJob, Lifecycle!Next, phase
<1> QED
  BY <1>1, <1>2, TypeCorrect, StatusFollows, SlotsAreCounted, PTL
     DEF Spec, ImplementsLifecycle, Lifecycle!Spec

-----------------------------------------------------------------------------
(* What a plan is seen to have done                                        *)

LEMMA StepsOfOthers ==
  ASSUME TypeOK, NEW i \in Jobs, NEW j \in Jobs, i # j,
         \/ CreateJob(i) \/ StartJob(i) \/ RunJob(i)
  PROVE  /\ pc'[j] = pc[j] /\ status'[j] = status[j] /\ error'[j] = error[j]
         /\ processed'[j] = processed[j] /\ outcome'[j] = outcome[j] /\ result'[j] = result[j]
<1> USE DEF TypeOK, registry, local, Goto
<1>1. ASSUME NEW o \in Outcomes, ProcessItem(i, o)
      PROVE  /\ UNCHANGED <<pc, status, error>> /\ processed'[j] = processed[j]
             /\ outcome'[j] = outcome[j] /\ result'[j] = result[j]
  <2>1. /\ UNCHANGED <<pc, status, error>>
        /\ \E x : outcome' = [outcome EXCEPT ![i] = x]
        /\ result' = result \/ \E x : result' = [result EXCEPT ![i] = x]
        /\ processed' = processed \/ \E x : processed' = [processed EXCEPT ![i] = x]
    BY <1>1 DEF ProcessItem
  <2> QED
    BY <2>1
<1>2. ASSUME CreateJob(i) \/ StartJob(i) \/ ResolveLimit(i) \/ AcquireSlot(i) \/ MarkRunning(i)
               \/ BuildService(i) \/ ServiceConstructionFails(i) \/ ReleaseSlot(i)
      PROVE  /\ UNCHANGED <<error, processed, outcome, result>>
             /\ pc'[j] = pc[j] /\ status'[j] = status[j]
  BY <1>2 DEF CreateJob, StartJob, ResolveLimit, AcquireSlot, MarkRunning, BuildService,
              ServiceConstructionFails, ReleaseSlot
<1>3. ASSUME PublishResult(i) \/ AbortJob(i)
      PROVE  /\ UNCHANGED <<outcome, result>> /\ pc'[j] = pc[j] /\ status'[j] = status[j]
             /\ error'[j] = error[j] /\ processed'[j] = processed[j]
  BY <1>3 DEF PublishResult, AbortJob
<1> QED
  BY <1>1, <1>2, <1>3 DEF RunJob

(* Before the first document nothing is recorded, afterwards only names and *)
(* files of documents.                                                     *)
Genuine(e) == \E i \in Items : e.name = NameOf[i] /\ e.file \in {0, FileOf[i]}

Fresh == {"none", "created", "resolve", "acquire", "admitted", "service", "gone"}

Recorded(j) ==
  /\ pc[j] \in Fresh \/ outcome[j] = <<>> => outcome[j] = <<>> /\ result[j] = <<>> /\ processed[j] = <<>>
  /\ \A n \in DOMAIN processed[j] : Genuine(processed[j][n])
  /\ \A n \in DOMAIN result[j] : Genuine(result[j][n])

(* The outcome reported last under every name told is among the entries.   *)
Kept(told, entries) ==
  \A k \in DOMAIN told : \E m \in k..Len(told), n \in DOMAIN entries :
    told[m].name = told[k].name /\ entries[n] = told[m]

LEMMA GenuineEntry ==
  ASSUME NEW j \in Jobs, NEW k \in 1..Len(ItemsOf[j]), NEW o \in Outcomes
  PROVE  Genuine(EntryFor(j, k, o))
<1>1. ItemsOf[j][k] \in Items
  BY JobsAssumption
<1>2. /\ EntryFor(j, k, o).name = NameOf[ItemsOf[j][k]]
      /\ EntryFor(j, k, o).file \in {0, FileOf[ItemsOf[j][k]]}
  BY DEF EntryFor
<1> QED
  BY <1>1, <1>2 DEF Genuine

(* Entries that are taken for the same document have the same name.        *)
LEMMA SameName ==
  ASSUME NEW a, NEW b, Genuine(a), Genuine(b), SameDocument(a, b)
  PROVE  a.name = b.name
BY ItemsAssumption DEF Genuine, SameDocument

LEMMA Least ==
  ASSUME NEW S, S \subseteq Nat, S # {}
  PROVE  \E k \in S : \A m \in S : k <= m
<1> DEFINE Less == {p \in Nat \X Nat : p[1] < p[2]}
<1>1. IsWellFoundedOn(Less, Nat)
  <2>1. OpToRel(<, Nat) = Less
    BY DEF OpToRel
  <2>2. IsWellFoundedOn(OpToRel(<, Nat), Nat)
    BY NatLessThanWellFounded
  <2> QED
    BY <2>1, <2>2
<1>2. PICK k \in S : \A m \in S : ~(<<m, k>> \in Less)
  <2> HIDE DEF Less
  <2> QED
    BY <1>1, WFMin
<1>3. ASSUME NEW m \in S PROVE k <= m
  <2>1. ~(m < k)
    BY <1>2
  <2> QED
    BY <2>1
<1> QED
  BY <1>2, <1>3

(* What RecordProgress makes of entries s: t has entry e at n, in the place *)
(* of at most one other entry of the same document.                        *)
PutAt(s, t, n, e) ==
  /\ n \in DOMAIN t /\ t[n] = e /\ DOMAIN s \subseteq DOMAIN t
  /\ \A m \in DOMAIN t : m # n => m \in DOMAIN s /\ t[m] = s[m]
  /\ n \in DOMAIN s => SameDocument(s[n], e)

LEMMA Recording ==
  ASSUME NEW s \in Seq(Entries), NEW e \in Entries
  PROVE  \E n : PutAt(s, RecordProgress(s, e), n, e)
<1> DEFINE hits == {k \in DOMAIN s : SameDocument(s[k], e)}
           first == CHOOSE k \in hits : \A m \in hits : k <= m
<1>0. Len(s) \in Nat /\ DOMAIN s = 1..Len(s)
  OBVIOUS
<1>1. CASE hits = {}
  <2>1. RecordProgress(s, e) = Append(s, e)
    BY <1>1 DEF RecordProgress
  <2>2. /\ DOMAIN Append(s, e) = 1..(Len(s) + 1) /\ Append(s, e)[Len(s) + 1] = e
        /\ \A m \in 1..Len(s) : Append(s, e)[m] = s[m]
    OBVIOUS
  <2>3. PutAt(s, Append(s, e), Len(s) + 1, e)
    BY <1>0, <2>2 DEF PutAt
  <2> QED
    BY <2>1, <2>3
<1>2. CASE hits # {}
  <2>1. RecordProgress(s, e) = [s EXCEPT ![first] = e]
    BY <1>2 DEF RecordProgress
  <2>2. first \in hits
    <3>1. hits \subseteq Nat
      BY <1>0
    <3> HIDE DEF hits
    <3>2. \E k \in hits : \A m \in hits : k <= m
      BY <1>2, <3>1, Least
    <3> QED
      BY <3>2
  <2> HIDE DEF first
  <2>3. first \in DOMAIN s /\ SameDocument(s[first], e)
    BY <2>2
  <2>4. PutAt(s, [s EXCEPT ![first] = e], first, e)
    BY <2>3 DEF PutAt
  <2> QED
    BY <2>1, <2>4
<1> QED
  BY <1>1, <1>2

(* The names told stay, with the outcome of the one told last.             *)
LEMMA KeptRecording ==
  ASSUME NEW told \in Seq(Entries), NEW entries \in Seq(Entries), NEW e \in Entries, Genuine(e),
         Kept(told, entries), \A n \in DOMAIN entries : Genuine(entries[n])
  PROVE  /\ Kept(Append(told, e), RecordProgress(entries, e))
         /\ \A n \in DOMAIN RecordProgress(entries, e) : Genuine(RecordProgress(entries, e)[n])
<1> DEFINE t == RecordProgress(entries, e)
           new == Append(told, e)
<1>1. PICK p : PutAt(entries, t, p, e)
  BY Recording
<1> HIDE DEF t
<1>2. \A n \in DOMAIN t : Genuine(t[n])
  BY <1>1 DEF PutAt
<1>3. /\ Len(told) \in Nat /\ Len(new) = Len(told) + 1 /\ DOMAIN new = 1..(Len(told) + 1)
      /\ DOMAIN told = 1..Len(told) /\ new[Len(told) + 1] = e /\ \A m \in 1..Len(told) : new[m] = told[m]
  OBVIOUS
<1> HIDE DEF new
<1>4. ASSUME NEW k \in DOMAIN new
      PROVE  \E m \in k..Len(new), n \in DOMAIN t : new[m].name = new[k].name /\ t[n] = new[m]
  <2>1. CASE k = Len(told) + 1
    <3>1. k \in k..Len(new) /\ p \in DOMAIN t /\ t[p] = new[k]
      BY <1>1, <1>3, <2>1 DEF PutAt
    <3> QED
      BY <3>1
  <2>2. CASE k # Len(told) + 1
    <3>1. k \in DOMAIN told
      BY <1>3, <2>2
    <3>2. PICK m \in k..Len(told), n \in DOMAIN entries : told[m].name = told[k].name /\ entries[n] = told[m]
      BY <3>1 DEF Kept
    <3>3. m \in 1..Len(told) /\ m \in k..Len(new) /\ new[m] = told[m] /\ new[k] = told[k]
      BY <1>3, <3>1
    <3>4. CASE n # p
      <4>1. n \in DOMAIN t /\ t[n] = new[m]
        BY <1>1, <3>2, <3>3, <3>4 DEF PutAt
      <4> QED
        BY <3>2, <3>3, <4>1
    <3>5. CASE n = p
      <4>1. e.name = entries[n].name
        BY <1>1, <3>5, SameName DEF PutAt
      <4>2. Len(new) \in k..Len(new) /\ new[Len(new)] = e
        BY <1>3
      <4>3. p \in DOMAIN t /\ t[p] = new[Len(new)]
        BY <1>1, <4>2 DEF PutAt
      <4> QED
        BY <3>2, <3>3, <4>1, <4>2, <4>3
    <3> QED
      BY <3>4, <3>5
  <2> QED
    BY <2>1, <2>2
<1> QED
  BY <1>2, <1>4 DEF Kept, t, new

Told ==
  \A j \in Jobs :
    /\ Recorded(j)
    /\ KindOf[j] = "plan" /\ (pc[j] \in Fresh \/ pc[j] \in {"items", "dead"}) => Kept(result[j], processed[j])

LEMMA TellingIsKept == Spec => []Told
<1>0. Kept(<<>>, <<>>)
  BY DEF Kept
<1>1. Init => Told
  BY <1>0 DEF Init, Told, Recorded, Fresh
<1>2. TypeOK /\ Told /\ [Next]_vars => Told'
  <2> SUFFICES ASSUME TypeOK, Told, [Next]_vars, NEW j \in Jobs
               PROVE  /\ Recorded(j)'
                      /\ KindOf[j] = "plan" /\ (pc'[j] \in Fresh \/ pc'[j] \in {"items", "dead"})
                           => Kept(result'[j], processed'[j])
    BY DEF Told, Kept
  <2> USE DEF Goto, registry, local
  <2>0. /\ Recorded(j)
        /\ KindOf[j] = "plan" /\ (pc[j] \in Fresh \/ pc[j] \in {"items", "dead"}) => Kept(result[j], processed[j])
    BY DEF Told
  <2>1. ASSUME NEW i \in Jobs, i # j, CreateJob(i) \/ StartJob(i) \/ RunJob(i)
        PROVE  /\ pc'[j] = pc[j] /\ processed'[j] = processed[j] /\ outcome'[j] = outcome[j] /\ result'[j] = result[j]
    BY <2>1, StepsOfOthers
  <2>2. ASSUME \/ CreateJob(j) \/ StartJob(j) \/ ResolveLimit(j) \/ AcquireSlot(j) \/ MarkRunning(j)
               \/ BuildService(j) \/ ServiceConstructionFails(j) \/ ReleaseSlot(j) \/ AbortJob(j)
        PROVE  /\ UNCHANGED <<processed, outcome, result>>
               /\ \/ pc[j] \in Fresh /\ pc'[j] \in Fresh \cup {"items", "dead"}
                  \/ pc'[j] \in {"release", "done"}
    BY <2>2 DEF CreateJob, StartJob, ResolveLimit, AcquireSlot, MarkRunning, BuildService,
                ServiceConstructionFails, ReleaseSlot, AbortJob, TypeOK, Fresh
  <2>3. ASSUME NEW o \in Outcomes, ProcessItem(j, o)
        PROVE  /\ Recorded(j)'
               /\ KindOf[j] = "plan" => Kept(result'[j], processed'[j])
    <3> DEFINE outs == Append(outcome[j], o)
               entry == EntryFor(j, Len(outs), o)
    <3>1. /\ outs \in Seq(Outcomes) /\ Len(outs) \in 1..Len(ItemsOf[j])
          /\ result[j] \in Seq(Entries) /\ processed[j] \in Seq(Entries)
      BY <2>3, JobsAssumption DEF ProcessItem, TypeOK
    <3>2. entry \in Entries /\ Genuine(entry)
      BY <3>1, EntryType, GenuineEntry
    <3>3. pc[j] = "items" /\ pc'[j] = "items" /\ outcome'[j] = outs
      BY <2>3 DEF ProcessItem, TypeOK
    <3>4. outs # <<>>
      BY <3>1
    <3>5. \/ result'[j] = result[j] /\ processed'[j] = processed[j]
          \/ result'[j] = Append(result[j], entry) /\ processed'[j] = processed[j] /\ KindOf[j] = "single"
          \/ result'[j] = Append(result[j], entry) /\ processed'[j] = RecordProgress(processed[j], entry)
      BY <2>3 DEF ProcessItem, TypeOK, outs, entry
    <3> HIDE DEF outs, entry
    <3>6. pc'[j] \notin Fresh /\ outcome'[j] # <<>>
      BY <3>3, <3>4 DEF Fresh
    <3>7. \A n \in DOMAIN result'[j] : Genuine(result'[j][n])
      <4>1. ASSUME NEW n \in DOMAIN Append(result[j], entry)
            PROVE  \/ Append(result[j], entry)[n] = entry
                   \/ n \in DOMAIN result[j] /\ Append(result[j], entry)[n] = result[j][n]
        BY <3>1, <3>2
      <4> QED
        BY <2>0, <3>2, <3>5, <4>1 DEF Recorded
    <3>8. KindOf[j] = "plan" => Kept(result[j], processed[j])
      BY <2>0, <3>3
    <3>9. CASE processed'[j] = processed[j]
      BY <2>0, <3>5, <3>6, <3>8, <3>9, <3>7, KeptRecording, <3>1, <3>2 DEF Recorded
    <3>10. CASE result'[j] = Append(result[j], entry) /\ processed'[j] = RecordProgress(processed[j], entry)
      <4>1. CASE KindOf[j] = "plan"
        <5>1. Kept(result[j], processed[j])
          BY <3>8, <4>1
        <5>2. \A n \in DOMAIN processed[j] : Genuine(processed[j][n])
          BY <2>0 DEF Recorded
        <5>3. /\ Kept(Append(result[j], entry), RecordProgress(processed[j], entry))
              /\ \A n \in DOMAIN RecordProgress(processed[j], entry) : Genuine(RecordProgress(processed[j], entry)[n])
          BY <3>1, <3>2, <5>1, <5>2, KeptRecording
        <5> QED
          BY <3>6, <3>10, <3>7, <5>3 DEF Recorded
      <4>2. CASE KindOf[j] # "plan"
        <5>1. KindOf[j] = "single"
          BY <4>2, JobsAssumption
        <5>2. processed'[j] = processed[j]
          BY <2>3, <5>1 DEF ProcessItem
        <5> QED
          BY <2>0, <3>6, <3>7, <4>2, <5>2 DEF Recorded
      <4> QED
        BY <4>1, <4>2
    <3> QED
      BY <3>5, <3>9, <3>10
  <2>4. ASSUME PublishResult(j)
        PROVE  /\ pc'[j] = "release" /\ processed'[j] = result[j] /\ UNCHANGED <<outcome, result>>
    BY <2>4 DEF PublishResult, TypeOK
  <2>5. ASSUME ChangeLimit \/ UNCHANGED vars
        PROVE  UNCHANGED <<pc, processed, outcome, result>>
    BY <2>5 DEF ChangeLimit, vars
  <2>6. ASSUME Restart
        PROVE  processed'[j] = <<>> /\ outcome'[j] = <<>> /\ result'[j] = <<>>
    BY <2>6 DEF Restart
  <2>7. ASSUME UNCHANGED <<outcome, processed, result>>, pc'[j] \in Fresh \cup {"items", "dead"} => pc[j] \in Fresh \cup {"items", "dead"},
               pc'[j] \in Fresh => pc[j] \in Fresh
        PROVE  /\ Recorded(j)'
               /\ KindOf[j] = "plan" /\ (pc'[j] \in Fresh \/ pc'[j] \in {"items", "dead"})
                    => Kept(result'[j], processed'[j])
    BY <2>0, <2>7 DEF Recorded
  <2>8. CASE CreateJob(j) \/ StartJob(j) \/ RunJob(j)
    <3>1. CASE \E o \in Outcomes : ProcessItem(j, o)
      BY <2>3, <3>1
    <3>2. CASE PublishResult(j)
      BY <2>0, <2>4, <3>2 DEF Recorded, Fresh
    <3>3. CASE \/ CreateJob(j) \/ StartJob(j) \/ ResolveLimit(j) \/ AcquireSlot(j) \/ MarkRunning(j)
               \/ BuildService(j) \/ ServiceConstructionFails(j) \/ ReleaseSlot(j) \/ AbortJob(j)
      BY <2>2, <2>7, <3>3 DEF Fresh
    <3> QED
      BY <2>8, <3>1, <3>2, <3>3 DEF RunJob
  <2>9. ASSUME NEW i \in Jobs, i # j, CreateJob(i) \/ StartJob(i) \/ RunJob(i)
        PROVE  /\ Recorded(j)'
               /\ KindOf[j] = "plan" /\ (pc'[j] \in Fresh \/ pc'[j] \in {"items", "dead"})
                    => Kept(result'[j], processed'[j])
    BY <2>0, <2>1, <2>9 DEF Recorded
  <2>10. CASE Restart
    BY <1>0, <2>6, <2>10 DEF Recorded
  <2> QED
    BY <2>5, <2>7, <2>8, <2>9, <2>10 DEF Next
<1> QED
  BY <1>1, <1>2, TypeCorrect, PTL DEF Spec

(* While a plan runs, no progress report hides the name of a document that  *)
(* was reported before it.                                                 *)
THEOREM NamesAreKept == Spec => []ProgressKeepsNames
<1>1. TypeOK /\ StatusFollowsThread /\ Told => ProgressKeepsNames
  <2> SUFFICES ASSUME TypeOK, StatusFollowsThread, Told, NEW j \in Jobs, status[j] = "running", KindOf[j] = "plan"
               PROVE  Kept(result[j], processed[j])
    BY DEF ProgressKeepsNames, Kept
  <2>1. pc[j] \in {"service", "items", "dead"}
    BY DEF StatusFollowsThread, StatusOf, TypeOK, Locations
  <2> QED
    BY <2>1 DEF Told, Fresh
<1> QED
  BY <1>1, TypeCorrect, StatusFollows, TellingIsKept, PTL

-----------------------------------------------------------------------------
(* What a final status says                                                *)

Share(s, entries) == {k \in DOMAIN entries : entries[k].status = s}
Cases(s, outs) == {k \in DOMAIN outs : outs[k] = s}

LEMMA MoreCases ==
  ASSUME NEW outs \in Seq(Outcomes), NEW o \in Outcomes, NEW s
  PROVE  /\ Cardinality(Cases(s, outs)) \in Nat
         /\ Cardinality(Cases(s, Append(outs, o))) =
              IF o = s THEN Cardinality(Cases(s, outs)) + 1 ELSE Cardinality(Cases(s, outs))
<1> DEFINE new == Append(outs, o)
<1>1. /\ Len(outs) \in Nat /\ DOMAIN outs = 1..Len(outs) /\ DOMAIN new = 1..(Len(outs) + 1)
      /\ new[Len(outs) + 1] = o /\ \A m \in 1..Len(outs) : new[m] = outs[m]
  OBVIOUS
<1> HIDE DEF new
<1>2. Cases(s, outs) \subseteq 1..Len(outs)
  BY <1>1 DEF Cases
<1>3. IsFiniteSet(Cases(s, outs)) /\ Cardinality(Cases(s, outs)) \in Nat
  <2>1. IsFiniteSet(1..Len(outs))
    BY <1>1, FS_Interval
  <2>2. IsFiniteSet(Cases(s, outs))
    BY <1>2, <2>1, FS_Subset
  <2> QED
    BY <2>2, FS_CardinalityType
<1>4. CASE o = s
  <2>1. Cases(s, new) = Cases(s, outs) \cup {Len(outs) + 1}
    BY <1>1, <1>4 DEF Cases
  <2>2. Len(outs) + 1 \notin Cases(s, outs)
    BY <1>1, <1>2
  <2> QED
    BY <1>3, <1>4, <2>1, <2>2, FS_AddElement DEF new
<1>5. CASE o # s
  <2>1. Cases(s, new) = Cases(s, outs)
    BY <1>1, <1>5 DEF Cases
  <2> QED
    BY <1>3, <1>5, <2>1 DEF new
<1> QED
  BY <1>4, <1>5

LEMMA MoreEntries ==
  ASSUME NEW entries \in Seq(Entries), NEW e \in Entries, NEW s
  PROVE  /\ Cardinality(Share(s, entries)) \in Nat
         /\ Cardinality(Share(s, Append(entries, e))) =
              IF e.status = s THEN Cardinality(Share(s, entries)) + 1 ELSE Cardinality(Share(s, entries))
<1> DEFINE new == Append(entries, e)
<1>1. /\ Len(entries) \in Nat /\ DOMAIN entries = 1..Len(entries) /\ DOMAIN new = 1..(Len(entries) + 1)
      /\ new[Len(entries) + 1] = e /\ \A m \in 1..Len(entries) : new[m] = entries[m]
  OBVIOUS
<1> HIDE DEF new
<1>2. Share(s, entries) \subseteq 1..Len(entries)
  BY <1>1 DEF Share
<1>3. IsFiniteSet(Share(s, entries)) /\ Cardinality(Share(s, entries)) \in Nat
  <2>1. IsFiniteSet(1..Len(entries))
    BY <1>1, FS_Interval
  <2>2. IsFiniteSet(Share(s, entries))
    BY <1>2, <2>1, FS_Subset
  <2> QED
    BY <2>2, FS_CardinalityType
<1>4. CASE e.status = s
  <2>1. Share(s, new) = Share(s, entries) \cup {Len(entries) + 1}
    BY <1>1, <1>4 DEF Share
  <2>2. Len(entries) + 1 \notin Share(s, entries)
    BY <1>1, <1>2
  <2> QED
    BY <1>3, <1>4, <2>1, <2>2, FS_AddElement DEF new
<1>5. CASE e.status # s
  <2>1. Share(s, new) = Share(s, entries)
    BY <1>1, <1>5 DEF Share
  <2> QED
    BY <1>3, <1>5, <2>1 DEF new
<1> QED
  BY <1>4, <1>5

(* The result has one entry for each document that completed or failed, and *)
(* a final status was set with that result, or before the first document.  *)
Tally(entries, outs) ==
  \A s \in {"completed", "failed"} : Cardinality(Share(s, entries)) = Cardinality(Cases(s, outs))

Published(j) == Len(outcome[j]) = Len(ItemsOf[j]) /\ processed[j] = result[j]

Accounted(j) ==
  /\ Tally(result[j], outcome[j])
  /\ status[j] = "completed" => ~error[j] /\ Published(j) /\ ~HasErrors(outcome[j])
  /\ status[j] = "failed" => error[j]
  /\ status[j] = "failed" /\ KindOf[j] = "plan" =>
       Published(j) \/ (outcome[j] = <<>> /\ processed[j] = <<>> /\ result[j] = <<>>)

LEMMA Accounting == Spec => [](\A j \in Jobs : Accounted(j))
<1>0. Tally(<<>>, <<>>)
  BY DEF Tally, Share, Cases
<1>1. Init => \A j \in Jobs : Accounted(j)
  BY <1>0 DEF Init, Accounted
<1>2. TypeOK /\ StatusFollowsThread /\ Told /\ (\A j \in Jobs : Accounted(j)) /\ [Next]_vars
        => (\A j \in Jobs : Accounted(j))'
  <2> SUFFICES ASSUME TypeOK, StatusFollowsThread, Told, \A i \in Jobs : Accounted(i), [Next]_vars, NEW j \in Jobs
               PROVE  Accounted(j)'
    OBVIOUS
  <2> USE DEF Goto, registry, local
  <2>0. /\ Accounted(j)
        /\ status[j] \in {"completed", "failed"} => pc[j] \in {"release", "done"}
    BY DEF StatusFollowsThread, StatusOf, TypeOK, Locations
  <2>1. ASSUME processed'[j] = processed[j], outcome'[j] = outcome[j], result'[j] = result[j], error'[j] = error[j],
               status'[j] = status[j] \/ status'[j] \in {"absent", "registered", "running"}
        PROVE  Accounted(j)'
    BY <2>0, <2>1 DEF Accounted, Published
  <2>2. ASSUME NEW i \in Jobs, i # j, CreateJob(i) \/ StartJob(i) \/ RunJob(i)
        PROVE  Accounted(j)'
    BY <2>1, <2>2, StepsOfOthers
  <2>3. CASE \/ CreateJob(j) \/ StartJob(j) \/ ResolveLimit(j) \/ AcquireSlot(j) \/ MarkRunning(j)
             \/ BuildService(j) \/ ServiceConstructionFails(j) \/ ReleaseSlot(j)
    BY <2>1, <2>3 DEF CreateJob, StartJob, ResolveLimit, AcquireSlot, MarkRunning,
                      BuildService, ServiceConstructionFails, ReleaseSlot, TypeOK
  <2>4. ASSUME NEW o \in Outcomes, ProcessItem(j, o) PROVE Accounted(j)'
    <3> DEFINE outs == Append(outcome[j], o)
               entry == EntryFor(j, Len(outs), o)
    <3>1. /\ outs \in Seq(Outcomes) /\ Len(outs) \in 1..Len(ItemsOf[j])
          /\ result[j] \in Seq(Entries) /\ outcome[j] \in Seq(Outcomes)
      BY <2>4, JobsAssumption DEF ProcessItem, TypeOK
    <3>2. entry \in Entries /\ entry.status = IF o = "completed" THEN "completed" ELSE "failed"
      BY <3>1, EntryType DEF EntryFor
    <3>3. /\ outcome'[j] = outs /\ result'[j] = IF o = "vanished" THEN result[j] ELSE Append(result[j], entry)
          /\ status'[j] = status[j] /\ status[j] \notin {"completed", "failed"}
      BY <2>0, <2>4 DEF ProcessItem, TypeOK
    <3> HIDE DEF entry
    <3>4. ASSUME NEW s \in {"completed", "failed"}
          PROVE  Cardinality(Share(s, result'[j])) = Cardinality(Cases(s, outs))
      <4>1. Cardinality(Share(s, result[j])) = Cardinality(Cases(s, outcome[j]))
        BY <2>0 DEF Accounted, Tally
      <4>2. Cardinality(Cases(s, outs)) =
              IF o = s THEN Cardinality(Cases(s, outcome[j])) + 1 ELSE Cardinality(Cases(s, outcome[j]))
        BY <3>1, MoreCases
      <4>3. CASE o = "vanished"
        BY <3>3, <4>1, <4>2, <4>3
      <4>4. CASE o # "vanished"
        <5>1. Cardinality(Share(s, Append(result[j], entry))) =
                IF entry.status = s THEN Cardinality(Share(s, result[j])) + 1 ELSE Cardinality(Share(s, result[j]))
          BY <3>1, <3>2, MoreEntries
        <5>2. entry.status = s <=> o = s
          BY <3>2, <4>4 DEF Outcomes
        <5> QED
          BY <3>3, <4>1, <4>2, <4>4, <5>1, <5>2
      <4> QED
        BY <4>3, <4>4
    <3> QED
      BY <3>3, <3>4 DEF Accounted, Tally
  <2>5. CASE PublishResult(j)
    <3>1. /\ Len(outcome[j]) = Len(ItemsOf[j]) /\ processed'[j] = result[j] /\ outcome' = outcome /\ result' = result
          /\ error'[j] = HasErrors(outcome[j])
          /\ status'[j] = IF HasErrors(outcome[j]) THEN "failed" ELSE "completed"
      BY <2>5 DEF PublishResult, TypeOK
    <3> QED
      BY <2>0, <3>1 DEF Accounted, Published, HasErrors
  <2>6. CASE AbortJob(j)
    <3>1. /\ error'[j] = TRUE /\ status'[j] = "failed" /\ UNCHANGED <<processed, outcome, result>>
          /\ KindOf[j] = "plan" => outcome[j] = <<>>
      BY <2>6 DEF AbortJob, TypeOK
    <3>2. KindOf[j] = "plan" => processed[j] = <<>> /\ result[j] = <<>>
      BY <3>1 DEF Told, Recorded
    <3> QED
      BY <2>0, <3>1, <3>2 DEF Accounted, Published
  <2>7. CASE ChangeLimit \/ UNCHANGED vars
    BY <2>1, <2>7 DEF ChangeLimit, vars
  <2>8. CASE Restart
    <3>1. outcome'[j] = <<>> /\ result'[j] = <<>> /\ status'[j] = "absent"
      BY <2>8 DEF Restart
    <3> QED
      BY <1>0, <3>1 DEF Accounted
  <2> QED
    BY <2>2, <2>3, <2>4, <2>5, <2>6, <2>7, <2>8 DEF Next, RunJob
<1> QED
  BY <1>1, <1>2, TypeCorrect, StatusFollows, TellingIsKept, PTL DEF Spec

(* A final status, and the entries beside it, tell what happened to the     *)
(* documents, whatever progress was reported and overwritten on the way.   *)
THEOREM OutcomesAreFaithful == Spec => []OutcomeFaithful
<1>1. TypeOK /\ (\A j \in Jobs : Accounted(j)) => OutcomeFaithful
  <2> SUFFICES ASSUME TypeOK, NEW j \in Jobs, Accounted(j)
               PROVE  /\ status[j] = "completed" =>
                           /\ ~error[j]
                           /\ Len(outcome[j]) = Len(ItemsOf[j])
                           /\ Cardinality(Share("completed", processed[j])) = Cardinality(Cases("completed", outcome[j]))
                           /\ Cases("failed", outcome[j]) = {}
                      /\ status[j] = "failed" => error[j]
                      /\ status[j] = "failed" /\ KindOf[j] = "plan" =>
                           /\ Len(outcome[j]) \in {0, Len(ItemsOf[j])}
                           /\ Cardinality(Share("failed", processed[j])) = Cardinality(Cases("failed", outcome[j]))
    BY DEF OutcomeFaithful, Share, Cases
  <2>1. status[j] = "completed" => Cases("failed", outcome[j]) = {}
    BY DEF Accounted, HasErrors, Cases
  <2>2. Tally(result[j], outcome[j])
    BY DEF Accounted
  <2>3. Cardinality(Share("failed", <<>>)) = Cardinality(Cases("failed", <<>>)) /\ Len(<<>>) = 0
    BY DEF Share, Cases
  <2> QED
    BY <2>1, <2>2, <2>3 DEF Accounted, Published, Tally
<1> QED
  BY <1>1, TypeCorrect, Accounting, PTL
=============================================================================
