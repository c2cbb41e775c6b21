------------------------ MODULE MetadataCatalog_proofs ------------------------
(***************************************************************************)
(* Proofs about the metadata catalogue, for any users, datasets, archives, *)
(* tables and requests: types, links, private rows, columns, replacements, *)
(* and the workbooks that are converted.                                   *)
(***************************************************************************)
EXTENDS MetadataCatalog, FiniteSetTheorems, SequenceTheorems, WellFoundedInduction, TLAPS

(* What an actor holds while it is at work.                                *)
Working ==
  \A r \in Actors :
    /\ pc[r] \in Steps => job[r].user \in Users /\ job[r].dataset \in Datasets
    /\ pc[r] \in {"rows", "links", "list", "refresh"} => job[r].table \in Tables
    /\ pc[r] \in {"lookup", "attach"} => job[r].archive \in Archives
    /\ pc[r] = "attach" => job[r].read \in Tables
    /\ pc[r] = "refresh" /\ job[r].todo # <<>> => job[r].read \in Tables

(* The keys of a table are archives, the first of them too.                *)
LEMMA FirstKeysType ==
  ASSUME NEW t \in Tables \cup {None}
  PROVE  FirstKeys(t) \in Seq(Archives) /\ (t = None => FirstKeys(t) = <<>>)
<1>1. CASE t = None
  BY <1>1 DEF FirstKeys
<1>2. CASE t # None
  <2> DEFINE s == KeysOf[t]
             n == IF Len(s) < RefreshLimit THEN Len(s) ELSE RefreshLimit
  <2>1. s \in Seq(Archives)
    BY <1>2, TablesAssumption
  <2>2. Len(s) \in Nat /\ n \in 0..Len(s)
    BY <2>1, LenProperties, TablesAssumption
  <2>3. SubSeq(s, 1, n) \in Seq(Archives)
    BY <2>1, <2>2, SubSeqProperties
  <2> QED
    BY <1>2, <2>3 DEF FirstKeys
<1> QED
  BY <1>1, <1>2

(* An upload record is never the absent one.                               *)
LEMMA UploadExists ==
  ASSUME NEW u \in Uploads
  PROVE  u # NoUpload
BY TablesAssumption DEF Uploads, NoUpload

(* What one actor may hold at a step.                                      *)
Holds(j, step) ==
  /\ step \in Steps => j.user \in Users /\ j.dataset \in Datasets
  /\ step \in {"rows", "links", "list", "refresh"} => j.table \in Tables
  /\ step \in {"lookup", "attach"} => j.archive \in Archives
  /\ step = "attach" => j.read \in Tables
  /\ step = "refresh" /\ j.todo # <<>> => j.read \in Tables

(* A step of one actor leaves what the others hold.                        *)
LEMMA Moves ==
  ASSUME TypeOK, Working, NEW r \in Actors, NEW j \in Jobs,
         NEW step \in {"idle", "done", "failed"} \cup Steps, Holds(j, step),
         pc' = [pc EXCEPT ![r] = step], job' = [job EXCEPT ![r] = j]
  PROVE  /\ pc' \in [Actors -> {"idle", "done", "failed"} \cup Steps]
         /\ job' \in [Actors -> Jobs]
         /\ Working'
<1>1. pc' \in [Actors -> {"idle", "done", "failed"} \cup Steps] /\ job' \in [Actors -> Jobs]
  BY DEF TypeOK
<1>2. ASSUME NEW q \in Actors PROVE Holds(job'[q], pc'[q])
  <2>1. CASE q = r
    BY <2>1 DEF TypeOK
  <2>2. CASE q # r
    BY <2>2 DEF TypeOK, Working, Holds
  <2> QED
    BY <2>1, <2>2
<1>3. Working'
  BY <1>2 DEF Working, Holds
<1> QED
  BY <1>1, <1>3

(* A request that holds nothing is well typed.                             *)
LEMMA NoJobType == NoJob \in Jobs
BY DEF NoJob, Jobs

(* A request that begins.                                                  *)
LEMMA Starting ==
  ASSUME TypeOK, Working, NEW r \in Actors, NEW j \in Jobs, NEW step \in Steps,
         Holds(j, step), Start(r, j, step)
  PROVE  /\ pc' \in [Actors -> {"idle", "done", "failed"} \cup Steps]
         /\ job' \in [Actors -> Jobs]
         /\ overlapped' \subseteq Actors /\ torn' \subseteq Datasets
         /\ Working'
<1>1. pc' = [pc EXCEPT ![r] = step] /\ job' = [job EXCEPT ![r] = j]
  BY DEF Start, Goto
<1>2. Writing \subseteq Actors
  BY DEF Writing, Actors
<1>3. overlapped' \subseteq Actors
  BY <1>2 DEF Start, TypeOK
<1>4. step \in Steps => j.dataset \in Datasets
  BY DEF Holds
<1>5. torn' \subseteq Datasets
  BY <1>4 DEF Start, TypeOK
<1> QED
  BY <1>1, <1>3, <1>5, Moves

(* A request that ends.                                                    *)
LEMMA Ending ==
  ASSUME TypeOK, Working, NEW r \in Actors, NEW how \in {"idle", "done", "failed"}, Ends(r, how)
  PROVE  /\ pc' \in [Actors -> {"idle", "done", "failed"} \cup Steps]
         /\ job' \in [Actors -> Jobs]
         /\ Working'
<1>1. NoJob \in Jobs
  BY DEF NoJob, Jobs
<1>2. Holds(NoJob, how)
  BY DEF Holds, Steps
<1> QED
  BY <1>1, <1>2, Moves DEF Ends, Goto

(* A request that goes on with what it holds.                              *)
LEMMA Going ==
  ASSUME TypeOK, Working, NEW r \in Actors, NEW step \in {"idle", "done", "failed"} \cup Steps,
         Goto(r, step), UNCHANGED job, Holds(job[r], step)
  PROVE  /\ pc' \in [Actors -> {"idle", "done", "failed"} \cup Steps]
         /\ job' \in [Actors -> Jobs]
         /\ Working'
<1>1. job[r] \in Jobs /\ job' = [job EXCEPT ![r] = job[r]]
  BY DEF TypeOK
<1> QED
  BY <1>1, Moves DEF Goto

(* Every reachable state is well typed, and actors hold what they work on. *)
LEMMA TypeInvariance == Spec => [](TypeOK /\ Working)
<1>1. Init => TypeOK /\ Working
  <2> SUFFICES ASSUME Init PROVE TypeOK /\ Working
    OBVIOUS
  <2>1. NoJob \in Jobs
    BY DEF NoJob, Jobs
  <2>2. TypeOK
    BY <2>1 DEF Init, TypeOK
  <2>3. Working
    BY DEF Init, Working, Steps
  <2> QED
    BY <2>2, <2>3
<1>2. TypeOK /\ Working /\ [Next]_vars => TypeOK' /\ Working'
  <2> SUFFICES ASSUME TypeOK, Working, [Next]_vars PROVE TypeOK' /\ Working'
    OBVIOUS
  <2>1. Writers \subseteq Actors /\ Ingests \subseteq Actors /\ Readers \subseteq Actors
    BY DEF Actors
  <2>2. ASSUME NEW r \in Writers, RejectCsv(r) \/ ContentNotFound(r) PROVE TypeOK' /\ Working'
    <3>1. Goto(r, "failed") /\ UNCHANGED <<tables, job, history>>
      BY <2>2 DEF RejectCsv, ContentNotFound
    <3>2. Holds(job[r], "failed")
      BY DEF Holds, Steps
    <3> QED
      BY <2>1, <3>1, <3>2, Going DEF TypeOK, tables, history
  <2>3. ASSUME NEW r \in Writers, NEW u \in Users, NEW d \in Datasets, NEW t \in Tables,
               NEW scope \in Scopes, CreateUpload(r, u, d, t, scope)
        PROVE  TypeOK' /\ Working'
    <3> DEFINE j == [NoJob EXCEPT !.user = u, !.dataset = d, !.table = t]
    <3>1. j \in Jobs /\ Holds(j, "rows")
      <4>1. j \in Jobs /\ j.user = u /\ j.dataset = d /\ j.table = t
        BY NoJobType DEF Jobs
      <4> HIDE DEF j
      <4> QED
        BY <4>1 DEF Holds
    <3>2. uploads' \in [Datasets -> Uploads \cup {NoUpload}]
      BY <2>3 DEF CreateUpload, TypeOK, Uploads
    <3>3. Start(r, j, "rows") /\ UNCHANGED <<rows, files, archives, seen>>
      BY <2>3 DEF CreateUpload
    <3>4. given' \subseteq Datasets /\ everShared' \subseteq Datasets
      BY <2>3 DEF CreateUpload, TypeOK
    <3> HIDE DEF j
    <3>5. "rows" \in Steps
      BY DEF Steps
    <3> QED
      BY <2>1, <3>1, <3>2, <3>3, <3>4, <3>5, Starting DEF TypeOK
  <2>4. ASSUME NEW r \in Writers, NEW u \in Users, NEW d \in Datasets, NEW t \in Tables,
               UpdateContent(r, u, d, t)
        PROVE  TypeOK' /\ Working'
    <3> DEFINE j == [NoJob EXCEPT !.user = u, !.dataset = d, !.table = t, !.replaces = TRUE]
    <3>1. j \in Jobs /\ Holds(j, "rows")
      <4>1. j \in Jobs /\ j.user = u /\ j.dataset = d /\ j.table = t
        BY NoJobType DEF Jobs
      <4> HIDE DEF j
      <4> QED
        BY <4>1 DEF Holds
    <3>2. uploads[d] \in Uploads
      BY <2>4 DEF UpdateContent, Owns, Exists, TypeOK
    <3>3. uploads' \in [Datasets -> Uploads \cup {NoUpload}]
      BY <2>4, <3>2 DEF UpdateContent, TypeOK, Uploads
    <3>4. Start(r, j, "rows") /\ UNCHANGED <<rows, files, archives, given, everShared, seen>>
      BY <2>4 DEF UpdateContent
    <3> HIDE DEF j
    <3>5. "rows" \in Steps
      BY DEF Steps
    <3> QED
      BY <2>1, <3>1, <3>3, <3>4, <3>5, Starting DEF TypeOK
  <2>5. ASSUME NEW r \in Writers, WriteRows(r) PROVE TypeOK' /\ Working'
    <3>1. job[r].table \in Tables /\ job[r].user \in Users /\ job[r].dataset \in Datasets
      BY <2>1, <2>5 DEF WriteRows, Working, Steps
    <3>2. rows' \in [Datasets -> Tables \cup {None}]
      BY <2>5, <3>1 DEF WriteRows, TypeOK
    <3>3. AfterRows(r) \in {"links", "report"}
      BY DEF AfterRows
    <3>4. Holds(job[r], AfterRows(r)) /\ AfterRows(r) \in Steps
      BY <3>1, <3>3 DEF Holds, Steps
    <3>5. Goto(r, AfterRows(r)) /\ UNCHANGED <<uploads, files, archives, job, history>>
      BY <2>5 DEF WriteRows
    <3> QED
      BY <2>1, <3>2, <3>4, <3>5, Going DEF TypeOK, history
  <2>6. ASSUME NEW r \in Writers, ListLinked(r) PROVE TypeOK' /\ Working'
    <3> DEFINE linked == {x.archive : x \in {y \in ArchiveMetadata(job[r].user) : y.dataset = job[r].dataset}}
               step == IF linked = {} THEN "report" ELSE "list"
               j == [job[r] EXCEPT !.linked = linked]
    <3>1. linked \subseteq Archives
      <4>1. \A y \in ArchiveMetadata(job[r].user) : y.archive \in Archives
        <5> SUFFICES ASSUME NEW y \in ArchiveMetadata(job[r].user) PROVE y.archive \in Archives
          OBVIOUS
        <5>1. PICK a \in Archives : y = [archive |-> a, dataset |-> archives[<<job[r].user, a>>].dataset,
                                         table |-> archives[<<job[r].user, a>>].table]
          BY DEF ArchiveMetadata
        <5> QED
          BY <5>1
      <4> QED
        BY <4>1
    <3>2. job[r] \in Jobs
      BY <2>1 DEF TypeOK
    <3>3. job[r].table \in Tables /\ job[r].user \in Users /\ job[r].dataset \in Datasets
      BY <2>1, <2>6 DEF ListLinked, Working, Steps
    <3>4. pc' = [pc EXCEPT ![r] = step] /\ UNCHANGED <<tables, history>>
      BY <2>6 DEF ListLinked, Goto
    <3>5. job' = [job EXCEPT ![r].linked = linked]
      BY <2>6 DEF ListLinked
    <3> HIDE DEF linked
    <3>6. job' = [job EXCEPT ![r] = j]
      BY <2>1, <3>5 DEF TypeOK
    <3>7. j \in Jobs /\ Holds(j, step) /\ step \in Steps
      BY <3>1, <3>2, <3>3 DEF Jobs, Holds, Steps
    <3> HIDE DEF j, step
    <3> QED
      BY <2>1, <3>4, <3>6, <3>7, Moves DEF TypeOK, tables, history
  <2>7. ASSUME NEW r \in Writers, ListRows(r) PROVE TypeOK' /\ Working'
    <3> DEFINE t == rows[job[r].dataset]
               j == [job[r] EXCEPT !.todo = FirstKeys(t), !.read = t]
    <3>1. job[r] \in Jobs
      BY <2>1 DEF TypeOK
    <3>2. job[r].table \in Tables /\ job[r].user \in Users /\ job[r].dataset \in Datasets
      BY <2>1, <2>7 DEF ListRows, Working, Steps
    <3>3. t \in Tables \cup {None}
      BY <3>2 DEF TypeOK
    <3>4. FirstKeys(t) \in Seq(Archives) /\ (t = None => FirstKeys(t) = <<>>)
      BY <3>3, FirstKeysType
    <3>5. pc' = [pc EXCEPT ![r] = "refresh"] /\ UNCHANGED <<tables, history>>
      BY <2>7 DEF ListRows, Goto
    <3>6. job' = [job EXCEPT ![r].todo = FirstKeys(t), ![r].read = t]
      BY <2>7 DEF ListRows
    <3> HIDE DEF t
    <3>7. job' = [job EXCEPT ![r] = j]
      BY <2>1, <3>6 DEF TypeOK
    <3>8. j \in Jobs /\ Holds(j, "refresh") /\ "refresh" \in Steps
      BY <3>1, <3>2, <3>3, <3>4 DEF Jobs, Holds, Steps
    <3> HIDE DEF j
    <3> QED
      BY <2>1, <3>5, <3>7, <3>8, Moves DEF TypeOK, tables, history
  <2>8. ASSUME NEW r \in Writers, RefreshOne(r) PROVE TypeOK' /\ Working'
    <3>1. job[r] \in Jobs
      BY <2>1 DEF TypeOK
    <3>2. job[r].table \in Tables /\ job[r].user \in Users /\ job[r].dataset \in Datasets
      BY <2>1, <2>8 DEF RefreshOne, Working, Steps
    <3>3. PICK i \in DOMAIN job[r].todo :
            /\ archives' = [archives EXCEPT ![<<job[r].user, job[r].todo[i]>>] =
                              [dataset |-> job[r].dataset, table |-> job[r].read]]
            /\ job' = [job EXCEPT ![r].todo = SubSeq(job[r].todo, i + 1, Len(job[r].todo))]
      BY <2>8 DEF RefreshOne
    <3> DEFINE rest == SubSeq(job[r].todo, i + 1, Len(job[r].todo))
               j == [job[r] EXCEPT !.todo = rest]
    <3>4. job[r].todo \in Seq(Archives)
      BY <3>1 DEF Jobs
    <3>5. i \in 1..Len(job[r].todo) /\ Len(job[r].todo) \in Nat /\ job[r].todo # <<>>
      BY <3>3, <3>4, LenProperties, EmptySeq
    <3>6. job[r].read \in Tables
      BY <2>1, <2>8, <3>5 DEF RefreshOne, Working
    <3>7. rest \in Seq(Archives)
      BY <3>4, <3>5, SubSeqProperties
    <3>8. archives' \in [Users \X Archives -> {NoRow} \cup [dataset : Datasets \cup {None}, table : Tables]]
      BY <3>2, <3>3, <3>6 DEF TypeOK
    <3>9. UNCHANGED <<uploads, rows, files, pc, history>> /\ pc[r] = "refresh"
      BY <2>8 DEF RefreshOne
    <3>10. job' = [job EXCEPT ![r].todo = rest]
      BY <3>3
    <3> HIDE DEF rest
    <3>11. job' = [job EXCEPT ![r] = j]
      BY <2>1, <3>10 DEF TypeOK
    <3>12. j \in Jobs /\ Holds(j, "refresh") /\ "refresh" \in Steps
      BY <3>1, <3>2, <3>6, <3>7 DEF Jobs, Holds, Steps
    <3>13. pc' = [pc EXCEPT ![r] = "refresh"]
      BY <2>1, <3>9 DEF TypeOK
    <3> HIDE DEF j
    <3> QED
      BY <2>1, <3>8, <3>9, <3>11, <3>12, <3>13, Moves DEF TypeOK, history
  <2>9. ASSUME NEW r \in Writers, Refreshed(r) PROVE TypeOK' /\ Working'
    <3>1. job[r].user \in Users /\ job[r].dataset \in Datasets
      BY <2>1, <2>9 DEF Refreshed, Working, Steps
    <3>2. Holds(job[r], "report") /\ "report" \in Steps
      BY <3>1 DEF Holds, Steps
    <3>3. Goto(r, "report") /\ UNCHANGED <<tables, job, history>>
      BY <2>9 DEF Refreshed
    <3> QED
      BY <2>1, <3>2, <3>3, Going DEF TypeOK, tables, history
  <2>10. ASSUME NEW r \in Actors, NEW how \in {"idle", "done", "failed"}, Ends(r, how),
                UNCHANGED <<tables, history>>
         PROVE  TypeOK' /\ Working'
    BY <2>10, Ending DEF TypeOK, tables, history
  <2>11. ASSUME NEW r \in Writers, WriterFails(r) PROVE TypeOK' /\ Working'
    <3>1. job[r].dataset \in Datasets
      BY <2>1, <2>11 DEF WriterFails, Working
    <3>2. torn' \subseteq Datasets
      BY <2>11, <3>1 DEF WriterFails, TypeOK
    <3>3. Ends(r, "failed") /\ UNCHANGED <<tables, given, everShared, overlapped, seen>>
      BY <2>11 DEF WriterFails
    <3> QED
      BY <2>1, <3>2, <3>3, Ending DEF TypeOK, tables
  <2>12. ASSUME NEW r \in Ingests, NEW u \in Users, NEW a \in Archives, NEW d \in Datasets,
                Register(r, u, a, d)
         PROVE  TypeOK' /\ Working'
    <3> DEFINE j == [NoJob EXCEPT !.user = u, !.dataset = d, !.archive = a]
    <3>1. j \in Jobs /\ Holds(j, "lookup")
      <4>1. j \in Jobs /\ j.user = u /\ j.dataset = d /\ j.archive = a
        BY NoJobType DEF Jobs
      <4> HIDE DEF j
      <4> QED
        BY <4>1 DEF Holds
    <3>2. files' \subseteq Users \X Archives
      BY <2>12 DEF Register, TypeOK
    <3>3. Start(r, j, "lookup") /\ UNCHANGED <<uploads, rows, archives, given, everShared, seen>>
      BY <2>12 DEF Register
    <3> HIDE DEF j
    <3>4. "lookup" \in Steps
      BY DEF Steps
    <3> QED
      BY <2>1, <3>1, <3>2, <3>3, <3>4, Starting DEF TypeOK
  <2>13. ASSUME NEW r \in Ingests, LookupRow(r) PROVE TypeOK' /\ Working'
    <3> DEFINE t == rows[job[r].dataset]
               j == [job[r] EXCEPT !.read = t]
    <3>1. job[r] \in Jobs
      BY <2>1 DEF TypeOK
    <3>2. job[r].archive \in Archives /\ job[r].user \in Users /\ job[r].dataset \in Datasets
      BY <2>1, <2>13 DEF LookupRow, Working, Steps
    <3>3. t \in Tables
      BY <2>13, <3>2 DEF LookupRow, HasRow, TypeOK
    <3>4. pc' = [pc EXCEPT ![r] = "attach"] /\ UNCHANGED <<tables, history>>
      BY <2>13 DEF LookupRow, Goto
    <3>5. job' = [job EXCEPT ![r].read = t]
      BY <2>13 DEF LookupRow
    <3> HIDE DEF t
    <3>6. job' = [job EXCEPT ![r] = j]
      BY <2>1, <3>5 DEF TypeOK
    <3>7. j \in Jobs /\ Holds(j, "attach") /\ "attach" \in Steps
      BY <3>1, <3>2, <3>3 DEF Jobs, Holds, Steps
    <3> HIDE DEF j
    <3> QED
      BY <2>1, <3>4, <3>6, <3>7, Moves DEF TypeOK, tables, history
  <2>14. ASSUME NEW r \in Ingests, AttachRow(r) PROVE TypeOK' /\ Working'
    <3>1. /\ job[r].user \in Users /\ job[r].dataset \in Datasets
          /\ job[r].archive \in Archives /\ job[r].read \in Tables
      BY <2>1, <2>14 DEF AttachRow, Working, Steps
    <3>2. archives' \in [Users \X Archives -> {NoRow} \cup [dataset : Datasets \cup {None}, table : Tables]]
      BY <2>14, <3>1 DEF AttachRow, TypeOK
    <3>3. Ends(r, "done") /\ UNCHANGED <<uploads, rows, files, history>>
      BY <2>14 DEF AttachRow
    <3> QED
      BY <2>1, <3>2, <3>3, Ending DEF TypeOK, history
  <2>15. ASSUME NEW r \in Readers, NEW u \in Users, NEW d \in Datasets, OpenDetail(r, u, d)
         PROVE  TypeOK' /\ Working'
    <3> DEFINE j == [NoJob EXCEPT !.user = u, !.dataset = d]
    <3>1. j \in Jobs /\ Holds(j, "detail") /\ "detail" \in Steps
      <4>1. j \in Jobs /\ j.user = u /\ j.dataset = d
        BY NoJobType DEF Jobs
      <4> HIDE DEF j
      <4> QED
        BY <4>1 DEF Holds, Steps
    <3>2. pc' = [pc EXCEPT ![r] = "detail"] /\ job' = [job EXCEPT ![r] = j] /\ UNCHANGED <<tables, history>>
      BY <2>15 DEF OpenDetail, Goto
    <3> HIDE DEF j
    <3> QED
      BY <2>1, <3>1, <3>2, Moves DEF TypeOK, tables, history
  <2>16. ASSUME NEW r \in Readers, ReadDetail(r) PROVE TypeOK' /\ Working'
    <3>1. job[r].user \in Users /\ job[r].dataset \in Datasets
      BY <2>1, <2>16 DEF ReadDetail, Working, Steps
    <3>2. seen' \subseteq Users \X Datasets
      BY <2>16, <3>1 DEF ReadDetail, TypeOK
    <3>3. Ends(r, "done") /\ UNCHANGED <<tables, given, everShared, overlapped, torn>>
      BY <2>16 DEF ReadDetail
    <3> QED
      BY <2>1, <3>2, <3>3, Ending DEF TypeOK, tables
  <2>17. ASSUME NEW u \in Users, NEW d \in Datasets, NEW scope \in Scopes, PatchCatalog(u, d, scope)
         PROVE  TypeOK' /\ Working'
    <3>1. uploads[d] \in Uploads
      BY <2>17 DEF PatchCatalog, Owns, Exists, TypeOK
    <3>2. uploads' \in [Datasets -> Uploads \cup {NoUpload}]
      BY <2>17, <3>1 DEF PatchCatalog, TypeOK, Uploads
    <3>3. everShared' \subseteq Datasets
      BY <2>17 DEF PatchCatalog, TypeOK
    <3> QED
      BY <2>17, <3>2, <3>3 DEF PatchCatalog, TypeOK, Working
  <2>18. ASSUME NEW u \in Users, NEW d \in Datasets, DeleteUpload(u, d) PROVE TypeOK' /\ Working'
    <3>1. ASSUME NEW x \in Users \X Archives
          PROVE  archives'[x] \in {NoRow} \cup [dataset : Datasets \cup {None}, table : Tables]
      <4>1. archives[x] \in {NoRow} \cup [dataset : Datasets \cup {None}, table : Tables]
        BY DEF TypeOK
      <4>2. archives'[x] = IF archives[x].dataset = d THEN [archives[x] EXCEPT !.dataset = None] ELSE archives[x]
        BY <2>18 DEF DeleteUpload
      <4>3. NoRow.dataset # d
        BY TablesAssumption DEF NoRow
      <4> QED
        BY <4>1, <4>2, <4>3
    <3>2. archives' \in [Users \X Archives -> {NoRow} \cup [dataset : Datasets \cup {None}, table : Tables]]
      BY <2>18, <3>1 DEF DeleteUpload
    <3>3. /\ uploads' \in [Datasets -> Uploads \cup {NoUpload}]
          /\ rows' \in [Datasets -> Tables \cup {None}]
      BY <2>18 DEF DeleteUpload, TypeOK
    <3> QED
      BY <2>18, <3>2, <3>3 DEF DeleteUpload, TypeOK, Working, history
  <2>19. ASSUME NEW u \in Users, NEW a \in Archives, DeleteFile(u, a) PROVE TypeOK' /\ Working'
    BY <2>19 DEF DeleteFile, TypeOK, Working, history
  <2>20. CASE UNCHANGED vars
    BY <2>20 DEF vars, tables, history, TypeOK, Working
  <2>21. ASSUME NEW r \in Actors, Report(r) \/ NoSuchRow(r) \/ IngestFails(r) PROVE TypeOK' /\ Working'
    BY <2>10, <2>21 DEF Report, NoSuchRow, IngestFails
  <2> QED
    BY <2>1, <2>2, <2>3, <2>4, <2>5, <2>6, <2>7, <2>8, <2>9, <2>11, <2>12, <2>13, <2>14, <2>15,
       <2>16, <2>17, <2>18, <2>19, <2>20, <2>21 DEF Next
<1> QED
  BY <1>1, <1>2, PTL DEF Spec

(* The variables keep their types, for any number of requests.             *)
THEOREM TypeCorrect == Spec => []TypeOK
BY TypeInvariance, PTL

-----------------------------------------------------------------------------
(* Steps that leave the records of datasets and the links alone.           *)
Quiet == UNCHANGED <<uploads, archives, given, everShared>>

(* The steps that do not.                                                  *)
Loud(r) ==
  \/ \E u \in Users, d \in Datasets, t \in Tables :
       \/ \E scope \in Scopes : CreateUpload(r, u, d, t, scope)
       \/ UpdateContent(r, u, d, t)
  \/ RefreshOne(r) \/ AttachRow(r)

Elsewhere ==
  \E u \in Users, d \in Datasets :
    \/ \E scope \in Scopes : PatchCatalog(u, d, scope)
    \/ DeleteUpload(u, d)

LEMMA Kinds ==
  ASSUME [Next]_vars
  PROVE  Quiet \/ (\E r \in Actors : Loud(r)) \/ Elsewhere
<1>1. CASE UNCHANGED vars
  BY <1>1 DEF vars, tables, history, Quiet
<1>2. ASSUME NEW r \in Writers,
             RejectCsv(r) \/ ContentNotFound(r) \/ WriteRows(r) \/ ListLinked(r) \/ ListRows(r)
               \/ Refreshed(r) \/ Report(r) \/ WriterFails(r)
      PROVE  Quiet
  BY <1>2 DEF RejectCsv, ContentNotFound, WriteRows, ListLinked, ListRows, Refreshed, Report,
              WriterFails, tables, history, Quiet
<1>3. ASSUME NEW r \in Ingests,
             LookupRow(r) \/ NoSuchRow(r) \/ IngestFails(r)
               \/ \E u \in Users, a \in Archives, d \in Datasets : Register(r, u, a, d)
      PROVE  Quiet
  BY <1>3 DEF LookupRow, NoSuchRow, IngestFails, Register, tables, history, Quiet
<1>4. ASSUME NEW r \in Readers,
             ReadDetail(r) \/ \E u \in Users, d \in Datasets : OpenDetail(r, u, d)
      PROVE  Quiet
  BY <1>4 DEF ReadDetail, OpenDetail, tables, history, Quiet
<1>5. ASSUME NEW u \in Users, NEW a \in Archives, DeleteFile(u, a) PROVE Quiet
  BY <1>5 DEF DeleteFile, history, Quiet
<1>6. Writers \subseteq Actors /\ Ingests \subseteq Actors
  BY DEF Actors
<1> QED
  BY <1>1, <1>2, <1>3, <1>4, <1>5, <1>6 DEF Next, Loud, Elsewhere

(* No archive is linked to a dataset that is gone: the foreign key stands   *)
(* behind every link, and a deletion takes the links along.                *)
THEOREM LinksHold == Spec => []LinkedDatasetsExist
<1>1. Init => LinkedDatasetsExist
  BY DEF Init, LinkedDatasetsExist, NoRow
<1>2. TypeOK /\ Working /\ LinkedDatasetsExist /\ [Next]_vars => LinkedDatasetsExist'
  <2> SUFFICES ASSUME TypeOK, Working, LinkedDatasetsExist, [Next]_vars,
                      NEW x \in Users \X Archives, archives'[x].dataset # None
               PROVE  uploads'[archives'[x].dataset] # NoUpload
    BY DEF LinkedDatasetsExist, Exists
  <2>1. CASE Quiet
    BY <2>1 DEF Quiet, LinkedDatasetsExist, Exists
  <2>2. ASSUME NEW r \in Actors, NEW u \in Users, NEW d \in Datasets, NEW t \in Tables,
               NEW scope \in Scopes, CreateUpload(r, u, d, t, scope)
        PROVE  uploads'[archives'[x].dataset] # NoUpload
    <3>1. u # None
      BY TablesAssumption
    <3>2. Exists(archives[x].dataset) /\ archives'[x] = archives[x]
      BY <2>2 DEF CreateUpload, LinkedDatasetsExist
    <3>3. archives[x].dataset \in Datasets
      BY <2>2, <3>2 DEF TypeOK, NoRow
    <3>4. uploads' = [uploads EXCEPT ![d] = [owner |-> u, scope |-> scope, columns |-> t]]
      BY <2>2 DEF CreateUpload
    <3> QED
      BY <3>1, <3>2, <3>3, <3>4 DEF Exists, NoUpload, TypeOK
  <2>3. ASSUME NEW r \in Actors, NEW u \in Users, NEW d \in Datasets, NEW t \in Tables,
               UpdateContent(r, u, d, t)
        PROVE  uploads'[archives'[x].dataset] # NoUpload
    <3>1. Exists(archives[x].dataset) /\ archives'[x] = archives[x]
      BY <2>3 DEF UpdateContent, LinkedDatasetsExist
    <3>2. archives[x].dataset \in Datasets
      BY <2>3, <3>1 DEF TypeOK, NoRow
    <3>3. uploads' = [uploads EXCEPT ![d].columns = t] /\ uploads[d] \in Uploads
      BY <2>3 DEF UpdateContent, Owns, Exists, TypeOK
    <3>4. uploads'[d] \in Uploads
      BY <3>3 DEF Uploads, TypeOK
    <3> QED
      BY <3>1, <3>2, <3>3, <3>4, UploadExists DEF Exists, TypeOK
  <2>4. ASSUME NEW r \in Actors, RefreshOne(r) PROVE uploads'[archives'[x].dataset] # NoUpload
    <3>1. PICK i \in DOMAIN job[r].todo :
            archives' = [archives EXCEPT ![<<job[r].user, job[r].todo[i]>>] =
                           [dataset |-> job[r].dataset, table |-> job[r].read]]
      BY <2>4 DEF RefreshOne
    <3>2. Exists(job[r].dataset) /\ uploads' = uploads
      BY <2>4 DEF RefreshOne
    <3>3. archives'[x] = archives[x] \/ archives'[x].dataset = job[r].dataset
      BY <3>1 DEF TypeOK
    <3> QED
      BY <3>2, <3>3 DEF LinkedDatasetsExist, Exists
  <2>5. ASSUME NEW r \in Actors, AttachRow(r) PROVE uploads'[archives'[x].dataset] # NoUpload
    <3>1. archives' = [archives EXCEPT ![<<job[r].user, job[r].archive>>] =
                         [dataset |-> job[r].dataset, table |-> job[r].read]]
      BY <2>5 DEF AttachRow
    <3>2. Exists(job[r].dataset) /\ uploads' = uploads
      BY <2>5 DEF AttachRow
    <3>3. archives'[x] = archives[x] \/ archives'[x].dataset = job[r].dataset
      BY <3>1 DEF TypeOK
    <3> QED
      BY <3>2, <3>3 DEF LinkedDatasetsExist, Exists
  <2>6. ASSUME NEW u \in Users, NEW d \in Datasets, NEW scope \in Scopes, PatchCatalog(u, d, scope)
        PROVE  uploads'[archives'[x].dataset] # NoUpload
    <3>1. Exists(archives[x].dataset) /\ archives'[x] = archives[x]
      BY <2>6 DEF PatchCatalog, LinkedDatasetsExist
    <3>2. archives[x].dataset \in Datasets
      BY <2>6, <3>1 DEF TypeOK, NoRow
    <3>3. uploads' = [uploads EXCEPT ![d].scope = scope] /\ uploads[d] \in Uploads
      BY <2>6 DEF PatchCatalog, Owns, Exists, TypeOK
    <3>4. uploads'[d] \in Uploads
      BY <3>3 DEF Uploads, TypeOK
    <3> QED
      BY <3>1, <3>2, <3>3, <3>4, UploadExists DEF Exists, TypeOK
  <2>7. ASSUME NEW u \in Users, NEW d \in Datasets, DeleteUpload(u, d)
        PROVE  uploads'[archives'[x].dataset] # NoUpload
    <3>1. archives'[x] = IF archives[x].dataset = d THEN [archives[x] EXCEPT !.dataset = None] ELSE archives[x]
      BY <2>7 DEF DeleteUpload
    <3>2. archives[x] \in {NoRow} \cup [dataset : Datasets \cup {None}, table : Tables]
      BY DEF TypeOK
    <3>3. archives[x].dataset # d
      BY <3>1, <3>2 DEF NoRow
    <3>4. archives'[x] = archives[x] /\ Exists(archives[x].dataset)
      BY <3>1, <3>3 DEF LinkedDatasetsExist
    <3>5. archives[x].dataset \in Datasets
      BY <3>2, <3>4 DEF NoRow
    <3>6. uploads' = [uploads EXCEPT ![d] = NoUpload]
      BY <2>7 DEF DeleteUpload
    <3> QED
      BY <3>3, <3>4, <3>5, <3>6 DEF Exists, TypeOK
  <2> QED
    BY Kinds, <2>1, <2>2, <2>3, <2>4, <2>5, <2>6, <2>7 DEF Loud, Elsewhere
<1> QED
  BY <1>1, <1>2, TypeInvariance, PTL DEF Spec

-----------------------------------------------------------------------------
(* A user who may have seen a dataset: it was shared, or it is the user's,  *)
(* or it is gone, and its id is not given again.                            *)
Entitled(u, d) ==
  /\ d \in given
  /\ d \notin everShared /\ Exists(d) => uploads[d].owner = u

(* An actor past the check of what it may see.                             *)
HasChecked(r) == pc[r] \in Steps \ {"lookup"}

(* The history follows the records.                                        *)
Recorded ==
  \A d \in Datasets : Exists(d) =>
    /\ d \in given
    /\ uploads[d].scope = "all" => d \in everShared

(* Whoever has passed the check, seen rows or been given one was entitled,  *)
(* and is so for ever.                                                      *)
Traced ==
  /\ Recorded
  /\ \A r \in Actors : HasChecked(r) => Entitled(job[r].user, job[r].dataset)
  /\ \A u \in Users, a \in Archives :
       archives[<<u, a>>].dataset # None => Entitled(u, archives[<<u, a>>].dataset)
  /\ \A u \in Users, d \in Datasets : <<u, d>> \in seen => Entitled(u, d)

(* The steps that touch the records, and how.                              *)
LEMMA Records ==
  ASSUME TypeOK, [Next]_vars
  PROVE  \/ UNCHANGED <<uploads, given, everShared>>
         \/ \E u \in Users, d \in Datasets, t \in Tables, scope \in Scopes :
              /\ d \notin given /\ given' = given \cup {d}
              /\ uploads' = [uploads EXCEPT ![d] = [owner |-> u, scope |-> scope, columns |-> t]]
              /\ everShared' = IF scope = "all" THEN everShared \cup {d} ELSE everShared
         \/ \E d \in Datasets, t \in Tables :
              /\ Exists(d) /\ uploads' = [uploads EXCEPT ![d].columns = t]
              /\ UNCHANGED <<given, everShared>>
         \/ \E d \in Datasets, scope \in Scopes :
              /\ Exists(d) /\ uploads' = [uploads EXCEPT ![d].scope = scope]
              /\ everShared' = IF scope = "all" THEN everShared \cup {d} ELSE everShared
              /\ UNCHANGED given
         \/ \E d \in Datasets :
              uploads' = [uploads EXCEPT ![d] = NoUpload] /\ UNCHANGED <<given, everShared>>
<1>1. CASE Quiet
  BY <1>1 DEF Quiet
<1>2. ASSUME NEW r \in Actors, RefreshOne(r) \/ AttachRow(r)
      PROVE  UNCHANGED <<uploads, given, everShared>>
  BY <1>2 DEF RefreshOne, AttachRow, history
<1>3. ASSUME NEW r \in Actors, NEW u \in Users, NEW d \in Datasets, NEW t \in Tables,
             NEW scope \in Scopes, CreateUpload(r, u, d, t, scope)
      PROVE  /\ d \notin given /\ given' = given \cup {d}
             /\ uploads' = [uploads EXCEPT ![d] = [owner |-> u, scope |-> scope, columns |-> t]]
             /\ everShared' = IF scope = "all" THEN everShared \cup {d} ELSE everShared
  BY <1>3 DEF CreateUpload
<1>4. ASSUME NEW r \in Actors, NEW u \in Users, NEW d \in Datasets, NEW t \in Tables,
             UpdateContent(r, u, d, t)
      PROVE  /\ Exists(d) /\ uploads' = [uploads EXCEPT ![d].columns = t]
             /\ UNCHANGED <<given, everShared>>
  BY <1>4 DEF UpdateContent, Owns
<1>5. ASSUME NEW u \in Users, NEW d \in Datasets, NEW scope \in Scopes, PatchCatalog(u, d, scope)
      PROVE  /\ Exists(d) /\ uploads' = [uploads EXCEPT ![d].scope = scope]
             /\ everShared' = IF scope = "all" THEN everShared \cup {d} ELSE everShared
             /\ UNCHANGED given
  BY <1>5 DEF PatchCatalog, Owns
<1>6. ASSUME NEW u \in Users, NEW d \in Datasets, DeleteUpload(u, d)
      PROVE  uploads' = [uploads EXCEPT ![d] = NoUpload] /\ UNCHANGED <<given, everShared>>
  BY <1>6 DEF DeleteUpload, history
<1> QED
  BY Kinds, <1>1, <1>2, <1>3, <1>4, <1>5, <1>6 DEF Loud, Elsewhere

LEMMA RecordedStays ==
  ASSUME TypeOK, Recorded, [Next]_vars
  PROVE  Recorded'
<1> SUFFICES ASSUME NEW d \in Datasets, uploads'[d] # NoUpload
             PROVE  d \in given' /\ (uploads'[d].scope = "all" => d \in everShared')
  BY DEF Recorded, Exists
<1>1. CASE UNCHANGED <<uploads, given, everShared>>
  BY <1>1 DEF Recorded, Exists
<1>2. ASSUME NEW u \in Users, NEW e \in Datasets, NEW t \in Tables, NEW scope \in Scopes,
             given' = given \cup {e},
             uploads' = [uploads EXCEPT ![e] = [owner |-> u, scope |-> scope, columns |-> t]],
             everShared' = IF scope = "all" THEN everShared \cup {e} ELSE everShared
      PROVE  d \in given' /\ (uploads'[d].scope = "all" => d \in everShared')
  BY <1>2 DEF Recorded, Exists, TypeOK
<1>3. ASSUME NEW e \in Datasets, NEW t \in Tables,
             Exists(e), uploads' = [uploads EXCEPT ![e].columns = t], UNCHANGED <<given, everShared>>
      PROVE  d \in given' /\ (uploads'[d].scope = "all" => d \in everShared')
  <2>1. uploads[e] \in Uploads
    BY <1>3 DEF Exists, TypeOK
  <2>2. uploads[d] # NoUpload /\ uploads'[d].scope = uploads[d].scope
    BY <1>3, <2>1 DEF Exists, TypeOK, Uploads
  <2> QED
    BY <1>3, <2>2 DEF Recorded, Exists
<1>4. ASSUME NEW e \in Datasets, NEW scope \in Scopes,
             Exists(e), uploads' = [uploads EXCEPT ![e].scope = scope],
             everShared' = IF scope = "all" THEN everShared \cup {e} ELSE everShared,
             UNCHANGED given
      PROVE  d \in given' /\ (uploads'[d].scope = "all" => d \in everShared')
  <2>1. uploads[e] \in Uploads
    BY <1>4 DEF Exists, TypeOK
  <2>2. uploads[d] # NoUpload
    BY <1>4, <2>1 DEF Exists, TypeOK
  <2>3. d # e => uploads'[d] = uploads[d]
    BY <1>4 DEF TypeOK
  <2>4. d = e => uploads'[d].scope = scope
    BY <1>4, <2>1 DEF TypeOK, Uploads
  <2> QED
    BY <1>4, <2>2, <2>3, <2>4 DEF Recorded, Exists
<1>5. ASSUME NEW e \in Datasets,
             uploads' = [uploads EXCEPT ![e] = NoUpload], UNCHANGED <<given, everShared>>
      PROVE  d \in given' /\ (uploads'[d].scope = "all" => d \in everShared')
  BY <1>5 DEF Recorded, Exists, TypeOK
<1> QED
  BY Records, <1>1, <1>2, <1>3, <1>4, <1>5

(* Who is entitled stays so: owners do not change and ids do not return.   *)
LEMMA EntitlementStays ==
  ASSUME TypeOK, Recorded, [Next]_vars, NEW u, NEW d \in Datasets, Entitled(u, d)
  PROVE  Entitled(u, d)'
<1> SUFFICES ASSUME d \notin everShared', uploads'[d] # NoUpload, given \subseteq given'
             PROVE  uploads'[d].owner = u
  <2>1. given \subseteq given'
    BY Records
  <2> QED
    BY <2>1 DEF Entitled, Exists
<1>1. CASE UNCHANGED <<uploads, given, everShared>>
  BY <1>1 DEF Entitled, Exists
<1>2. ASSUME NEW v \in Users, NEW e \in Datasets, NEW t \in Tables, NEW scope \in Scopes,
             e \notin given, given' = given \cup {e},
             uploads' = [uploads EXCEPT ![e] = [owner |-> v, scope |-> scope, columns |-> t]],
             everShared' = IF scope = "all" THEN everShared \cup {e} ELSE everShared
      PROVE  uploads'[d].owner = u
  BY <1>2 DEF Entitled, Exists, TypeOK
<1>3. ASSUME NEW e \in Datasets, NEW t \in Tables,
             Exists(e), uploads' = [uploads EXCEPT ![e].columns = t], UNCHANGED <<given, everShared>>
      PROVE  uploads'[d].owner = u
  <2>1. uploads[e] \in Uploads
    BY <1>3 DEF Exists, TypeOK
  <2>2. uploads[d] # NoUpload /\ uploads'[d].owner = uploads[d].owner
    BY <1>3, <2>1 DEF Exists, TypeOK, Uploads
  <2> QED
    BY <1>3, <2>2 DEF Entitled, Exists
<1>4. ASSUME NEW e \in Datasets, NEW scope \in Scopes,
             Exists(e), uploads' = [uploads EXCEPT ![e].scope = scope],
             everShared' = IF scope = "all" THEN everShared \cup {e} ELSE everShared,
             UNCHANGED given
      PROVE  uploads'[d].owner = u
  <2>1. uploads[e] \in Uploads
    BY <1>4 DEF Exists, TypeOK
  <2>2. uploads[d] # NoUpload /\ uploads'[d].owner = uploads[d].owner
    BY <1>4, <2>1 DEF Exists, TypeOK, Uploads
  <2> QED
    BY <1>4, <2>2 DEF Entitled, Exists
<1>5. ASSUME NEW e \in Datasets,
             uploads' = [uploads EXCEPT ![e] = NoUpload], UNCHANGED <<given, everShared>>
      PROVE  uploads'[d].owner = u
  BY <1>5 DEF Entitled, Exists, TypeOK
<1> QED
  BY Records, <1>1, <1>2, <1>3, <1>4, <1>5

(* What may be seen is shared or one's own.                                *)
LEMMA VisibleEntitles ==
  ASSUME Recorded, NEW u, NEW d \in Datasets, Visible(u, d)
  PROVE  Entitled(u, d)
BY DEF Recorded, Visible, Entitled

(* Where an actor past the check comes from: it was past it already, it may  *)
(* see the dataset, or it has just made it.                                *)
Origin(q, u, d) ==
  /\ job'[q].user = u /\ job'[q].dataset = d
  /\ \/ HasChecked(q) /\ job[q].user = u /\ job[q].dataset = d
     \/ Visible(u, d)
     \/ d \in given' /\ uploads'[d].owner = u

LEMMA Origins ==
  ASSUME TypeOK, Working, [Next]_vars, NEW q \in Actors, pc'[q] \in Steps \ {"lookup"}
  PROVE  \E u \in Users, d \in Datasets : Origin(q, u, d)
<1> DEFINE Goal == \E u \in Users, d \in Datasets : Origin(q, u, d)
<1> SUFFICES Goal
  OBVIOUS
<1>1. ASSUME pc[q] = pc'[q], job'[q].user = job[q].user, job'[q].dataset = job[q].dataset PROVE Goal
  <2>1. HasChecked(q) /\ job[q].user \in Users /\ job[q].dataset \in Datasets
    BY <1>1 DEF HasChecked, Working
  <2> QED
    BY <1>1, <2>1 DEF Origin
<1>2. ASSUME pc' = pc, job' = job PROVE Goal
  BY <1>1, <1>2
<1>3. ASSUME NEW r \in Actors, NEW step, NEW j, pc' = [pc EXCEPT ![r] = step],
             job' = [job EXCEPT ![r] = j], step \notin Steps \ {"lookup"}
      PROVE  Goal
  BY <1>1, <1>3 DEF TypeOK
<1>4. ASSUME NEW r \in Actors, NEW step, NEW u \in Users, NEW d \in Datasets, NEW j,
             j.user = u, j.dataset = d,
             pc' = [pc EXCEPT ![r] = step], job' = [job EXCEPT ![r] = j],
             d \in given', uploads'[d].owner = u
      PROVE  Goal
  BY <1>1, <1>4 DEF TypeOK, Origin
<1>5. ASSUME NEW r \in Actors, HasChecked(r), NEW step, pc' = [pc EXCEPT ![r] = step], NEW j,
             job' = [job EXCEPT ![r] = j], j.user = job[r].user, j.dataset = job[r].dataset
      PROVE  Goal
  <2>1. job[r].user \in Users /\ job[r].dataset \in Datasets
    BY <1>5 DEF HasChecked, Working
  <2>2. CASE q = r
    BY <1>5, <2>1, <2>2 DEF Origin, TypeOK
  <2> QED
    BY <1>1, <1>5, <2>2 DEF TypeOK
<1>6. Writers \subseteq Actors /\ Ingests \subseteq Actors /\ Readers \subseteq Actors
  BY DEF Actors
<1>23. ASSUME NEW r \in Actors, NEW step, NEW u \in Users, NEW d \in Datasets, NEW j,
              j.user = u, j.dataset = d, Visible(u, d),
              pc' = [pc EXCEPT ![r] = step], job' = [job EXCEPT ![r] = j]
       PROVE  Goal
  BY <1>1, <1>23 DEF TypeOK, Origin
<1> HIDE DEF Goal
<1>7. CASE UNCHANGED vars
  BY <1>2, <1>7 DEF vars
<1>8. ASSUME NEW r \in Actors, RejectCsv(r) \/ ContentNotFound(r) PROVE Goal
  <2>1. pc' = [pc EXCEPT ![r] = "failed"] /\ job' = [job EXCEPT ![r] = job[r]]
    BY <1>8 DEF RejectCsv, ContentNotFound, Goto, TypeOK
  <2> QED
    BY <1>3, <2>1 DEF Steps
<1>9. ASSUME NEW r \in Actors, NEW u \in Users, NEW d \in Datasets, NEW t \in Tables,
             NEW scope \in Scopes, CreateUpload(r, u, d, t, scope)
      PROVE  Goal
  <2> DEFINE j == [NoJob EXCEPT !.user = u, !.dataset = d, !.table = t]
  <2>1. j.user = u /\ j.dataset = d
    BY DEF NoJob
  <2>2. pc' = [pc EXCEPT ![r] = "rows"] /\ job' = [job EXCEPT ![r] = j]
    BY <1>9 DEF CreateUpload, Start, Goto
  <2>3. d \in given' /\ uploads'[d].owner = u
    BY <1>9 DEF CreateUpload, TypeOK
  <2> HIDE DEF j
  <2> QED
    BY <1>4, <2>1, <2>2, <2>3
<1>10. ASSUME NEW r \in Actors, NEW u \in Users, NEW d \in Datasets, NEW t \in Tables,
              UpdateContent(r, u, d, t)
       PROVE  Goal
  <2> DEFINE j == [NoJob EXCEPT !.user = u, !.dataset = d, !.table = t, !.replaces = TRUE]
  <2>1. j.user = u /\ j.dataset = d
    BY DEF NoJob
  <2>2. pc' = [pc EXCEPT ![r] = "rows"] /\ job' = [job EXCEPT ![r] = j]
    BY <1>10 DEF UpdateContent, Start, Goto
  <2>3. Visible(u, d)
    BY <1>10 DEF UpdateContent, Owns, Visible
  <2> HIDE DEF j
  <2> QED
    BY <1>23, <2>1, <2>2, <2>3
<1>11. ASSUME NEW r \in Actors, WriteRows(r) PROVE Goal
  <2>1. HasChecked(r)
    BY <1>11 DEF WriteRows, HasChecked, Steps
  <2>2. pc' = [pc EXCEPT ![r] = AfterRows(r)] /\ job' = [job EXCEPT ![r] = job[r]]
    BY <1>11 DEF WriteRows, Goto, TypeOK
  <2> QED
    BY <1>5, <2>1, <2>2
<1>12. ASSUME NEW r \in Actors, ListLinked(r) PROVE Goal
  <2> DEFINE linked == {x.archive : x \in {y \in ArchiveMetadata(job[r].user) : y.dataset = job[r].dataset}}
             j == [job[r] EXCEPT !.linked = linked]
             step == IF linked = {} THEN "report" ELSE "list"
  <2>1. HasChecked(r)
    BY <1>12 DEF ListLinked, HasChecked, Steps
  <2>2. pc' = [pc EXCEPT ![r] = step] /\ job' = [job EXCEPT ![r].linked = linked]
    BY <1>12 DEF ListLinked, Goto
  <2> HIDE DEF linked
  <2>3. job' = [job EXCEPT ![r] = j] /\ j.user = job[r].user /\ j.dataset = job[r].dataset
    BY <2>2 DEF TypeOK, Jobs
  <2> HIDE DEF j, step
  <2> QED
    BY <1>5, <2>1, <2>2, <2>3
<1>13. ASSUME NEW r \in Actors, ListRows(r) PROVE Goal
  <2> DEFINE t == rows[job[r].dataset]
             keys == FirstKeys(t)
             j == [job[r] EXCEPT !.todo = keys, !.read = t]
  <2>1. HasChecked(r)
    BY <1>13 DEF ListRows, HasChecked, Steps
  <2>2. pc' = [pc EXCEPT ![r] = "refresh"] /\ job' = [job EXCEPT ![r].todo = keys, ![r].read = t]
    BY <1>13 DEF ListRows, Goto
  <2> HIDE DEF t, keys
  <2>3. job' = [job EXCEPT ![r] = j] /\ j.user = job[r].user /\ j.dataset = job[r].dataset
    BY <2>2 DEF TypeOK, Jobs
  <2> HIDE DEF j
  <2> QED
    BY <1>5, <2>1, <2>2, <2>3
<1>14. ASSUME NEW r \in Actors, RefreshOne(r) PROVE Goal
  <2>1. HasChecked(r) /\ pc' = [pc EXCEPT ![r] = "refresh"]
    BY <1>14 DEF RefreshOne, HasChecked, Steps, TypeOK
  <2>2. PICK rest : job' = [job EXCEPT ![r].todo = rest]
    BY <1>14 DEF RefreshOne
  <2> DEFINE j == [job[r] EXCEPT !.todo = rest]
  <2>3. job' = [job EXCEPT ![r] = j] /\ j.user = job[r].user /\ j.dataset = job[r].dataset
    BY <2>2 DEF TypeOK, Jobs
  <2> HIDE DEF j
  <2> QED
    BY <1>5, <2>1, <2>3
<1>15. ASSUME NEW r \in Actors, Refreshed(r) PROVE Goal
  <2>1. HasChecked(r) /\ pc' = [pc EXCEPT ![r] = "report"] /\ job' = [job EXCEPT ![r] = job[r]]
    BY <1>15 DEF Refreshed, Goto, HasChecked, Steps, TypeOK
  <2> QED
    BY <1>5, <2>1
<1>16. ASSUME NEW r \in Actors, NEW how \in {"done", "failed"}, Ends(r, how) PROVE Goal
  BY <1>3, <1>16 DEF Ends, Goto, Steps
<1>17. ASSUME NEW r \in Actors, Report(r) \/ WriterFails(r) \/ NoSuchRow(r) \/ AttachRow(r)
                                  \/ IngestFails(r) \/ ReadDetail(r)
       PROVE  Goal
  BY <1>16, <1>17 DEF Report, WriterFails, NoSuchRow, AttachRow, IngestFails, ReadDetail
<1>18. ASSUME NEW r \in Actors, NEW u \in Users, NEW a \in Archives, NEW d \in Datasets,
              Register(r, u, a, d)
       PROVE  Goal
  <2>1. PICK j : pc' = [pc EXCEPT ![r] = "lookup"] /\ job' = [job EXCEPT ![r] = j]
    BY <1>18 DEF Register, Start, Goto
  <2> QED
    BY <1>3, <2>1
<1>19. ASSUME NEW r \in Actors, LookupRow(r) PROVE Goal
  <2> DEFINE t == rows[job[r].dataset]
             j == [job[r] EXCEPT !.read = t]
  <2>1. Visible(job[r].user, job[r].dataset) /\ job[r].user \in Users /\ job[r].dataset \in Datasets
    BY <1>19 DEF LookupRow, Working, Steps
  <2>2. pc' = [pc EXCEPT ![r] = "attach"] /\ job' = [job EXCEPT ![r].read = t]
    BY <1>19 DEF LookupRow, Goto
  <2> HIDE DEF t
  <2>3. job' = [job EXCEPT ![r] = j] /\ j.user = job[r].user /\ j.dataset = job[r].dataset
    BY <2>2 DEF TypeOK, Jobs
  <2> HIDE DEF j
  <2> QED
    BY <1>23, <2>1, <2>2, <2>3
<1>20. ASSUME NEW r \in Actors, NEW u \in Users, NEW d \in Datasets, OpenDetail(r, u, d) PROVE Goal
  <2> DEFINE j == [NoJob EXCEPT !.user = u, !.dataset = d]
  <2>1. j.user = u /\ j.dataset = d
    BY DEF NoJob
  <2>2. pc' = [pc EXCEPT ![r] = "detail"] /\ job' = [job EXCEPT ![r] = j] /\ Visible(u, d)
    BY <1>20 DEF OpenDetail, Listed, Goto
  <2> HIDE DEF j
  <2> QED
    BY <1>23, <2>1, <2>2
<1>21. ASSUME NEW u \in Users, NEW d \in Datasets,
              DeleteUpload(u, d) \/ \E scope \in Scopes : PatchCatalog(u, d, scope)
       PROVE  Goal
  BY <1>2, <1>21 DEF DeleteUpload, PatchCatalog
<1>22. ASSUME NEW u \in Users, NEW a \in Archives, DeleteFile(u, a) PROVE Goal
  BY <1>2, <1>22 DEF DeleteFile
<1> QED
  BY <1>6, <1>7, <1>8, <1>9, <1>10, <1>11, <1>12, <1>13, <1>14, <1>15, <1>17, <1>18, <1>19,
     <1>20, <1>21, <1>22 DEF Next

(* Where a link comes from: it was there, or an actor past the check set it. *)
LEMMA Links ==
  ASSUME TypeOK, Working, [Next]_vars, NEW u \in Users, NEW a \in Archives,
         archives'[<<u, a>>].dataset # None
  PROVE  \/ archives'[<<u, a>>].dataset = archives[<<u, a>>].dataset
         \/ \E r \in Actors : HasChecked(r) /\ job[r].user = u
                                /\ archives'[<<u, a>>].dataset = job[r].dataset
<1> DEFINE x == <<u, a>>
<1>1. CASE Quiet
  BY <1>1 DEF Quiet
<1>2. ASSUME NEW r \in Actors, NEW v \in Users, NEW d \in Datasets, NEW t \in Tables,
             UpdateContent(r, v, d, t) \/ \E scope \in Scopes : CreateUpload(r, v, d, t, scope)
      PROVE  archives' = archives
  BY <1>2 DEF UpdateContent, CreateUpload
<1>3. ASSUME NEW r \in Actors, RefreshOne(r)
      PROVE  \/ archives'[x] = archives[x]
             \/ HasChecked(r) /\ job[r].user = u /\ archives'[x].dataset = job[r].dataset
  <2>1. PICK i \in DOMAIN job[r].todo :
          archives' = [archives EXCEPT ![<<job[r].user, job[r].todo[i]>>] =
                         [dataset |-> job[r].dataset, table |-> job[r].read]]
    BY <1>3 DEF RefreshOne
  <2>2. HasChecked(r)
    BY <1>3 DEF RefreshOne, HasChecked, Steps
  <2>3. CASE x = <<job[r].user, job[r].todo[i]>>
    <3>1. u = job[r].user
      BY <2>3
    <3>2. x \in Users \X Archives
      OBVIOUS
    <3>3. archives'[x] = [dataset |-> job[r].dataset, table |-> job[r].read]
      BY <2>1, <2>3, <3>2 DEF TypeOK
    <3> QED
      BY <2>2, <3>1, <3>3
  <2>4. CASE x # <<job[r].user, job[r].todo[i]>>
    <3> DEFINE key == <<job[r].user, job[r].todo[i]>>
               v == [dataset |-> job[r].dataset, table |-> job[r].read]
    <3>1. x \in Users \X Archives /\ x # key
      BY <2>4
    <3>2. archives' = [archives EXCEPT ![key] = v]
      BY <2>1
    <3> HIDE DEF key, v, x
    <3>3. archives'[x] = archives[x]
      BY <3>1, <3>2 DEF TypeOK
    <3> QED
      BY <3>3 DEF x
  <2> QED
    BY <2>3, <2>4
<1>4. ASSUME NEW r \in Actors, AttachRow(r)
      PROVE  \/ archives'[x] = archives[x]
             \/ HasChecked(r) /\ job[r].user = u /\ archives'[x].dataset = job[r].dataset
  <2>1. archives' = [archives EXCEPT ![<<job[r].user, job[r].archive>>] =
                       [dataset |-> job[r].dataset, table |-> job[r].read]]
    BY <1>4 DEF AttachRow
  <2>2. HasChecked(r)
    BY <1>4 DEF AttachRow, HasChecked, Steps
  <2>3. CASE x = <<job[r].user, job[r].archive>>
    <3>1. u = job[r].user
      BY <2>3
    <3>2. x \in Users \X Archives
      OBVIOUS
    <3>3. archives'[x] = [dataset |-> job[r].dataset, table |-> job[r].read]
      BY <2>1, <2>3, <3>2 DEF TypeOK
    <3> QED
      BY <2>2, <3>1, <3>3
  <2>4. CASE x # <<job[r].user, job[r].archive>>
    <3> DEFINE key == <<job[r].user, job[r].archive>>
               v == [dataset |-> job[r].dataset, table |-> job[r].read]
    <3>1. x \in Users \X Archives /\ x # key
      BY <2>4
    <3>2. archives' = [archives EXCEPT ![key] = v]
      BY <2>1
    <3> HIDE DEF key, v, x
    <3>3. archives'[x] = archives[x]
      BY <3>1, <3>2 DEF TypeOK
    <3> QED
      BY <3>3 DEF x
  <2> QED
    BY <2>3, <2>4
<1>5. ASSUME NEW v \in Users, NEW d \in Datasets, NEW scope \in Scopes, PatchCatalog(v, d, scope)
      PROVE  archives' = archives
  BY <1>5 DEF PatchCatalog
<1>6. ASSUME NEW v \in Users, NEW d \in Datasets, DeleteUpload(v, d)
      PROVE  archives'[x].dataset = archives[x].dataset
  <2>1. archives'[x] = IF archives[x].dataset = d THEN [archives[x] EXCEPT !.dataset = None] ELSE archives[x]
    BY <1>6 DEF DeleteUpload
  <2>2. archives[x] \in {NoRow} \cup [dataset : Datasets \cup {None}, table : Tables]
    BY DEF TypeOK
  <2> QED
    BY <2>1, <2>2 DEF NoRow
<1> QED
  BY Kinds, <1>1, <1>2, <1>3, <1>4, <1>5, <1>6 DEF Loud, Elsewhere

(* Where what was seen comes from: it was seen before, or shown just now to *)
(* a reader past the check.                                                *)
LEMMA Sights ==
  ASSUME TypeOK, Working, [Next]_vars, NEW u \in Users, NEW d \in Datasets, <<u, d>> \in seen'
  PROVE  \/ <<u, d>> \in seen
         \/ \E r \in Actors : HasChecked(r) /\ job[r].user = u /\ job[r].dataset = d
<1>1. ASSUME NEW r \in Readers, ReadDetail(r)
      PROVE  HasChecked(r) /\ seen' \subseteq seen \cup {<<job[r].user, job[r].dataset>>}
  BY <1>1 DEF ReadDetail, HasChecked, Steps
<1>2. ASSUME NEW r \in Readers, \E v \in Users, e \in Datasets : OpenDetail(r, v, e)
      PROVE  seen' = seen
  BY <1>2 DEF OpenDetail, history
<1>3. ASSUME NEW r \in Writers,
             \/ RejectCsv(r) \/ ContentNotFound(r) \/ WriteRows(r) \/ ListLinked(r) \/ ListRows(r)
             \/ RefreshOne(r) \/ Refreshed(r) \/ Report(r) \/ WriterFails(r)
             \/ \E v \in Users, e \in Datasets, t \in Tables :
                  \/ \E scope \in Scopes : CreateUpload(r, v, e, t, scope)
                  \/ UpdateContent(r, v, e, t)
      PROVE  seen' = seen
  BY <1>3 DEF RejectCsv, ContentNotFound, WriteRows, ListLinked, ListRows, RefreshOne, Refreshed,
              Report, WriterFails, CreateUpload, UpdateContent, history
<1>4. ASSUME NEW r \in Ingests,
             \/ LookupRow(r) \/ NoSuchRow(r) \/ AttachRow(r) \/ IngestFails(r)
             \/ \E v \in Users, a \in Archives, e \in Datasets : Register(r, v, a, e)
      PROVE  seen' = seen
  BY <1>4 DEF LookupRow, NoSuchRow, AttachRow, IngestFails, Register, history
<1>5. ASSUME NEW v \in Users, NEW e \in Datasets,
             DeleteUpload(v, e) \/ \E scope \in Scopes : PatchCatalog(v, e, scope)
      PROVE  seen' = seen
  BY <1>5 DEF DeleteUpload, PatchCatalog, history
<1>6. ASSUME NEW v \in Users, NEW a \in Archives, DeleteFile(v, a)
      PROVE  seen' = seen
  BY <1>6 DEF DeleteFile, history
<1>7. CASE UNCHANGED vars
  BY <1>7 DEF vars, history
<1>8. Readers \subseteq Actors
  BY DEF Actors
<1> QED
  BY <1>1, <1>2, <1>3, <1>4, <1>5, <1>6, <1>7, <1>8 DEF Next

(* A private row reaches nobody else: whoever is shown rows of a dataset, or *)
(* has an archive linked to it, was entitled when it was checked, and       *)
(* neither owners nor the ids of datasets change hands afterwards.         *)
THEOREM PrivacyHolds == Spec => []PrivateStaysPrivate
<1>1. Init => Traced
  BY DEF Init, Traced, Recorded, HasChecked, Steps, Exists, NoRow
<1>2. TypeOK /\ Working /\ Traced /\ [Next]_vars => Traced'
  <2> SUFFICES ASSUME TypeOK, Working, Traced, [Next]_vars PROVE Traced'
    OBVIOUS
  <2>1. Recorded /\ Recorded'
    BY RecordedStays DEF Traced
  <2>2. ASSUME NEW r \in Actors, HasChecked(r)
        PROVE  /\ job[r].user \in Users /\ job[r].dataset \in Datasets
               /\ Entitled(job[r].user, job[r].dataset)
    BY <2>2 DEF Traced, HasChecked, Working
  <2>3. ASSUME NEW q \in Actors, pc'[q] \in Steps \ {"lookup"}
        PROVE  Entitled(job[q].user, job[q].dataset)'
    <3>1. PICK u \in Users, d \in Datasets : Origin(q, u, d)
      BY <2>3, Origins
    <3>2. CASE Entitled(u, d)
      BY <2>1, <3>1, <3>2, EntitlementStays DEF Entitled, Origin, Exists
    <3>3. CASE d \in given' /\ uploads'[d].owner = u
      BY <3>1, <3>3 DEF Entitled, Origin
    <3> QED
      BY <2>1, <2>2, <3>1, <3>2, <3>3, VisibleEntitles DEF Origin
  <2>4. ASSUME NEW u \in Users, NEW a \in Archives, archives'[<<u, a>>].dataset # None
        PROVE  Entitled(u, archives[<<u, a>>].dataset)'
    <3>1. PICK d \in Datasets : archives'[<<u, a>>].dataset = d /\ Entitled(u, d)
      <4>1. archives[<<u, a>>].dataset \in Datasets \cup {None}
        BY DEF TypeOK, NoRow
      <4> QED
        BY <2>2, <2>4, <4>1, Links DEF Traced
    <3>2. Entitled(u, d)'
      BY <2>1, <3>1, EntitlementStays
    <3> QED
      BY <3>1, <3>2 DEF Entitled, Exists
  <2>5. ASSUME NEW u \in Users, NEW d \in Datasets, <<u, d>> \in seen'
        PROVE  Entitled(u, d)'
    <3>1. Entitled(u, d)
      BY <2>2, <2>5, Sights DEF Traced
    <3> QED
      BY <2>1, <3>1, EntitlementStays
  <2> QED
    BY <2>1, <2>3, <2>4, <2>5 DEF Traced, HasChecked
<1>3. TypeOK /\ Traced => PrivateStaysPrivate
  <2> SUFFICES ASSUME TypeOK, Traced, NEW d \in Datasets \ everShared, NEW u \in Users,
                      Exists(d), uploads[d].owner # u
               PROVE  /\ <<u, d>> \notin seen
                      /\ \A a \in Archives : archives[<<u, a>>].dataset # d
    BY DEF PrivateStaysPrivate
  <2>1. ~Entitled(u, d)
    BY DEF Entitled
  <2>2. d # None
    BY TablesAssumption
  <2> QED
    BY <2>1, <2>2 DEF Traced
<1> QED
  BY <1>1, <1>2, <1>3, TypeInvariance, PTL DEF Spec

-----------------------------------------------------------------------------
(* A writer that is about to write the rows of a dataset has the table whose *)
(* columns it lists; without such a writer the rows are of that table.      *)
Announced ==
  \A d \in Datasets \ torn : Exists(d) =>
    \A w \in Writers : pc[w] = "rows" /\ job[w].dataset = d => job[w].table = uploads[d].columns

Consistent == Announced /\ ColumnsMatchRows

(* A step that neither writes a dataset nor moves a writer to or from the   *)
(* rows.                                                                   *)
LEMMA Aside ==
  ASSUME Consistent, UNCHANGED <<uploads, rows, torn>>,
         \A w \in Writers : /\ pc'[w] = "rows" <=> pc[w] = "rows"
                            /\ pc[w] = "rows" => job'[w] = job[w]
  PROVE  Consistent'
<1>1. Announced'
  BY DEF Consistent, Announced, Exists
<1>2. ColumnsMatchRows'
  BY DEF Consistent, ColumnsMatchRows, Exists
<1> QED
  BY <1>1, <1>2 DEF Consistent

(* A writer that begins has announced its columns; if another is at work on *)
(* the dataset, they overlap.                                              *)
LEMMA Announcing ==
  ASSUME TypeOK, Consistent, NEW r \in Writers, pc[r] = "idle", NEW j, NEW d \in Datasets, NEW t,
         j.dataset = d, j.table = t, Start(r, j, "rows"), UNCHANGED rows,
         uploads'[d].columns = t, \A e \in Datasets \ {d} : uploads'[e] = uploads[e]
  PROVE  Consistent'
<1>1. pc' = [pc EXCEPT ![r] = "rows"] /\ job' = [job EXCEPT ![r] = j]
  BY DEF Start, Goto
<1>2. torn \subseteq torn'
  BY DEF Start
<1>3. ASSUME NEW w \in Writers, w # r, pc[w] = "rows", job[w].dataset = d PROVE d \in torn'
  <2>1. w \in {v \in Writing : job[v].dataset = j.dataset} \cap Writers
    BY <1>3 DEF Writing, Steps
  <2> QED
    BY <2>1 DEF Start
<1>4. r \in Actors
  BY DEF Actors
<1>5. pc'[r] = "rows" /\ job'[r] = j /\ (\A w \in Writers \ {r} : pc'[w] = pc[w] /\ job'[w] = job[w])
  BY <1>1, <1>4 DEF TypeOK, Actors
<1>6. Announced'
  <2> SUFFICES ASSUME NEW e \in Datasets, e \notin torn', uploads'[e] # NoUpload,
                      NEW w \in Writers, pc'[w] = "rows", job'[w].dataset = e
               PROVE  job'[w].table = uploads'[e].columns
    BY DEF Announced, Exists
  <2>1. CASE w = r
    BY <1>5, <2>1
  <2>2. CASE w # r
    BY <1>2, <1>3, <1>5, <2>2 DEF Consistent, Announced, Exists
  <2> QED
    BY <2>1, <2>2
<1>7. ColumnsMatchRows'
  <2> SUFFICES ASSUME NEW e \in Datasets, e \notin torn', uploads'[e] # NoUpload,
                      \A w \in Writers : job'[w].dataset = e => pc'[w] # "rows"
               PROVE  rows'[e] = uploads'[e].columns
    BY DEF ColumnsMatchRows, Exists
  <2>1. e # d
    BY <1>5
  <2>2. uploads[e] # NoUpload /\ e \notin torn /\ uploads'[e] = uploads[e]
    BY <1>2, <2>1
  <2>3. \A w \in Writers : job[w].dataset = e => pc[w] # "rows"
    BY <1>5
  <2> QED
    BY <2>2, <2>3 DEF Consistent, ColumnsMatchRows, Exists
<1> QED
  BY <1>6, <1>7 DEF Consistent

(* A dataset lists the columns of its rows: writers that fail between the   *)
(* two transactions, or overlap, are the only ones that can tear it.       *)
THEOREM ColumnsHold == Spec => []ColumnsMatchRows
<1>1. Init => Consistent
  BY DEF Init, Consistent, Announced, ColumnsMatchRows, Exists
<1>2. TypeOK /\ Working /\ Consistent /\ [Next]_vars => Consistent'
  <2> SUFFICES ASSUME TypeOK, Working, Consistent, [Next]_vars PROVE Consistent'
    OBVIOUS
  <2>1. Writers \subseteq Actors /\ Ingests \subseteq Actors /\ Readers \subseteq Actors
    BY DEF Actors
  <2>2. ASSUME NEW r \in Actors, NEW step, pc' = [pc EXCEPT ![r] = step], pc[r] # "rows" \/ r \notin Writers,
               step # "rows" \/ r \notin Writers, UNCHANGED <<uploads, rows, torn>>,
               \A w \in Actors \ {r} : job'[w] = job[w]
        PROVE  Consistent'
    BY <2>1, <2>2, Aside DEF TypeOK
  <2>3. ASSUME NEW r \in Writers, NEW u \in Users, NEW d \in Datasets, NEW t \in Tables,
               NEW scope \in Scopes, CreateUpload(r, u, d, t, scope)
        PROVE  Consistent'
    <3> DEFINE j == [NoJob EXCEPT !.user = u, !.dataset = d, !.table = t]
    <3>1. j.dataset = d /\ j.table = t
      BY DEF NoJob
    <3>2. Start(r, j, "rows") /\ pc[r] = "idle" /\ UNCHANGED rows
      BY <2>3 DEF CreateUpload
    <3>3. uploads'[d].columns = t /\ \A e \in Datasets \ {d} : uploads'[e] = uploads[e]
      BY <2>3 DEF CreateUpload, TypeOK
    <3> HIDE DEF j
    <3> QED
      BY <3>1, <3>2, <3>3, Announcing
  <2>4. ASSUME NEW r \in Writers, NEW u \in Users, NEW d \in Datasets, NEW t \in Tables,
               UpdateContent(r, u, d, t)
        PROVE  Consistent'
    <3> DEFINE j == [NoJob EXCEPT !.user = u, !.dataset = d, !.table = t, !.replaces = TRUE]
    <3>1. j.dataset = d /\ j.table = t
      BY DEF NoJob
    <3>2. Start(r, j, "rows") /\ pc[r] = "idle" /\ UNCHANGED rows
      BY <2>4 DEF UpdateContent
    <3>3. uploads[d] \in Uploads
      BY <2>4 DEF UpdateContent, Owns, Exists, TypeOK
    <3>4. uploads'[d].columns = t /\ \A e \in Datasets \ {d} : uploads'[e] = uploads[e]
      BY <2>4, <3>3 DEF UpdateContent, TypeOK, Uploads
    <3> HIDE DEF j
    <3> QED
      BY <3>1, <3>2, <3>4, Announcing
  <2>5. ASSUME NEW r \in Writers, WriteRows(r) PROVE Consistent'
    <3> DEFINE d == job[r].dataset
    <3>1. d \in Datasets
      BY <2>1, <2>5 DEF WriteRows, Working, Steps
    <3>2. pc'[r] # "rows" /\ \A w \in Writers \ {r} : pc'[w] = pc[w]
      BY <2>1, <2>5 DEF WriteRows, AfterRows, Goto, TypeOK
    <3>3. UNCHANGED <<uploads, job, torn>>
      BY <2>5 DEF WriteRows, history
    <3>4. Announced'
      BY <3>2, <3>3 DEF Consistent, Announced, Exists
    <3>5. ASSUME NEW e \in Datasets \ torn, Exists(e),
                 \A w \in Writers : job[w].dataset = e => pc'[w] # "rows"
          PROVE  rows'[e] = uploads[e].columns
      <4>1. CASE e = d
        <5>1. rows'[e] = job[r].table
          BY <2>5, <3>1, <3>5, <4>1 DEF WriteRows, TypeOK
        <5>2. job[r].table = uploads[e].columns
          BY <2>5, <3>5, <4>1 DEF WriteRows, Consistent, Announced
        <5> QED
          BY <5>1, <5>2
      <4>2. CASE e # d
        <5>1. rows'[e] = rows[e]
          BY <2>5, <4>2 DEF WriteRows, TypeOK
        <5>2. \A w \in Writers : job[w].dataset = e => pc[w] # "rows"
          BY <3>2, <3>5, <4>2
        <5> QED
          BY <3>5, <5>1, <5>2 DEF Consistent, ColumnsMatchRows
      <4> QED
        BY <4>1, <4>2
    <3>6. ColumnsMatchRows'
      BY <3>3, <3>5 DEF ColumnsMatchRows, Exists
    <3> QED
      BY <3>4, <3>6 DEF Consistent
  <2>6. ASSUME NEW r \in Writers, WriterFails(r) PROVE Consistent'
    <3>1. pc' = [pc EXCEPT ![r] = "failed"] /\ job' = [job EXCEPT ![r] = NoJob]
      BY <2>6 DEF WriterFails, Ends, Goto
    <3>2. UNCHANGED <<uploads, rows>>
      BY <2>6 DEF WriterFails, tables
    <3>3. CASE pc[r] = "rows"
      <4>1. torn' = torn \cup {job[r].dataset}
        BY <2>6, <3>3 DEF WriterFails
      <4>2. pc'[r] # "rows" /\ \A w \in Writers \ {r} : pc'[w] = pc[w] /\ job'[w] = job[w]
        BY <2>1, <3>1 DEF TypeOK
      <4>3. Announced'
        BY <3>2, <4>1, <4>2 DEF Consistent, Announced, Exists
      <4>4. ASSUME NEW e \in Datasets, e \notin torn', Exists(e),
                   \A w \in Writers : job'[w].dataset = e => pc'[w] # "rows"
            PROVE  rows[e] = uploads[e].columns
        <5>1. \A w \in Writers : job[w].dataset = e => pc[w] # "rows"
          BY <4>1, <4>2, <4>4
        <5> QED
          BY <4>1, <4>4, <5>1 DEF Consistent, ColumnsMatchRows
      <4>5. ColumnsMatchRows'
        BY <3>2, <4>4 DEF ColumnsMatchRows, Exists
      <4> QED
        BY <4>3, <4>5 DEF Consistent
    <3>4. CASE pc[r] # "rows"
      <4>1. torn' = torn
        BY <2>6, <3>4 DEF WriterFails
      <4> QED
        BY <2>1, <2>2, <3>1, <3>2, <3>4, <4>1 DEF TypeOK
    <3> QED
      BY <3>3, <3>4
  <2>7. ASSUME NEW r \in Writers, RejectCsv(r) \/ ContentNotFound(r) PROVE Consistent'
    BY <2>1, <2>2, <2>7 DEF RejectCsv, ContentNotFound, Goto, tables, history
  <2>8. ASSUME NEW r \in Writers, ListLinked(r) PROVE Consistent'
    <3>1. PICK step \in {"report", "list"} : pc' = [pc EXCEPT ![r] = step]
      BY <2>8 DEF ListLinked, Goto
    <3>2. pc[r] # "rows" /\ UNCHANGED <<uploads, rows, torn>>
      BY <2>8 DEF ListLinked, tables, history
    <3>3. \A w \in Actors \ {r} : job'[w] = job[w]
      BY <2>8 DEF ListLinked, TypeOK
    <3> QED
      BY <2>1, <2>2, <3>1, <3>2, <3>3
  <2>9. ASSUME NEW r \in Writers, ListRows(r) PROVE Consistent'
    <3>1. pc' = [pc EXCEPT ![r] = "refresh"] /\ UNCHANGED <<uploads, rows, torn>> /\ pc[r] # "rows"
      BY <2>9 DEF ListRows, Goto, tables, history
    <3>2. \A w \in Actors \ {r} : job'[w] = job[w]
      BY <2>9 DEF ListRows, TypeOK
    <3> QED
      BY <2>1, <2>2, <3>1, <3>2
  <2>10. ASSUME NEW r \in Writers, RefreshOne(r) PROVE Consistent'
    <3>1. pc' = pc /\ UNCHANGED <<uploads, rows, torn>> /\ pc[r] # "rows"
      BY <2>10 DEF RefreshOne, history
    <3>2. \A w \in Actors \ {r} : job'[w] = job[w]
      BY <2>10 DEF RefreshOne, TypeOK
    <3> QED
      BY <2>1, <3>1, <3>2, Aside
  <2>11. ASSUME NEW r \in Writers, Refreshed(r) PROVE Consistent'
    BY <2>1, <2>2, <2>11 DEF Refreshed, Goto, tables, history
  <2>12. ASSUME NEW r \in Actors, NEW how \in {"done", "failed"}, Ends(r, how), pc[r] # "rows",
                UNCHANGED <<uploads, rows, torn>>
         PROVE  Consistent'
    <3>1. \A w \in Actors \ {r} : job'[w] = job[w]
      BY <2>12 DEF Ends, TypeOK
    <3> QED
      BY <2>2, <2>12, <3>1 DEF Ends, Goto
  <2>13. ASSUME NEW r \in Actors,
                Report(r) \/ NoSuchRow(r) \/ AttachRow(r) \/ IngestFails(r) \/ ReadDetail(r)
         PROVE  Consistent'
    BY <2>12, <2>13 DEF Report, NoSuchRow, AttachRow, IngestFails, ReadDetail, tables, history
  <2>14. ASSUME NEW r \in Ingests, NEW u \in Users, NEW a \in Archives, NEW d \in Datasets,
                Register(r, u, a, d)
         PROVE  Consistent'
    <3>1. r \notin Writers
      BY ActorsAssumption
    <3>2. PICK j : pc' = [pc EXCEPT ![r] = "lookup"] /\ job' = [job EXCEPT ![r] = j]
      BY <2>14 DEF Register, Start, Goto
    <3>3. UNCHANGED <<uploads, rows, torn>>
      BY <2>14, <3>1 DEF Register, Start
    <3>4. \A w \in Actors \ {r} : job'[w] = job[w]
      BY <3>2 DEF TypeOK
    <3> QED
      BY <2>1, <2>2, <3>1, <3>2, <3>3, <3>4
  <2>15. ASSUME NEW r \in Ingests, LookupRow(r) PROVE Consistent'
    <3>1. r \notin Writers
      BY ActorsAssumption
    <3>2. pc' = [pc EXCEPT ![r] = "attach"] /\ UNCHANGED <<uploads, rows, torn>>
      BY <2>15 DEF LookupRow, Goto, tables, history
    <3>3. \A w \in Actors \ {r} : job'[w] = job[w]
      BY <2>15 DEF LookupRow, TypeOK
    <3> QED
      BY <2>1, <2>2, <3>1, <3>2, <3>3
  <2>16. ASSUME NEW r \in Readers, NEW u \in Users, NEW d \in Datasets, OpenDetail(r, u, d)
         PROVE  Consistent'
    <3>1. pc' = [pc EXCEPT ![r] = "detail"] /\ UNCHANGED <<uploads, rows, torn>> /\ pc[r] # "rows"
      BY <2>16 DEF OpenDetail, Goto, tables, history
    <3>2. \A w \in Actors \ {r} : job'[w] = job[w]
      BY <2>16 DEF OpenDetail, TypeOK
    <3> QED
      BY <2>1, <2>2, <3>1, <3>2
  <2>17. ASSUME NEW u \in Users, NEW d \in Datasets, NEW scope \in Scopes, PatchCatalog(u, d, scope)
         PROVE  Consistent'
    <3>1. uploads' = [uploads EXCEPT ![d].scope = scope] /\ UNCHANGED <<rows, pc, job, torn>>
      BY <2>17 DEF PatchCatalog
    <3>2. uploads[d] \in Uploads
      BY <2>17 DEF PatchCatalog, Owns, Exists, TypeOK
    <3>3. \A e \in Datasets : uploads'[e].columns = uploads[e].columns
      BY <3>1, <3>2 DEF TypeOK, Uploads
    <3>4. \A e \in Datasets : uploads'[e] # NoUpload => uploads[e] # NoUpload
      BY <3>1, <3>2, UploadExists DEF TypeOK
    <3>5. Announced'
      BY <3>1, <3>3, <3>4 DEF Consistent, Announced, Exists
    <3>6. ColumnsMatchRows'
      BY <3>1, <3>3, <3>4 DEF Consistent, ColumnsMatchRows, Exists
    <3> QED
      BY <3>5, <3>6 DEF Consistent
  <2>18. ASSUME NEW u \in Users, NEW d \in Datasets, DeleteUpload(u, d) PROVE Consistent'
    <3>1. /\ uploads' = [uploads EXCEPT ![d] = NoUpload] /\ rows' = [rows EXCEPT ![d] = None]
          /\ UNCHANGED <<pc, job, torn>>
      BY <2>18 DEF DeleteUpload, history
    <3>2. \A e \in Datasets : uploads'[e] # NoUpload =>
            uploads'[e] = uploads[e] /\ rows'[e] = rows[e]
      BY <3>1 DEF TypeOK
    <3>3. Announced'
      BY <3>1, <3>2 DEF Consistent, Announced, Exists
    <3>4. ColumnsMatchRows'
      BY <3>1, <3>2 DEF Consistent, ColumnsMatchRows, Exists
    <3> QED
      BY <3>3, <3>4 DEF Consistent
  <2>19. ASSUME NEW u \in Users, NEW a \in Archives, DeleteFile(u, a) PROVE Consistent'
    BY <2>19, Aside DEF DeleteFile, history
  <2>20. CASE UNCHANGED vars
    BY <2>20, Aside DEF vars, tables, history
  <2> QED
    BY <2>1, <2>3, <2>4, <2>5, <2>6, <2>7, <2>8, <2>9, <2>10, <2>11, <2>13, <2>14, <2>15, <2>16,
       <2>17, <2>18, <2>19, <2>20 DEF Next
<1>3. Consistent => ColumnsMatchRows
  BY DEF Consistent
<1> QED
  BY <1>1, <1>2, <1>3, TypeInvariance, PTL DEF Spec

-----------------------------------------------------------------------------
(* The archives that a replacement is to reach, and those it has reached.  *)
Shows(r, a) ==
  <<job[r].user, a>> \in files /\ archives[<<job[r].user, a>>].dataset = job[r].dataset
TakenFrom(r, a) == archives[<<job[r].user, a>>].table
First(t, a) == \E i \in DOMAIN FirstKeys(t) : FirstKeys(t)[i] = a
Waits(r, a) == \E i \in DOMAIN job[r].todo : job[r].todo[i] = a

(* How far a replacement has come, as long as its dataset is there.        *)
Advanced(r) ==
  /\ pc[r] \in {"links", "list", "refresh", "report"} /\ Exists(job[r].dataset) =>
       rows[job[r].dataset] = job[r].table
  /\ pc[r] = "refresh" /\ Exists(job[r].dataset) => job[r].read = job[r].table
  /\ \A a \in Archives : Shows(r, a) =>
       /\ pc[r] \in {"list", "refresh"} => a \in job[r].linked
       /\ pc[r] = "refresh" /\ First(job[r].table, a) => TakenFrom(r, a) = job[r].table \/ Waits(r, a)
       /\ pc[r] = "report" /\ First(job[r].table, a) => TakenFrom(r, a) = job[r].table

(* No other writer or ingestion is at the dataset, and no ingestion is     *)
(* under way for the user.                                                 *)
Alone(r) ==
  \A w \in (Writers \cup Ingests) \ {r} : pc[w] \in Steps =>
    /\ job[w].dataset # job[r].dataset
    /\ w \in Ingests => job[w].user # job[r].user

Replacing ==
  \A r \in Writers : pc[r] \in Steps /\ r \notin overlapped =>
    /\ Alone(r)
    /\ job[r].replaces => Advanced(r)

(* A step of another that leaves what a replacement is about.              *)
Leaves(r) ==
  /\ Exists(job[r].dataset)' => Exists(job[r].dataset) /\ rows'[job[r].dataset] = rows[job[r].dataset]
  /\ \A a \in Archives : Shows(r, a)' => Shows(r, a) /\ TakenFrom(r, a)' = TakenFrom(r, a)

LEMMA Leaving ==
  ASSUME NEW r \in Writers, Advanced(r), pc'[r] = pc[r], job'[r] = job[r], Leaves(r)
  PROVE  Advanced(r)'
<1>1. /\ pc'[r] \in {"links", "list", "refresh", "report"} /\ Exists(job[r].dataset)' =>
           rows'[job'[r].dataset] = job'[r].table
      /\ pc'[r] = "refresh" /\ Exists(job[r].dataset)' => job'[r].read = job'[r].table
  BY DEF Advanced, Leaves
<1>2. ASSUME NEW a \in Archives, Shows(r, a)'
      PROVE  /\ pc'[r] \in {"list", "refresh"} => a \in job'[r].linked
             /\ pc'[r] = "refresh" /\ First(job'[r].table, a) =>
                  TakenFrom(r, a)' = job'[r].table \/ Waits(r, a)'
             /\ pc'[r] = "report" /\ First(job'[r].table, a) => TakenFrom(r, a)' = job'[r].table
  <2>1. Shows(r, a) /\ TakenFrom(r, a)' = TakenFrom(r, a)
    BY <1>2 DEF Leaves
  <2>2. Waits(r, a)' <=> Waits(r, a)
    BY DEF Waits
  <2> QED
    BY <2>1, <2>2 DEF Advanced
<1> QED
  BY <1>1, <1>2 DEF Advanced, First

(* Whoever starts beside a replacement makes it overlap.                   *)
LEMMA Joining ==
  ASSUME TypeOK, Replacing, NEW q \in Writers \cup Ingests, NEW j \in Jobs, NEW step \in Steps,
         pc[q] = "idle", Start(q, j, step),
         NEW r \in Writers, pc'[r] \in Steps, r \notin overlapped'
  PROVE  /\ Alone(r)'
         /\ r # q => /\ pc[r] \in Steps /\ r \notin overlapped /\ pc'[r] = pc[r] /\ job'[r] = job[r]
                     /\ job[r].dataset # j.dataset
                     /\ q \in Ingests => job[r].user # j.user
<1> DEFINE same == {w \in Writing : job[w].dataset = j.dataset}
           others == same \cup {w \in Writing : {q, w} \cap Ingests # {} /\ job[w].user = j.user}
<1>1. /\ pc' = [pc EXCEPT ![q] = step] /\ job' = [job EXCEPT ![q] = j]
      /\ overlapped' = IF others = {} THEN overlapped ELSE overlapped \cup others \cup {q}
  BY DEF Start, Goto
<1>2. /\ Writers \subseteq Actors /\ Ingests \subseteq Actors /\ q \in Actors
      /\ Writers \cap Ingests = {}
  BY ActorsAssumption DEF Actors
<1>3. /\ pc'[q] = step /\ job'[q] = j
      /\ \A w \in Actors \ {q} : pc'[w] = pc[w] /\ job'[w] = job[w]
  BY <1>1, <1>2 DEF TypeOK
<1>4. r \notin overlapped /\ r \notin others /\ (r = q => others = {})
  BY <1>1
<1>5. \A w \in Writers \cup Ingests : pc[w] \in Steps =>
        (w \in others <=> \/ job[w].dataset = j.dataset
                          \/ (q \in Ingests \/ w \in Ingests) /\ job[w].user = j.user)
  BY DEF Writing
<1> HIDE DEF same, others
<1>6. CASE r = q
  <2>1. ASSUME NEW w \in (Writers \cup Ingests) \ {r}, pc'[w] \in Steps
        PROVE  /\ job'[w].dataset # job'[r].dataset
               /\ w \in Ingests => job'[w].user # job'[r].user
    BY <1>2, <1>3, <1>4, <1>5, <1>6, <2>1
  <2> QED
    BY <1>6, <2>1 DEF Alone
<1>7. CASE r # q
  <2>1. pc[r] \in Steps /\ pc'[r] = pc[r] /\ job'[r] = job[r]
    BY <1>2, <1>3, <1>7
  <2>2. job[r].dataset # j.dataset /\ (q \in Ingests => job[r].user # j.user)
    BY <1>4, <1>5, <2>1
  <2>3. Alone(r)
    BY <1>4, <2>1 DEF Replacing
  <2>4. ASSUME NEW w \in (Writers \cup Ingests) \ {r}, pc'[w] \in Steps
        PROVE  /\ job'[w].dataset # job'[r].dataset
               /\ w \in Ingests => job'[w].user # job'[r].user
    BY <1>2, <1>3, <2>1, <2>2, <2>3, <2>4 DEF Alone
  <2>5. Alone(r)'
    BY <2>4 DEF Alone
  <2> QED
    BY <1>4, <2>1, <2>2, <2>5
<1> QED
  BY <1>6, <1>7

(* Nobody starts.                                                          *)
Staying ==
  /\ overlapped' = overlapped
  /\ \A q \in Writers \cup Ingests : pc'[q] \in Steps =>
       /\ pc[q] \in Steps
       /\ job'[q].dataset = job[q].dataset /\ job'[q].user = job[q].user
       /\ job'[q].replaces = job[q].replaces

LEMMA StaysAlone ==
  ASSUME Replacing, Staying, NEW r \in Writers, pc'[r] \in Steps, r \notin overlapped'
  PROVE  /\ pc[r] \in Steps /\ r \notin overlapped /\ Alone(r) /\ Alone(r)'
         /\ job'[r].replaces = job[r].replaces
<1>1. pc[r] \in Steps /\ r \notin overlapped /\ job'[r].replaces = job[r].replaces
      /\ job'[r].dataset = job[r].dataset /\ job'[r].user = job[r].user
  BY DEF Staying
<1>2. Alone(r)
  BY <1>1 DEF Replacing
<1>3. Alone(r)'
  BY <1>1, <1>2 DEF Alone, Staying
<1> QED
  BY <1>1, <1>2, <1>3

(* One actor goes on or ends.                                              *)
LEMMA OneStays ==
  ASSUME TypeOK, NEW q \in Actors, NEW step, pc' = [pc EXCEPT ![q] = step],
         \A w \in Actors \ {q} : job'[w] = job[w], UNCHANGED overlapped,
         q \in Writers \cup Ingests /\ step \in Steps =>
           /\ pc[q] \in Steps
           /\ job'[q].dataset = job[q].dataset /\ job'[q].user = job[q].user
           /\ job'[q].replaces = job[q].replaces
  PROVE  Staying /\ \A r \in Writers \ {q} : pc'[r] = pc[r] /\ job'[r] = job[r]
<1>1. Writers \subseteq Actors /\ Ingests \subseteq Actors
  BY DEF Actors
<1>2. pc'[q] = step /\ \A w \in Actors \ {q} : pc'[w] = pc[w]
  BY DEF TypeOK
<1> QED
  BY <1>1, <1>2 DEF Staying

(* The dataset and the archives of a replacement when the tables stay.     *)
LEMMA TablesLeave ==
  ASSUME NEW r \in Writers, UNCHANGED tables, job'[r] = job[r]
  PROVE  Leaves(r)
BY DEF Leaves, Shows, TakenFrom, Exists, tables

(* Another gives a row of another dataset to an archive.                   *)
LEMMA ElsewhereLinked ==
  ASSUME NEW r \in Writers, NEW x, NEW d, NEW t, d # job[r].dataset, TypeOK,
         archives' = [archives EXCEPT ![x] = [dataset |-> d, table |-> t]],
         job[r].user \in Users, UNCHANGED <<uploads, rows, files>>, job'[r] = job[r]
  PROVE  Leaves(r)
<1>1. ASSUME NEW a \in Archives, Shows(r, a)'
      PROVE  Shows(r, a) /\ TakenFrom(r, a)' = TakenFrom(r, a)
  <2> DEFINE y == <<job[r].user, a>>
  <2>1. y \in Users \X Archives
    OBVIOUS
  <2>2. y \in files' /\ archives'[y].dataset = job[r].dataset
    BY <1>1 DEF Shows
  <2>3. archives'[y] = IF y = x THEN [dataset |-> d, table |-> t] ELSE archives[y]
    BY <2>1 DEF TypeOK
  <2>4. archives'[y] = archives[y]
    BY <2>2, <2>3
  <2> QED
    BY <2>2, <2>4 DEF Shows, TakenFrom
<1> QED
  BY <1>1 DEF Leaves, Exists

(* What another does beside a replacement that is alone.                   *)
LEMMA Beside ==
  ASSUME TypeOK, Working, NEW r \in Writers, pc[r] \in Steps, Alone(r), job'[r] = job[r],
         \/ \E q \in (Writers \cup Ingests) \ {r} : WriteRows(q) \/ RefreshOne(q) \/ AttachRow(q)
         \/ \E u \in Users, d \in Datasets :
              \/ \E scope \in Scopes : PatchCatalog(u, d, scope)
              \/ DeleteUpload(u, d)
         \/ \E u \in Users, a \in Archives : DeleteFile(u, a)
  PROVE  Leaves(r)
<1>1. r \in Actors /\ Writers \cup Ingests \subseteq Actors
  BY DEF Actors
<1>2. job[r].user \in Users /\ job[r].dataset \in Datasets
  BY <1>1 DEF Working
<1>3. ASSUME NEW q \in (Writers \cup Ingests) \ {r}, WriteRows(q) PROVE Leaves(r)
  <2>1. pc[q] \in Steps /\ UNCHANGED <<uploads, files, archives>>
        /\ rows' = IF Exists(job[q].dataset) THEN [rows EXCEPT ![job[q].dataset] = job[q].table] ELSE rows
    BY <1>3 DEF WriteRows, Steps
  <2>2. job[q].dataset # job[r].dataset
    BY <2>1 DEF Alone
  <2>3. rows'[job[r].dataset] = rows[job[r].dataset]
    BY <1>2, <2>1, <2>2 DEF TypeOK
  <2> QED
    BY <2>1, <2>3 DEF Leaves, Shows, TakenFrom, Exists
<1>4. ASSUME NEW q \in (Writers \cup Ingests) \ {r}, RefreshOne(q) \/ AttachRow(q) PROVE Leaves(r)
  <2>1. pc[q] \in Steps /\ UNCHANGED <<uploads, rows, files>>
    BY <1>4 DEF RefreshOne, AttachRow, Steps
  <2>2. job[q].dataset # job[r].dataset
    BY <2>1 DEF Alone
  <2>3. \E x : archives' = [archives EXCEPT ![x] = [dataset |-> job[q].dataset, table |-> job[q].read]]
    BY <1>4 DEF RefreshOne, AttachRow
  <2> QED
    BY <1>2, <2>1, <2>2, <2>3, ElsewhereLinked
<1>5. ASSUME NEW u \in Users, NEW d \in Datasets, NEW scope \in Scopes, PatchCatalog(u, d, scope)
      PROVE  Leaves(r)
  <2>1. UNCHANGED <<rows, files, archives>> /\ Exists(d)
        /\ uploads' = [uploads EXCEPT ![d].scope = scope]
    BY <1>5 DEF PatchCatalog, Owns
  <2>2. Exists(job[r].dataset)' => Exists(job[r].dataset)
    BY <1>2, <2>1 DEF Exists, TypeOK
  <2> QED
    BY <2>1, <2>2 DEF Leaves, Shows, TakenFrom
<1>6. ASSUME NEW u \in Users, NEW d \in Datasets, DeleteUpload(u, d) PROVE Leaves(r)
  <2>1. /\ uploads' = [uploads EXCEPT ![d] = NoUpload] /\ rows' = [rows EXCEPT ![d] = None]
        /\ files' = files
    BY <1>6 DEF DeleteUpload
  <2>2. Exists(job[r].dataset)' => Exists(job[r].dataset) /\ rows'[job[r].dataset] = rows[job[r].dataset]
    BY <1>2, <2>1 DEF Exists, TypeOK
  <2>3. ASSUME NEW a \in Archives, Shows(r, a)'
        PROVE  Shows(r, a) /\ TakenFrom(r, a)' = TakenFrom(r, a)
    <3> DEFINE y == <<job[r].user, a>>
    <3>1. y \in Users \X Archives
      BY <1>2
    <3>2. y \in files /\ archives'[y].dataset = job[r].dataset
      BY <2>1, <2>3 DEF Shows
    <3>3. archives'[y] = IF archives[y].dataset = d THEN [archives[y] EXCEPT !.dataset = None] ELSE archives[y]
      BY <1>6, <3>1 DEF DeleteUpload
    <3>4. archives[y] \in {NoRow} \cup [dataset : Datasets \cup {None}, table : Tables]
      BY <3>1 DEF TypeOK
    <3>5. [archives[y] EXCEPT !.dataset = None].dataset = None
      BY <3>4 DEF NoRow
    <3>6. archives'[y] = archives[y]
      BY <1>2, <3>2, <3>3, <3>5, TablesAssumption
    <3> QED
      BY <3>2, <3>6 DEF Shows, TakenFrom
  <2> QED
    BY <2>2, <2>3 DEF Leaves
<1>7. ASSUME NEW u \in Users, NEW a \in Archives, DeleteFile(u, a) PROVE Leaves(r)
  BY <1>7 DEF DeleteFile, Leaves, Shows, TakenFrom, Exists
<1> QED
  BY <1>3, <1>4, <1>5, <1>6, <1>7

(* What a request does when it starts beside a replacement.                *)
LEMMA StartsBeside ==
  ASSUME TypeOK, Working, NEW r \in Writers, pc[r] \in Steps, job'[r] = job[r],
         NEW u \in Users, NEW d \in Datasets,
         \/ /\ \E q \in Writers, t \in Tables :
                  UpdateContent(q, u, d, t) \/ \E scope \in Scopes : CreateUpload(q, u, d, t, scope)
            /\ job[r].dataset # d
         \/ /\ \E q \in Ingests, a \in Archives : Register(q, u, a, d)
            /\ job[r].user # u
  PROVE  Leaves(r)
<1>1. r \in Actors
  BY DEF Actors
<1>2. job[r].user \in Users /\ job[r].dataset \in Datasets
  BY <1>1 DEF Working
<1>3. CASE /\ \E q \in Writers, t \in Tables :
                  UpdateContent(q, u, d, t) \/ \E scope \in Scopes : CreateUpload(q, u, d, t, scope)
           /\ job[r].dataset # d
  <2>1. UNCHANGED <<rows, files, archives>> /\ uploads'[job[r].dataset] = uploads[job[r].dataset]
    BY <1>2, <1>3 DEF UpdateContent, CreateUpload, TypeOK
  <2> QED
    BY <2>1 DEF Leaves, Shows, TakenFrom, Exists
<1>4. CASE /\ \E q \in Ingests, a \in Archives : Register(q, u, a, d)
           /\ job[r].user # u
  BY <1>4 DEF Register, Leaves, Shows, TakenFrom, Exists
<1> QED
  BY <1>3, <1>4

(* The rows of the dataset are those of the table.                         *)
LEMMA RowsAdvance ==
  ASSUME TypeOK, Working, NEW r \in Writers, WriteRows(r), job[r].replaces
  PROVE  Advanced(r)'
<1>1. r \in Actors
  BY DEF Actors
<1>2. job[r].dataset \in Datasets
  BY <1>1 DEF WriteRows, Working, Steps
<1>3. pc'[r] = "links" /\ job' = job /\ uploads' = uploads
  BY <1>1 DEF WriteRows, AfterRows, Goto, TypeOK
<1>4. Exists(job[r].dataset) => rows'[job[r].dataset] = job[r].table
  BY <1>2 DEF WriteRows, TypeOK
<1> QED
  BY <1>3, <1>4 DEF Advanced, Exists

(* The archives to reach are among the linked ones.                        *)
LEMMA LinksAdvance ==
  ASSUME TypeOK, Working, NEW r \in Writers, ListLinked(r), Advanced(r)
  PROVE  Advanced(r)'
<1> DEFINE linked == {x.archive : x \in {y \in ArchiveMetadata(job[r].user) : y.dataset = job[r].dataset}}
<1>1. r \in Actors
  BY DEF Actors
<1>2. /\ UNCHANGED tables
      /\ pc'[r] = IF linked = {} THEN "report" ELSE "list"
      /\ job' = [job EXCEPT ![r].linked = linked]
  BY <1>1 DEF ListLinked, Goto, TypeOK
<1>3. ASSUME NEW a \in Archives, Shows(r, a) PROVE a \in linked
  <2> DEFINE x == <<job[r].user, a>>
             y == [archive |-> a, dataset |-> archives[x].dataset, table |-> archives[x].table]
  <2>1. y \in ArchiveMetadata(job[r].user) /\ y.dataset = job[r].dataset /\ y.archive = a
    BY <1>3 DEF Shows, ArchiveMetadata
  <2> HIDE DEF y
  <2> QED
    BY <2>1
<1> HIDE DEF linked
<1>4. job[r] \in Jobs
  BY <1>1 DEF TypeOK
<1>5. /\ job'[r].linked = linked /\ job'[r].user = job[r].user /\ job'[r].dataset = job[r].dataset
      /\ job'[r].table = job[r].table
  BY <1>1, <1>2, <1>4 DEF Jobs, TypeOK
<1>6. pc[r] = "links"
  BY DEF ListLinked
<1>7. Exists(job[r].dataset)' => rows'[job'[r].dataset] = job'[r].table
  BY <1>2, <1>5, <1>6 DEF Advanced, Exists, tables
<1>8. \A a \in Archives : Shows(r, a)' => a \in linked
  BY <1>2, <1>3, <1>5 DEF Shows, tables
<1> QED
  BY <1>2, <1>5, <1>7, <1>8 DEF Advanced

(* Its rows are still those of the table.                                  *)
LEMMA ListAdvances ==
  ASSUME TypeOK, Working, LinkedDatasetsExist, NEW r \in Writers, ListRows(r), Advanced(r)
  PROVE  Advanced(r)'
<1> DEFINE t == rows[job[r].dataset]
<1>1. r \in Actors
  BY DEF Actors
<1>2. job[r] \in Jobs
  BY <1>1 DEF TypeOK
<1>3. job[r].user \in Users /\ job[r].dataset \in Datasets
  BY <1>1 DEF ListRows, Working, Steps
<1>4. /\ UNCHANGED tables /\ pc[r] = "list" /\ pc'[r] = "refresh"
      /\ job' = [job EXCEPT ![r].todo = FirstKeys(t), ![r].read = t]
  BY <1>1 DEF ListRows, Goto, TypeOK
<1>5. Exists(job[r].dataset) => t = job[r].table
  BY <1>4 DEF Advanced
<1> HIDE DEF t
<1>6. /\ job'[r].todo = FirstKeys(t) /\ job'[r].read = t /\ job'[r].user = job[r].user
      /\ job'[r].dataset = job[r].dataset /\ job'[r].table = job[r].table /\ job'[r].linked = job[r].linked
  BY <1>1, <1>2, <1>4 DEF Jobs, TypeOK
<1>7. /\ Exists(job[r].dataset)' => rows'[job'[r].dataset] = job'[r].table
      /\ Exists(job[r].dataset)' => job'[r].read = job'[r].table
  BY <1>4, <1>5, <1>6 DEF Exists, tables, t
<1>8. ASSUME NEW a \in Archives, Shows(r, a)'
      PROVE  a \in job'[r].linked /\ (First(job'[r].table, a) => Waits(r, a)')
  <2>0. UNCHANGED <<files, archives>>
    BY <1>4 DEF tables
  <2>1. Shows(r, a)
    BY <1>6, <1>8, <2>0 DEF Shows
  <2>2. Exists(job[r].dataset)
    BY <1>3, <2>1, TablesAssumption DEF Shows, LinkedDatasetsExist
  <2>3. a \in job'[r].linked
    BY <1>4, <1>6, <2>1 DEF Advanced
  <2>4. job'[r].todo = FirstKeys(job'[r].table)
    BY <1>5, <1>6, <2>2
  <2> QED
    BY <2>3, <2>4 DEF First, Waits
<1> QED
  BY <1>4, <1>7, <1>8 DEF Advanced

(* What is left of a sequence after its first elements.                    *)
LEMMA RestOf ==
  ASSUME NEW S, NEW s \in Seq(S), NEW i \in 1..Len(s), NEW n \in (i + 1)..Len(s)
  PROVE  /\ n - i \in DOMAIN SubSeq(s, i + 1, Len(s))
         /\ SubSeq(s, i + 1, Len(s))[n - i] = s[n]
<1> DEFINE rest == SubSeq(s, i + 1, Len(s))
<1>1. Len(s) \in Nat /\ i \in Int /\ i + 1 \in Int /\ \A k \in (i + 1)..Len(s) : s[k] \in S
  BY LenProperties
<1>2. rest \in Seq(S) /\ Len(rest) = IF i + 1 <= Len(s) THEN Len(s) - (i + 1) + 1 ELSE 0
  BY <1>1, SubSeqProperties
<1>3. \A k \in 1..(Len(s) - (i + 1) + 1) : rest[k] = s[i + 1 + k - 1]
  BY <1>1, SubSeqProperties
<1> HIDE DEF rest
<1>4. n - i \in 1..(Len(s) - (i + 1) + 1) /\ i + 1 + (n - i) - 1 = n /\ i + 1 <= Len(s)
  BY <1>1
<1>5. rest[n - i] = s[n]
  BY <1>3, <1>4
<1>6. DOMAIN rest = 1..Len(rest)
  BY <1>2, LenProperties
<1>7. n - i \in DOMAIN rest
  BY <1>1, <1>2, <1>4, <1>6
<1> QED
  BY <1>5, <1>7 DEF rest

(* One archive more has its row.                                           *)
LEMMA RefreshAdvances ==
  ASSUME TypeOK, Working, NEW r \in Writers, RefreshOne(r), Advanced(r)
  PROVE  Advanced(r)'
<1>1. r \in Actors
  BY DEF Actors
<1>2. job[r] \in Jobs
  BY <1>1 DEF TypeOK
<1>3. job[r].user \in Users /\ job[r].dataset \in Datasets
  BY <1>1 DEF RefreshOne, Working, Steps
<1>4. PICK i \in DOMAIN job[r].todo :
        /\ job[r].todo[i] \in job[r].linked
        /\ \A n \in 1..(i - 1) : job[r].todo[n] \notin job[r].linked
        /\ archives' = [archives EXCEPT ![<<job[r].user, job[r].todo[i]>>] =
                          [dataset |-> job[r].dataset, table |-> job[r].read]]
        /\ job' = [job EXCEPT ![r].todo = SubSeq(job[r].todo, i + 1, Len(job[r].todo))]
  BY DEF RefreshOne
<1> DEFINE todo == job[r].todo
           rest == SubSeq(todo, i + 1, Len(todo))
<1>5. pc[r] = "refresh" /\ Exists(job[r].dataset) /\ UNCHANGED <<uploads, rows, files, pc>>
  BY DEF RefreshOne
<1>6. todo \in Seq(Archives) /\ i \in 1..Len(todo) /\ Len(todo) \in Nat
  BY <1>2, <1>4, LenProperties DEF Jobs
<1>7. \A n \in (i + 1)..Len(todo) : n - i \in DOMAIN rest /\ rest[n - i] = todo[n]
  BY <1>6, RestOf
<1>8. /\ job'[r].todo = rest /\ job'[r].user = job[r].user /\ job'[r].dataset = job[r].dataset
      /\ job'[r].table = job[r].table /\ job'[r].linked = job[r].linked /\ job'[r].read = job[r].read
  BY <1>1, <1>2, <1>4 DEF Jobs, TypeOK
<1>9. job[r].read = job[r].table /\ rows[job[r].dataset] = job[r].table
  BY <1>5 DEF Advanced
<1> HIDE DEF rest
<1>10. ASSUME NEW a \in Archives, Shows(r, a)'
       PROVE  /\ a \in job'[r].linked
              /\ First(job'[r].table, a) => TakenFrom(r, a)' = job'[r].table \/ Waits(r, a)'
  <2> DEFINE x == <<job[r].user, a>>
  <2>1. x \in Users \X Archives
    BY <1>3
  <2>2. CASE a = todo[i]
    <3>1. archives'[x] = [dataset |-> job[r].dataset, table |-> job[r].read]
      BY <1>4, <2>1, <2>2 DEF TypeOK
    <3>2. TakenFrom(r, a)' = job'[r].table
      BY <1>8, <1>9, <3>1 DEF TakenFrom
    <3> QED
      BY <1>4, <1>8, <2>2, <3>2
  <2>3. CASE a # todo[i]
    <3>1. archives'[x] = archives[x]
      BY <1>4, <2>1, <2>3 DEF TypeOK
    <3>2. Shows(r, a) /\ TakenFrom(r, a)' = TakenFrom(r, a)
      BY <1>5, <1>8, <1>10, <3>1 DEF Shows, TakenFrom
    <3>3. /\ a \in job[r].linked
          /\ First(job[r].table, a) => TakenFrom(r, a) = job[r].table \/ Waits(r, a)
      BY <1>5, <3>2 DEF Advanced
    <3>4. ASSUME Waits(r, a) PROVE Waits(r, a)'
      <4>1. PICK n \in DOMAIN todo : todo[n] = a
        BY <3>4 DEF Waits
      <4>2. n \in 1..Len(todo) /\ n # i /\ n \notin 1..(i - 1)
        BY <1>4, <1>6, <2>3, <3>3, <4>1, LenProperties
      <4>3. n \in (i + 1)..Len(todo)
        BY <1>6, <4>2
      <4> QED
        BY <1>7, <1>8, <4>1, <4>3 DEF Waits
    <3> QED
      BY <1>8, <3>2, <3>3, <3>4
  <2> QED
    BY <2>2, <2>3
<1>11. /\ rows'[job'[r].dataset] = job'[r].table /\ job'[r].read = job'[r].table
       /\ pc'[r] = "refresh"
  BY <1>5, <1>8, <1>9
<1> QED
  BY <1>10, <1>11 DEF Advanced

(* Every archive that waited has its row.                                  *)
LEMMA EndAdvances ==
  ASSUME TypeOK, NEW r \in Writers, Refreshed(r), Advanced(r)
  PROVE  Advanced(r)'
<1>1. r \in Actors
  BY DEF Actors
<1>2. UNCHANGED <<tables, job>> /\ pc[r] = "refresh" /\ pc'[r] = "report"
      /\ \A i \in DOMAIN job[r].todo : job[r].todo[i] \notin job[r].linked
  BY <1>1 DEF Refreshed, Goto, TypeOK
<1>3. ASSUME NEW a \in Archives, Shows(r, a), First(job[r].table, a) PROVE TakenFrom(r, a) = job[r].table
  BY <1>2, <1>3 DEF Advanced, Waits
<1>4. Exists(job[r].dataset) => rows[job[r].dataset] = job[r].table
  BY <1>2 DEF Advanced
<1> QED
  BY <1>2, <1>3, <1>4 DEF Advanced, Exists, Shows, TakenFrom, tables

(* What a replacement has done so far holds through each step, its own and *)
(* those of others.                                                        *)
LEMMA ReplacingSteps ==
  ASSUME TypeOK, Working, LinkedDatasetsExist, Replacing, [Next]_vars
  PROVE  Replacing'
<1> DEFINE Goal(r) == Alone(r)' /\ (job'[r].replaces => Advanced(r)')
<1> SUFFICES ASSUME NEW r \in Writers, pc'[r] \in Steps, r \notin overlapped' PROVE Goal(r)
  BY DEF Replacing
<1>1. /\ Writers \subseteq Actors /\ Ingests \subseteq Actors /\ Readers \subseteq Actors
      /\ Writers \cap Ingests = {} /\ Writers \cap Readers = {}
  BY ActorsAssumption DEF Actors
<1>2. ASSUME Staying, pc'[r] = pc[r], job'[r] = job[r],
             pc[r] \in Steps /\ Alone(r) => Leaves(r)
      PROVE  Goal(r)
  <2>1. pc[r] \in Steps /\ r \notin overlapped /\ Alone(r) /\ Alone(r)'
    BY <1>2, StaysAlone
  <2>2. job[r].replaces => Advanced(r)
    BY <2>1 DEF Replacing
  <2> QED
    BY <1>2, <2>1, <2>2, Leaving
<1>3. ASSUME Staying, job[r].replaces /\ Advanced(r) => Advanced(r)' PROVE Goal(r)
  BY <1>3, StaysAlone DEF Replacing
<1>4. ASSUME NEW q \in Actors, NEW step, pc' = [pc EXCEPT ![q] = step],
             \A w \in Actors \ {q} : job'[w] = job[w], UNCHANGED <<tables, overlapped>>,
             q \in Readers \/ step \notin Steps
      PROVE  Goal(r)
  <2>1. Staying /\ \A w \in Writers \ {q} : pc'[w] = pc[w] /\ job'[w] = job[w]
    BY <1>1, <1>4, ActorsAssumption, OneStays
  <2>2. q # r
    BY <1>1, <1>4 DEF TypeOK
  <2> QED
    BY <1>2, <1>4, <2>1, <2>2, TablesLeave
<1>5. ASSUME NEW q \in Writers \cup Ingests, NEW step, pc' = [pc EXCEPT ![q] = step],
             pc[q] \in Steps, \A w \in Actors \ {q} : job'[w] = job[w], UNCHANGED overlapped,
             /\ job'[q].dataset = job[q].dataset /\ job'[q].user = job[q].user
             /\ job'[q].replaces = job[q].replaces,
             q # r /\ pc[r] \in Steps /\ Alone(r) /\ job'[r] = job[r] => Leaves(r),
             q = r /\ job[r].replaces /\ Advanced(r) => Advanced(r)'
      PROVE  Goal(r)
  <2>1. Staying /\ \A w \in Writers \ {q} : pc'[w] = pc[w] /\ job'[w] = job[w]
    BY <1>1, <1>5, OneStays
  <2> QED
    BY <1>2, <1>3, <1>5, <2>1
<1>6. ASSUME NEW q \in Writers \cup Ingests, NEW j \in Jobs, NEW step \in Steps, pc[q] = "idle",
             Start(q, j, step), job'[q].replaces /\ q = r => Advanced(r)',
             (/\ pc[r] \in Steps /\ job'[r] = job[r] /\ job[r].dataset # j.dataset
              /\ q \in Ingests => job[r].user # j.user) => Leaves(r)
      PROVE  Goal(r)
  <2>1. /\ Alone(r)'
        /\ r # q => /\ pc[r] \in Steps /\ r \notin overlapped /\ pc'[r] = pc[r] /\ job'[r] = job[r]
                    /\ job[r].dataset # j.dataset
                    /\ q \in Ingests => job[r].user # j.user
    BY <1>6, Joining
  <2>2. CASE r = q
    BY <1>6, <2>1, <2>2
  <2>3. CASE r # q
    <3>1. Leaves(r)
      BY <1>6, <2>1, <2>3
    <3>2. job[r].replaces => Advanced(r)
      BY <2>1, <2>3 DEF Replacing
    <3> QED
      BY <2>1, <2>3, <3>1, <3>2, Leaving
  <2> QED
    BY <2>2, <2>3
<1>7. ASSUME NEW q \in Writers, NEW u \in Users, NEW d \in Datasets, NEW t \in Tables,
             \/ UpdateContent(q, u, d, t)
             \/ \E scope \in Scopes : CreateUpload(q, u, d, t, scope)
      PROVE  Goal(r)
  <2>1. PICK j \in Jobs : Start(q, j, "rows") /\ j.dataset = d /\ j.user = u
    <3>1. CASE UpdateContent(q, u, d, t)
      <4> DEFINE j == [NoJob EXCEPT !.user = u, !.dataset = d, !.table = t, !.replaces = TRUE]
      <4>1. j \in Jobs /\ j.dataset = d /\ j.user = u
        BY NoJobType DEF Jobs
      <4> HIDE DEF j
      <4> QED
        BY <3>1, <4>1 DEF UpdateContent, j
    <3>2. CASE \E scope \in Scopes : CreateUpload(q, u, d, t, scope)
      <4> DEFINE j == [NoJob EXCEPT !.user = u, !.dataset = d, !.table = t]
      <4>1. j \in Jobs /\ j.dataset = d /\ j.user = u
        BY NoJobType DEF Jobs
      <4> HIDE DEF j
      <4> QED
        BY <3>2, <4>1 DEF CreateUpload, j
    <3> QED
      BY <1>7, <3>1, <3>2
  <2>2. pc[q] = "idle" /\ "rows" \in Steps
    BY <1>7 DEF UpdateContent, CreateUpload, Steps
  <2>3. pc'[q] = "rows"
    BY <1>1, <2>1 DEF Start, Goto, TypeOK
  <2>4. q = r => Advanced(r)'
    BY <2>3 DEF Advanced
  <2>5. pc[r] \in Steps /\ job'[r] = job[r] /\ job[r].dataset # d => Leaves(r)
    BY <1>7, StartsBeside
  <2> QED
    BY <1>6, <2>1, <2>2, <2>4, <2>5
<1>8. ASSUME NEW q \in Ingests, NEW u \in Users, NEW a \in Archives, NEW d \in Datasets,
             Register(q, u, a, d)
      PROVE  Goal(r)
  <2> DEFINE j == [NoJob EXCEPT !.user = u, !.dataset = d, !.archive = a]
  <2>1. j \in Jobs /\ j.dataset = d /\ j.user = u
    BY NoJobType DEF Jobs
  <2>2. Start(q, j, "lookup") /\ pc[q] = "idle" /\ "lookup" \in Steps
    BY <1>8 DEF Register, Steps
  <2> HIDE DEF j
  <2>3. q # r
    BY <1>1
  <2>4. pc[r] \in Steps /\ job'[r] = job[r] /\ job[r].user # u => Leaves(r)
    BY <1>8, StartsBeside
  <2> QED
    BY <1>6, <2>1, <2>2, <2>3, <2>4
<1>9. ASSUME NEW q \in Writers, RejectCsv(q) \/ ContentNotFound(q) PROVE Goal(r)
  <2>1. pc' = [pc EXCEPT ![q] = "failed"] /\ job' = job /\ UNCHANGED <<tables, overlapped>>
    BY <1>9 DEF RejectCsv, ContentNotFound, Goto, history
  <2> QED
    BY <1>1, <1>4, <2>1 DEF Steps
<1>10. ASSUME NEW q \in Actors, NEW how \in {"done", "failed"}, Ends(q, how), UNCHANGED <<tables, overlapped>>
       PROVE  Goal(r)
  <2>1. pc' = [pc EXCEPT ![q] = how] /\ \A w \in Actors \ {q} : job'[w] = job[w]
    BY <1>10 DEF Ends, Goto, TypeOK
  <2> QED
    BY <1>4, <1>10, <2>1 DEF Steps
<1>11. ASSUME NEW q \in Actors, Report(q) \/ WriterFails(q) \/ NoSuchRow(q) \/ IngestFails(q) \/ ReadDetail(q)
       PROVE  Goal(r)
  BY <1>10, <1>11 DEF Report, WriterFails, NoSuchRow, IngestFails, ReadDetail, history
<1>12. ASSUME NEW q \in Writers, WriteRows(q) PROVE Goal(r)
  <2>1. pc[q] \in Steps /\ pc' = [pc EXCEPT ![q] = AfterRows(q)] /\ UNCHANGED <<job, overlapped>>
    BY <1>12 DEF WriteRows, Goto, Steps, history
  <2>2. q # r /\ pc[r] \in Steps /\ Alone(r) => Leaves(r)
    BY <1>12, <2>1, Beside
  <2>3. q = r /\ job[r].replaces => Advanced(r)'
    BY <1>12, RowsAdvance
  <2> QED
    BY <1>5, <2>1, <2>2, <2>3
<1>13. ASSUME NEW q \in Writers, Refreshed(q) PROVE Goal(r)
  <2>1. pc[q] \in Steps /\ pc' = [pc EXCEPT ![q] = "report"] /\ UNCHANGED <<tables, job, overlapped>>
    BY <1>13 DEF Refreshed, Goto, Steps, history
  <2>2. q # r => Leaves(r)
    BY <2>1, TablesLeave
  <2>3. q = r /\ Advanced(r) => Advanced(r)'
    BY <1>13, EndAdvances
  <2> QED
    BY <1>5, <2>1, <2>2, <2>3
<1>14. ASSUME NEW q \in Writers, ListLinked(q) PROVE Goal(r)
  <2>1. /\ pc[q] \in Steps /\ UNCHANGED <<tables, overlapped>>
        /\ \E step : pc' = [pc EXCEPT ![q] = step]
        /\ \E l : job' = [job EXCEPT ![q].linked = l]
    BY <1>14 DEF ListLinked, Goto, Steps, history
  <2>2. /\ \A w \in Actors \ {q} : job'[w] = job[w]
        /\ job'[q].dataset = job[q].dataset /\ job'[q].user = job[q].user
        /\ job'[q].replaces = job[q].replaces
    BY <1>1, <2>1 DEF TypeOK, Jobs
  <2>3. q # r => Leaves(r)
    BY <1>1, <2>1, <2>2, TablesLeave
  <2>4. q = r /\ Advanced(r) => Advanced(r)'
    BY <1>14, LinksAdvance
  <2> QED
    BY <1>5, <2>1, <2>2, <2>3, <2>4
<1>15. ASSUME NEW q \in Writers, ListRows(q) PROVE Goal(r)
  <2>1. /\ pc[q] \in Steps /\ UNCHANGED <<tables, overlapped>>
        /\ pc' = [pc EXCEPT ![q] = "refresh"]
        /\ \E x, y : job' = [job EXCEPT ![q].todo = x, ![q].read = y]
    BY <1>15 DEF ListRows, Goto, Steps, history
  <2>2. /\ \A w \in Actors \ {q} : job'[w] = job[w]
        /\ job'[q].dataset = job[q].dataset /\ job'[q].user = job[q].user
        /\ job'[q].replaces = job[q].replaces
    BY <1>1, <2>1 DEF TypeOK, Jobs
  <2>3. q # r => Leaves(r)
    BY <1>1, <2>1, <2>2, TablesLeave
  <2>4. q = r /\ Advanced(r) => Advanced(r)'
    BY <1>15, ListAdvances
  <2> QED
    BY <1>5, <2>1, <2>2, <2>3, <2>4
<1>16. ASSUME NEW q \in Writers, RefreshOne(q) PROVE Goal(r)
  <2>1. /\ pc[q] \in Steps /\ UNCHANGED overlapped
        /\ pc' = [pc EXCEPT ![q] = pc[q]]
        /\ \E x : job' = [job EXCEPT ![q].todo = x]
    BY <1>1, <1>16 DEF RefreshOne, Steps, history, TypeOK
  <2>2. /\ \A w \in Actors \ {q} : job'[w] = job[w]
        /\ job'[q].dataset = job[q].dataset /\ job'[q].user = job[q].user
        /\ job'[q].replaces = job[q].replaces
    BY <1>1, <2>1 DEF TypeOK, Jobs
  <2>3. q # r /\ pc[r] \in Steps /\ Alone(r) /\ job'[r] = job[r] => Leaves(r)
    BY <1>16, Beside
  <2>4. q = r /\ Advanced(r) => Advanced(r)'
    BY <1>16, RefreshAdvances
  <2> QED
    BY <1>5, <2>1, <2>2, <2>3, <2>4
<1>17. ASSUME NEW q \in Ingests, LookupRow(q) PROVE Goal(r)
  <2>1. /\ pc[q] \in Steps /\ UNCHANGED <<tables, overlapped>>
        /\ pc' = [pc EXCEPT ![q] = "attach"]
        /\ \E x : job' = [job EXCEPT ![q].read = x]
    BY <1>17 DEF LookupRow, Goto, Steps, history
  <2>2. /\ \A w \in Actors \ {q} : job'[w] = job[w]
        /\ job'[q].dataset = job[q].dataset /\ job'[q].user = job[q].user
        /\ job'[q].replaces = job[q].replaces
    BY <1>1, <2>1 DEF TypeOK, Jobs
  <2>3. q # r
    BY <1>1
  <2>4. Leaves(r)
    BY <1>1, <2>1, <2>2, <2>3, TablesLeave
  <2> QED
    BY <1>5, <2>1, <2>2, <2>3, <2>4
<1>18. ASSUME NEW q \in Ingests, AttachRow(q) PROVE Goal(r)
  <2>1. pc' = [pc EXCEPT ![q] = "done"] /\ UNCHANGED overlapped /\ q # r
        /\ \A w \in Actors \ {q} : job'[w] = job[w]
    BY <1>1, <1>18 DEF AttachRow, Ends, Goto, history, TypeOK
  <2>2. Staying /\ pc'[r] = pc[r] /\ job'[r] = job[r]
    BY <1>1, <2>1, OneStays DEF Steps
  <2>3. pc[r] \in Steps /\ Alone(r) => Leaves(r)
    BY <1>18, <2>1, <2>2, Beside
  <2> QED
    BY <1>2, <2>2, <2>3
<1>19. ASSUME NEW q \in Readers, NEW u \in Users, NEW d \in Datasets, OpenDetail(q, u, d) PROVE Goal(r)
  <2>1. /\ pc' = [pc EXCEPT ![q] = "detail"] /\ UNCHANGED <<tables, overlapped>>
        /\ \A w \in Actors \ {q} : job'[w] = job[w]
    BY <1>1, <1>19 DEF OpenDetail, Goto, history, TypeOK
  <2> QED
    BY <1>1, <1>4, <2>1
<1>20. ASSUME UNCHANGED <<pc, job, overlapped>>, pc[r] \in Steps /\ Alone(r) => Leaves(r) PROVE Goal(r)
  <2>1. Staying
    BY <1>20 DEF Staying
  <2> QED
    BY <1>2, <1>20, <2>1
<1>21. ASSUME NEW u \in Users, NEW d \in Datasets,
              DeleteUpload(u, d) \/ \E scope \in Scopes : PatchCatalog(u, d, scope)
       PROVE  Goal(r)
  <2>1. UNCHANGED <<pc, job, overlapped>>
    BY <1>21 DEF DeleteUpload, PatchCatalog, history
  <2> QED
    BY <1>20, <1>21, <2>1, Beside
<1>22. ASSUME NEW u \in Users, NEW a \in Archives, DeleteFile(u, a) PROVE Goal(r)
  <2>1. UNCHANGED <<pc, job, overlapped>>
    BY <1>22 DEF DeleteFile, history
  <2> QED
    BY <1>20, <1>22, <2>1, Beside
<1>23. CASE UNCHANGED vars
  <2>1. UNCHANGED <<pc, job, overlapped, tables>>
    BY <1>23 DEF vars, history
  <2> QED
    BY <1>20, <2>1, TablesLeave
<1> HIDE DEF Goal
<1> QED
  BY <1>1, <1>7, <1>8, <1>9, <1>11, <1>12, <1>13, <1>14, <1>15, <1>16, <1>17, <1>18, <1>19, <1>21,
     <1>22, <1>23 DEF Next

(* When a replacement is reported, the archives linked to its dataset have *)
(* their rows of the new table, unless others were at work beside it.      *)
THEOREM ReplacementsReach == Spec => ReplacementReachesArchives
<1>1. Init => Replacing
  BY DEF Init, Replacing, Steps, Actors
<1>2. TypeOK /\ Working /\ LinkedDatasetsExist /\ Replacing /\ [Next]_vars => Replacing'
  BY ReplacingSteps
<1> DEFINE Reached ==
      \A r \in Writers : Report(r) /\ job[r].replaces /\ r \notin overlapped =>
        LET j == job[r]
        IN  \A a \in Archives :
              LET x == <<j.user, a>>
              IN  /\ x \in files /\ archives[x].dataset = j.dataset
                  /\ \E i \in DOMAIN FirstKeys(j.table) : FirstKeys(j.table)[i] = a
                  => archives[x].table = j.table
<1>3. Replacing => Reached
  <2> SUFFICES ASSUME Replacing, NEW r \in Writers, Report(r), job[r].replaces, r \notin overlapped,
                      NEW a \in Archives, Shows(r, a), First(job[r].table, a)
               PROVE  TakenFrom(r, a) = job[r].table
    BY DEF Shows, First, TakenFrom
  <2>1. pc[r] = "report" /\ pc[r] \in Steps
    BY DEF Report, Steps
  <2>2. Advanced(r)
    BY <2>1 DEF Replacing
  <2> QED
    BY <2>1, <2>2 DEF Advanced
<1>4. Spec => []Replacing
  BY <1>1, <1>2, TypeInvariance, LinksHold, PTL DEF Spec
<1>5. Replacing => [Reached]_vars
  BY <1>3
<1> QED
  BY <1>4, <1>5, PTL DEF ReplacementReachesArchives

-----------------------------------------------------------------------------
(* The conversion of workbooks                                             *)

(* Of numbers with a property there is a least one.                        *)
LEMMA LeastNumber ==
  ASSUME NEW S \in SUBSET Nat, S # {}
  PROVE  \E x \in S : \A y \in S : x <= y
<1> DEFINE Less == OpToRel(<, Nat)
<1>1. IsWellFoundedOn(Less, Nat)
  BY NatLessThanWellFounded
<1>2. \A x, y \in Nat : <<x, y>> \in Less <=> x < y
  BY DEF OpToRel
<1> HIDE DEF Less
<1>3. PICK x \in S : \A y \in S : <<y, x>> \notin Less
  BY <1>1, WFMin
<1>4. ASSUME NEW y \in S
      PROVE  x <= y
  <2>1. x \in Nat /\ y \in Nat /\ ~(y < x)
    BY <1>2, <1>3
  <2> QED
    BY <2>1
<1> QED
  BY <1>4

(* A suffix leaves the name of a header alone.                             *)
LEMMA Suffixing ==
  ASSUME NEW h \in Headers, NEW before
  PROVE  Suffixed(h, before) = [name |-> h.name, suffix |-> Suffixed(h, before).suffix]
<1> DEFINE n == CHOOSE n \in 1..Len(before) :
                  /\ LowerHeader([h EXCEPT !.suffix = Append(@, n)]) \notin {LowerHeader(g) : g \in Range(before)}
                  /\ \A m \in 1..(n - 1) :
                       ~(LowerHeader([h EXCEPT !.suffix = Append(@, m)])
                           \notin {LowerHeader(g) : g \in Range(before)})
<1>1. Suffixed(h, before) = h \/ Suffixed(h, before) = [h EXCEPT !.suffix = Append(@, n)]
  BY DEF Suffixed
<1> HIDE DEF n
<1>2. PICK a, b : h = [name |-> a, suffix |-> b]
  BY DEF Headers
<1>3. [h EXCEPT !.suffix = Append(@, n)] = [name |-> a, suffix |-> Append(b, n)]
  BY <1>2
<1>4. PICK x : Suffixed(h, before) = [name |-> a, suffix |-> x]
  BY <1>1, <1>2, <1>3
<1>5. h.name = a /\ Suffixed(h, before).suffix = x
  BY <1>2, <1>4
<1> QED
  BY <1>4, <1>5

(* Headers that are made different, one after the other, keep their names. *)
LEMMA Uniqueness ==
  ASSUME NEW s \in Seq(Headers)
  PROVE  LET u == UniqueHeaders(s)
         IN  /\ u = [i \in 1..Len(s) |-> u[i]]
             /\ \A i \in 1..Len(s) : u[i] = [name |-> s[i].name, suffix |-> u[i].suffix]
<1> DEFINE next(f, i) == Suffixed(s[i], [j \in 1..(i - 1) |-> f[j]])
           P(m) == \E f : f = [i \in 1..m |-> next(f, i)]
           n == Len(s)
           u == UniqueHeaders(s)
<1>1. n \in Nat /\ DOMAIN s = 1..n /\ s \in [1..n -> Headers]
  BY LenProperties
<1>2. P(0)
  <2> DEFINE f == [i \in 1..0 |-> 0]
  <2>1. f = [i \in 1..0 |-> next(f, i)]
    OBVIOUS
  <2> QED
    BY <2>1
<1>3. ASSUME NEW m \in Nat, P(m)
      PROVE  P(m + 1)
  <2>1. PICK f : f = [i \in 1..m |-> next(f, i)]
    BY <1>3
  <2> DEFINE g == [i \in 1..(m + 1) |-> IF i \in 1..m THEN f[i] ELSE next(f, m + 1)]
  <2>2. ASSUME NEW i \in 1..(m + 1)
        PROVE  g[i] = next(g, i)
    <3>1. \A j \in 1..(i - 1) : j \in 1..m /\ j \in 1..(m + 1)
      OBVIOUS
    <3>2. [j \in 1..(i - 1) |-> g[j]] = [j \in 1..(i - 1) |-> f[j]]
      BY <3>1
    <3>3. next(g, i) = next(f, i)
      BY <3>2
    <3> HIDE DEF next
    <3>4. i \in 1..m => f[i] = next(f, i)
      BY <2>1
    <3>5. i \notin 1..m => i = m + 1
      OBVIOUS
    <3> QED
      BY <3>3, <3>4, <3>5
  <2> HIDE DEF next
  <2>3. g = [i \in 1..(m + 1) |-> next(g, i)]
    <3>1. g = [i \in 1..(m + 1) |-> g[i]]
      OBVIOUS
    <3> HIDE DEF g
    <3> QED
      BY <2>2, <3>1
  <2> QED
    BY <2>3
<1> HIDE DEF P
<1>4. P(n)
  <2> DEFINE S == {m \in Nat : ~P(m)}
  <2> SUFFICES ASSUME S # {}
               PROVE  FALSE
    BY <1>1
  <2>1. PICK m \in S : \A k \in S : m <= k
    BY LeastNumber
  <2>2. m \in Nat /\ m # 0 /\ m - 1 \in Nat /\ m - 1 \notin S
    BY <2>1, <1>2
  <2>3. P(m - 1)
    BY <2>2
  <2>4. P((m - 1) + 1)
    BY <2>2, <2>3, <1>3
  <2>5. (m - 1) + 1 = m
    BY <2>2
  <2> QED
    BY <2>1, <2>4, <2>5
<1>5. u = CHOOSE f : f = [i \in 1..n |-> next(f, i)]
  BY <1>1 DEF UniqueHeaders
<1>6. u = [i \in 1..n |-> next(u, i)]
  <2> HIDE DEF next, u, n
  <2> QED
    BY <1>4, <1>5 DEF P
<1>7. ASSUME NEW i \in 1..n
      PROVE  u[i] = [name |-> s[i].name, suffix |-> u[i].suffix]
  <2>1. u[i] = next(u, i)
    <3> HIDE DEF next, u, n
    <3> QED
      BY <1>6
  <2>2. s[i] \in Headers
    BY <1>1
  <2> HIDE DEF u
  <2> QED
    BY <2>1, <2>2, Suffixing
<1>8. u = [i \in 1..n |-> u[i]]
  <2> HIDE DEF next, u, n
  <2> QED
    BY <1>6
<1> QED
  BY <1>7, <1>8

(* Where no row is blank, none is left out.                                *)
LEMMA Living ==
  ASSUME NEW b, NEW n \in Nat, b = [i \in 1..n |-> b[i]],
         \A i \in 1..n : \E j \in DOMAIN b[i] : b[i][j] # Blank
  PROVE  Live(b) = b
<1> DEFINE live == {i \in DOMAIN b : \E j \in DOMAIN b[i] : b[i][j] # Blank}
<1>1. live = 1..n
  OBVIOUS
<1>2. \A k \in 1..n : Cardinality({j \in 1..n : j <= k}) = k
  <2> TAKE k \in 1..n
  <2>1. {j \in 1..n : j <= k} = 1..k
    OBVIOUS
  <2>2. Cardinality(1..k) = k
    BY FS_Interval
  <2> QED
    BY <2>1, <2>2
<1>3. Cardinality(1..n) = n
  BY FS_Interval
<1>4. Live(b) = [k \in 1..Cardinality(live) |-> b[CHOOSE i \in live : Cardinality({j \in live : j <= i}) = k]]
  BY DEF Live
<1> HIDE DEF live
<1>5. \A k \in 1..n : (CHOOSE i \in live : Cardinality({j \in live : j <= i}) = k) = k
  BY <1>1, <1>2
<1> QED
  BY <1>1, <1>3, <1>4, <1>5

(* The rows that are left are numbered.                                    *)
LEMMA Numbering ==
  ASSUME NEW T, NEW b \in Seq(T)
  PROVE  \E n \in Nat : DOMAIN Live(b) = 1..n
<1> DEFINE live == {i \in DOMAIN b : \E j \in DOMAIN b[i] : b[i][j] # Blank}
<1>1. IsFiniteSet(live)
  <2>1. live \subseteq 1..Len(b) /\ Len(b) \in Nat
    BY LenProperties
  <2>2. IsFiniteSet(1..Len(b))
    BY <2>1, FS_Interval
  <2> QED
    BY <2>1, <2>2, FS_Subset
<1>2. DOMAIN Live(b) = 1..Cardinality(live)
  BY DEF Live
<1> HIDE DEF live
<1> QED
  BY <1>1, <1>2, FS_CardinalityType

(* A column that is left out: the others stay, in their order.             *)
LEMMA LeavingOut ==
  ASSUME NEW S, NEW s \in Seq(S), NEW c \in 0..Len(s)
  PROVE  LET w == Without(s, c)
         IN  /\ w \in Seq(S)
             /\ Len(w) = IF c = 0 THEN Len(s) ELSE Len(s) - 1
             /\ \A a \in 1..Len(w) : w[a] = s[IF c # 0 /\ a >= c THEN a + 1 ELSE a]
<1> DEFINE before == SubSeq(s, 1, c - 1)
           after == SubSeq(s, c + 1, Len(s))
           n == Len(s)
<1>1. n \in Nat /\ s \in [1..n -> S]
  BY LenProperties
<1>2. CASE c = 0
  BY <1>1, <1>2 DEF Without
<1>3. CASE c # 0
  <2>1. c \in 1..n /\ c - 1 \in Int /\ c + 1 \in Int /\ n \in Int
    BY <1>1, <1>3
  <2>2. /\ \A i \in 1..(c - 1) : s[i] \in S
        /\ \A i \in (c + 1)..n : s[i] \in S
    BY <1>1, <2>1
  <2>3. /\ before \in Seq(S) /\ Len(before) = c - 1
        /\ \A i \in 1..(c - 1) : before[i] = s[i]
    <3>1. /\ before \in Seq(S) /\ Len(before) = IF 1 <= c - 1 THEN (c - 1) - 1 + 1 ELSE 0
          /\ \A i \in 1..((c - 1) - 1 + 1) : before[i] = s[1 + i - 1]
      <4> HIDE DEF n
      <4> QED
        BY <2>1, <2>2, SubSeqProperties
    <3> QED
      BY <2>1, <3>1
  <2>4. /\ after \in Seq(S) /\ Len(after) = n - c
        /\ \A i \in 1..(n - c) : after[i] = s[c + i]
    <3>1. /\ after \in Seq(S) /\ Len(after) = IF c + 1 <= n THEN n - (c + 1) + 1 ELSE 0
          /\ \A i \in 1..(n - (c + 1) + 1) : after[i] = s[(c + 1) + i - 1]
      <4> HIDE DEF n
      <4> QED
        BY <2>1, <2>2, SubSeqProperties DEF n
    <3> QED
      BY <2>1, <3>1
  <2>5. Without(s, c) = before \o after
    BY <1>3 DEF Without
  <2> HIDE DEF before, after, n
  <2>6. /\ before \o after \in Seq(S) /\ Len(before \o after) = n - 1
        /\ \A i \in 1..(n - 1) : (before \o after)[i] = IF i <= c - 1 THEN before[i] ELSE after[i - (c - 1)]
    <3>1. /\ before \o after \in Seq(S) /\ Len(before \o after) = Len(before) + Len(after)
          /\ \A i \in 1..(Len(before) + Len(after)) :
               (before \o after)[i] = IF i <= Len(before) THEN before[i] ELSE after[i - Len(before)]
      BY <2>3, <2>4, ConcatProperties
    <3>2. Len(before) + Len(after) = n - 1
      BY <2>1, <2>3, <2>4
    <3> QED
      BY <2>3, <3>1, <3>2
  <2>7. ASSUME NEW i \in 1..(n - 1)
        PROVE  (before \o after)[i] = s[IF c # 0 /\ i >= c THEN i + 1 ELSE i]
    <3>1. CASE i <= c - 1
      BY <3>1, <2>1, <2>3, <2>6, <1>1
    <3>2. CASE ~(i <= c - 1)
      <4>1. i - (c - 1) \in 1..(n - c) /\ c + (i - (c - 1)) = i + 1 /\ i >= c
        BY <3>2, <2>1, <1>1
      <4> QED
        BY <3>2, <4>1, <2>1, <2>4, <2>6
    <3> QED
      BY <3>1, <3>2
  <2> QED
    BY <1>3, <2>5, <2>6, <2>7 DEF n
<1> QED
  BY <1>2, <1>3

(* A column that is found has the name that is looked for; the last one is *)
(* taken.                                                                  *)
LEMMA Finding ==
  ASSUME NEW s, NEW n \in Nat, DOMAIN s = 1..n, NEW name
  PROVE  /\ Column(s, name) \in 0..n
         /\ Column(s, name) = 0 => \A i \in 1..n : ~(s[i].suffix = <<>> /\ Lookup[s[i].name] = name)
         /\ Column(s, name) # 0 => /\ s[Column(s, name)].suffix = <<>>
                                   /\ Lookup[s[Column(s, name)].name] = name
<1> DEFINE those == {i \in DOMAIN s : s[i].suffix = <<>> /\ Lookup[s[i].name] = name}
<1>1. \A i : i \in those <=> i \in 1..n /\ s[i].suffix = <<>> /\ Lookup[s[i].name] = name
  OBVIOUS
<1>2. Column(s, name) = IF those = {} THEN 0 ELSE CHOOSE i \in those : \A j \in those : j <= i
  BY DEF Column
<1> HIDE DEF those
<1>3. ASSUME those # {}
      PROVE  \E i \in those : \A j \in those : j <= i
  <2> DEFINE S == {n - i : i \in those}
  <2>1. S \in SUBSET Nat /\ S # {}
    BY <1>1, <1>3
  <2>2. PICK x \in S : \A y \in S : x <= y
    BY <2>1, LeastNumber
  <2>3. PICK i \in those : x = n - i
    BY <2>2
  <2>4. ASSUME NEW j \in those
        PROVE  j <= i
    <3>1. n - j \in S
      OBVIOUS
    <3>2. n - i <= n - j
      BY <2>2, <2>3, <3>1
    <3> QED
      BY <1>1, <3>2
  <2> QED
    BY <2>3, <2>4
<1>4. CASE those = {}
  BY <1>1, <1>2, <1>4
<1>5. CASE those # {}
  <2>1. Column(s, name) \in those
    BY <1>2, <1>3, <1>5
  <2> QED
    BY <1>1, <2>1
<1> QED
  BY <1>4, <1>5

(* One element and a sequence after it.                                    *)
LEMMA Heading ==
  ASSUME NEW x, NEW S, NEW w \in Seq(S)
  PROVE  /\ DOMAIN (<<x>> \o w) = 1..(Len(w) + 1)
         /\ (<<x>> \o w)[1] = x
         /\ \A a \in 2..(Len(w) + 1) : (<<x>> \o w)[a] = w[a - 1]
<1> DEFINE T == S \cup {x}
           one == <<x>>
<1>1. one \in Seq(T) /\ Len(one) = 1 /\ one[1] = x
  OBVIOUS
<1>2. w \in Seq(T)
  BY SeqMonotonic
<1>3. Len(w) \in Nat
  BY LenProperties
<1> HIDE DEF T, one
<1>4. /\ one \o w \in Seq(T) /\ Len(one \o w) = 1 + Len(w)
      /\ \A a \in 1..(1 + Len(w)) : (one \o w)[a] = IF a <= 1 THEN one[a] ELSE w[a - 1]
  <2>1. /\ one \o w \in Seq(T) /\ Len(one \o w) = Len(one) + Len(w)
        /\ \A a \in 1..(Len(one) + Len(w)) : (one \o w)[a] = IF a <= Len(one) THEN one[a] ELSE w[a - Len(one)]
    BY <1>1, <1>2, ConcatProperties
  <2> QED
    BY <1>1, <2>1
<1>5. DOMAIN (one \o w) = 1..(Len(w) + 1)
  BY <1>3, <1>4, LenProperties
<1>6. (one \o w)[1] = x
  BY <1>1, <1>3, <1>4
<1>7. \A a \in 2..(Len(w) + 1) : (one \o w)[a] = w[a - 1]
  BY <1>3, <1>4
<1> QED
  BY <1>5, <1>6, <1>7 DEF one

(* Headers that differ from each other and have "file" at most once still  *)
(* do when "file" is written first.                                        *)
LEMMA Heads ==
  ASSUME NEW n \in Nat, NEW u, u = [i \in 1..n |-> u[i]], ~BadHeaders(u),
         \A i \in 1..n : u[i] = [name |-> u[i].name, suffix |-> u[i].suffix] /\ u[i].name \in Texts,
         \A i, j \in 1..n : Lookup[u[i].name] = "file" /\ Lookup[u[j].name] = "file"
                              => Lower[u[i].name] = Lower[u[j].name]
  PROVE  LET hs == <<FileHeader>> \o Without(u, Column(u, "file"))
         IN  ~BadHeaders(hs) /\ hs[1] = FileHeader
<1> DEFINE S == {u[i] : i \in 1..n}
           c == Column(u, "file")
           w == Without(u, c)
           hs == <<FileHeader>> \o w
           p(a) == IF c # 0 /\ a >= c THEN a + 1 ELSE a
           Low(h) == [name |-> Lower[h.name], suffix |-> h.suffix]
<1>1. DOMAIN u = 1..n
  OBVIOUS
<1>2. u \in Seq(S) /\ Len(u) = n
  <2>1. u \in [1..n -> S]
    OBVIOUS
  <2> HIDE DEF S
  <2>2. u \in Seq(S)
    BY <2>1, SeqDef
  <2> QED
    BY <1>1, <2>2, LenProperties
<1>3. /\ c \in 0..n
      /\ c = 0 => \A i \in 1..n : ~(u[i].suffix = <<>> /\ Lookup[u[i].name] = "file")
      /\ c # 0 => u[c].suffix = <<>> /\ Lookup[u[c].name] = "file"
  BY <1>1, Finding
<1> HIDE DEF S, c
<1>4. /\ w \in Seq(S) /\ Len(w) = (IF c = 0 THEN n ELSE n - 1)
      /\ \A a \in 1..Len(w) : w[a] = u[p(a)]
  <2>1. c \in 0..Len(u)
    BY <1>2, <1>3
  <2>2. /\ w \in Seq(S) /\ Len(w) = (IF c = 0 THEN Len(u) ELSE Len(u) - 1)
        /\ \A a \in 1..Len(w) : w[a] = u[p(a)]
    BY <1>2, <2>1, LeavingOut
  <2> QED
    BY <1>2, <2>2
<1>5. Len(w) \in Nat
  BY <1>4, LenProperties
<1> HIDE DEF w
<1>6. /\ DOMAIN hs = 1..(Len(w) + 1) /\ hs[1] = FileHeader
      /\ \A a \in 2..(Len(w) + 1) : hs[a] = w[a - 1]
  BY <1>4, Heading
<1>7. ASSUME NEW a \in 1..Len(w)
      PROVE  p(a) \in 1..n /\ p(a) # c /\ w[a] = u[p(a)]
  BY <1>3, <1>4, <1>5
<1>8. ASSUME NEW a \in 1..Len(w), NEW b \in 1..Len(w), a < b
      PROVE  p(a) < p(b)
  BY <1>3, <1>5, <1>8
<1>9. ASSUME NEW i \in 1..n
      PROVE  LowerHeader(u[i]) = Low(u[i])
  BY DEF LowerHeader
<1>10. FileHeader = [name |-> "file", suffix |-> <<>>] /\ LowerHeader(FileHeader) = FileHeader
  BY TextsAssumption DEF FileHeader, Plain, LowerHeader
<1>11. /\ \A i \in 1..n : u[i].name # Blank
       /\ \A i, j \in 1..n : i < j => LowerHeader(u[i]) # LowerHeader(u[j])
  BY <1>1 DEF BadHeaders, Repeated
<1>12. ASSUME NEW i \in 1..n, i # c
       PROVE  LowerHeader(u[i]) # FileHeader
  <2> SUFFICES ASSUME LowerHeader(u[i]) = FileHeader
               PROVE  FALSE
    OBVIOUS
  <2>1. Lower[u[i].name] = "file" /\ u[i].suffix = <<>>
    BY <1>9, <1>10
  <2>2. Lookup[u[i].name] = "file"
    BY <2>1, TextsAssumption
  <2>3. c \in 1..n /\ u[c].suffix = <<>> /\ Lookup[u[c].name] = "file"
    BY <1>3, <2>1, <2>2
  <2>4. Lower[u[c].name] = "file"
    BY <2>1, <2>2, <2>3
  <2>5. LowerHeader(u[i]) = LowerHeader(u[c])
    BY <1>9, <2>1, <2>3, <2>4
  <2>6. i < c \/ c < i
    BY <1>12, <2>3
  <2> QED
    BY <1>11, <2>3, <2>5, <2>6
<1>13. ASSUME NEW a \in 2..(Len(w) + 1)
       PROVE  a - 1 \in 1..Len(w) /\ hs[a] = u[p(a - 1)] /\ p(a - 1) \in 1..n /\ p(a - 1) # c
  <2>1. a - 1 \in 1..Len(w)
    BY <1>5
  <2> HIDE DEF p, hs
  <2> QED
    BY <1>6, <1>7, <2>1
<1> HIDE DEF p, hs, Low
<1>14. ASSUME NEW a \in DOMAIN hs
       PROVE  hs[a].name # Blank
  <2>1. a = 1 \/ a \in 2..(Len(w) + 1)
    BY <1>5, <1>6
  <2>2. hs[1].name # Blank
    BY <1>6, <1>10, TextsAssumption
  <2>3. ASSUME a \in 2..(Len(w) + 1)
        PROVE  hs[a].name # Blank
    <3>1. p(a - 1) \in 1..n /\ hs[a] = u[p(a - 1)]
      BY <2>3, <1>13
    <3> QED
      BY <3>1, <1>11
  <2> QED
    BY <2>1, <2>2, <2>3
<1>15. ASSUME NEW a \in DOMAIN hs, NEW b \in DOMAIN hs, a < b
       PROVE  LowerHeader(hs[a]) # LowerHeader(hs[b])
  <2>1. a \in 1..(Len(w) + 1) /\ b \in 2..(Len(w) + 1) /\ (a = 1 \/ a \in 2..(Len(w) + 1))
    BY <1>5, <1>6, <1>15
  <2>2. CASE a = 1
    <3>1. hs[b] = u[p(b - 1)] /\ p(b - 1) \in 1..n /\ p(b - 1) # c
      BY <1>13, <2>1
    <3>2. LowerHeader(u[p(b - 1)]) # FileHeader
      BY <1>12, <3>1
    <3>3. LowerHeader(hs[a]) = FileHeader
      BY <1>6, <1>10, <2>2
    <3> QED
      BY <3>1, <3>2, <3>3
  <2>3. CASE a \in 2..(Len(w) + 1)
    <3>1. a - 1 \in 1..Len(w) /\ b - 1 \in 1..Len(w) /\ a - 1 < b - 1
      BY <1>5, <1>15, <2>1, <2>3
    <3>2. p(a - 1) < p(b - 1)
      BY <1>8, <3>1
    <3>3. /\ hs[a] = u[p(a - 1)] /\ p(a - 1) \in 1..n
          /\ hs[b] = u[p(b - 1)] /\ p(b - 1) \in 1..n
      BY <1>13, <2>1, <2>3
    <3>4. LowerHeader(u[p(a - 1)]) # LowerHeader(u[p(b - 1)])
      BY <1>11, <3>2, <3>3
    <3> QED
      BY <3>3, <3>4
  <2> QED
    BY <2>1, <2>2, <2>3
<1>16. hs # <<>>
  <2>1. 1 \in DOMAIN hs
    BY <1>5, <1>6
  <2> QED
    BY <2>1
<1>17. ~Repeated([a \in DOMAIN hs |-> LowerHeader(hs[a])])
  BY <1>15 DEF Repeated
<1>18. ~BadHeaders(hs)
  BY <1>14, <1>16, <1>17 DEF BadHeaders
<1> QED
  BY <1>6, <1>18 DEF hs, w, c

(* A workbook that is converted is read back with the same keys.           *)
THEOREM Conversion == MisreadWorkbooks = {}
<1> SUFFICES ASSUME NEW sheet \in Workbooks, Normalize(sheet).ok,
                    \A i \in DOMAIN Normalize(sheet).keys :
                      Canon[Normalize(sheet).keys[i]] = Normalize(sheet).keys[i],
                    \A i, j \in {k \in DOMAIN sheet.headers : Lookup[sheet.headers[k].name] = "file"} :
                      Lower[sheet.headers[i].name] = Lower[sheet.headers[j].name]
             PROVE  Parse(Normalize(sheet)) = [ok |-> TRUE, keys |-> Normalize(sheet).keys]
  BY DEF MisreadWorkbooks
<1> DEFINE t == Normalize(sheet)
           s == sheet.headers
           n == Len(s)
           u == UniqueHeaders(s)
           c == Column(u, "file")
           l == Live(sheet.rows)
           K == [i \in DOMAIN l |-> Canon[RawKey(u, l[i])]]
           found == Checked(K)
           hs == <<FileHeader>> \o Without(u, c)
           row(i) == <<found.keys[i]>> \o Without(Padded(l[i], Len(u)), c)
           R == [i \in DOMAIN l |-> row(i)]
<1>0. \A i, j \in DOMAIN s : Lookup[s[i].name] = "file" /\ Lookup[s[j].name] = "file"
                               => Lower[s[i].name] = Lower[s[j].name]
  OBVIOUS
<1>1. /\ ~BadHeaders(u) /\ found.ok
      /\ t.headers = hs /\ t.rows = R /\ t.keys = found.keys
  <2>1. t = IF BadHeaders(u) \/ ~Derivable(u) \/ ~found.ok
            THEN [ok |-> FALSE, keys |-> <<>>, headers |-> <<>>, rows |-> <<>>]
            ELSE [ok |-> TRUE, keys |-> found.keys, headers |-> hs, rows |-> R]
    BY DEF Normalize
  <2>2. t.ok
    OBVIOUS
  <2> HIDE DEF t, u, found, hs, R
  <2> QED
    BY <2>1, <2>2
<1>2. found = [ok |-> TRUE, keys |-> K] /\ Blank \notin Range(K)
  <2> HIDE DEF K
  <2> QED
    BY <1>1 DEF Checked, Failed
<1>3. s \in Seq(Headers) /\ sheet.rows \in Seq(Seq(Texts))
  BY WorkbooksAssumption
<1>4. n \in Nat /\ DOMAIN s = 1..n /\ s \in [1..n -> Headers]
  BY <1>3, LenProperties
<1>5. /\ u = [i \in 1..n |-> u[i]]
      /\ \A i \in 1..n : u[i] = [name |-> s[i].name, suffix |-> u[i].suffix]
  BY <1>3, Uniqueness
<1>6. PICK m \in Nat : DOMAIN l = 1..m
  BY <1>3, Numbering
<1> HIDE DEF n, s, u, c, l, found, t
<1>7. DOMAIN u = 1..n /\ Len(u) = n
  <2>1. DOMAIN u = 1..n
    BY <1>5
  <2>2. u \in Seq({u[i] : i \in 1..n})
    <3>1. u \in [1..n -> {u[i] : i \in 1..n}]
      BY <1>5
    <3> QED
      BY <1>4, <3>1, SeqDef
  <2> QED
    BY <1>4, <2>1, <2>2, LenProperties
<1>8. ~BadHeaders(hs) /\ hs[1] = FileHeader
  <2>1. \A i \in 1..n : /\ u[i] = [name |-> u[i].name, suffix |-> u[i].suffix] /\ u[i].name \in Texts
                        /\ u[i].name = s[i].name
    BY <1>4, <1>5 DEF Headers
  <2>2. ASSUME NEW i \in 1..n, NEW j \in 1..n, Lookup[u[i].name] = "file", Lookup[u[j].name] = "file"
        PROVE  Lower[u[i].name] = Lower[u[j].name]
    <3>1. u[i].name = s[i].name /\ u[j].name = s[j].name /\ i \in DOMAIN s /\ j \in DOMAIN s
      BY <2>1, <1>4
    <3>2. Lookup[s[i].name] = "file" /\ Lookup[s[j].name] = "file"
      BY <2>2, <3>1
    <3>3. Lower[s[i].name] = Lower[s[j].name]
      BY <1>0, <3>1, <3>2
    <3> QED
      BY <3>1, <3>3
  <2>3. /\ ~BadHeaders(u)
        /\ \A i \in 1..n : u[i] = [name |-> u[i].name, suffix |-> u[i].suffix] /\ u[i].name \in Texts
    BY <1>1, <2>1
  <2>4. \A i, j \in 1..n : Lookup[u[i].name] = "file" /\ Lookup[u[j].name] = "file"
                              => Lower[u[i].name] = Lower[u[j].name]
    BY <2>2
  <2>5. u = [i \in 1..n |-> u[i]]
    BY <1>5
  <2>6. LET h == <<FileHeader>> \o Without(u, Column(u, "file"))
        IN  ~BadHeaders(h) /\ h[1] = FileHeader
    BY <1>4, <2>3, <2>4, <2>5, Heads
  <2> QED
    BY <2>6 DEF c
<1>9. c \in 0..n
  BY <1>4, <1>7, Finding DEF c
<1>10. ASSUME NEW i \in 1..m
       PROVE  1 \in DOMAIN row(i) /\ row(i)[1] = K[i]
  <2> DEFINE P == Padded(l[i], n)
             S == {P[j] : j \in 1..n}
  <2>1. P \in Seq(S) /\ Len(P) = n
    <3>1. DOMAIN P = 1..n /\ P = [j \in 1..n |-> P[j]]
      BY DEF Padded
    <3> HIDE DEF P
    <3>2. P \in [1..n -> S]
      BY <3>1
    <3> HIDE DEF S
    <3>3. P \in Seq(S)
      BY <1>4, <3>2, SeqDef
    <3> QED
      BY <1>4, <3>1, <3>3, LenProperties
  <2> HIDE DEF P, S
  <2>2. Without(P, c) \in Seq(S)
    BY <1>9, <2>1, LeavingOut
  <2>3. Len(Without(P, c)) \in Nat
    BY <2>2, LenProperties
  <2>4. row(i) = <<K[i]>> \o Without(P, c)
    BY <1>2, <1>7 DEF P
  <2> HIDE DEF row, K
  <2>5. DOMAIN row(i) = 1..(Len(Without(P, c)) + 1) /\ row(i)[1] = K[i]
    BY <2>2, <2>4, Heading
  <2> QED
    BY <2>3, <2>5
<1>11. ASSUME NEW i \in 1..m
       PROVE  K[i] # Blank
  BY <1>2, <1>6 DEF Range
<1>12. Live(R) = R
  <2>1. R = [i \in 1..m |-> R[i]] /\ \A i \in 1..m : R[i] = row(i)
    BY <1>6
  <2> HIDE DEF R, row, K
  <2>2. \A i \in 1..m : \E j \in DOMAIN R[i] : R[i][j] # Blank
    BY <1>10, <1>11, <2>1
  <2> QED
    BY <2>1, <2>2, Living
<1>13. [i \in DOMAIN R |-> Canon[Cell(R[i], 1)]] = K
  <2>1. DOMAIN R = 1..m /\ (\A i \in 1..m : R[i] = row(i)) /\ K = [i \in 1..m |-> K[i]]
    BY <1>6
  <2>2. \A i \in 1..m : Canon[K[i]] = K[i]
    BY <1>1, <1>2, <2>1 DEF t
  <2> HIDE DEF R, row, K
  <2>3. \A i \in 1..m : Cell(R[i], 1) = K[i]
    BY <1>10, <2>1 DEF Cell
  <2> QED
    BY <2>1, <2>2, <2>3
<1>14. Parse(t) = Checked([i \in DOMAIN R |-> Canon[Cell(R[i], 1)]])
  <2> HIDE DEF R, hs
  <2> QED
    BY <1>1, <1>8, <1>12 DEF Parse
<1>15. Parse(t) = [ok |-> TRUE, keys |-> K] /\ t.keys = K
  <2> HIDE DEF K, R
  <2>1. Parse(t) = Checked(K)
    BY <1>13, <1>14
  <2>2. found = Checked(K)
    BY DEF found
  <2>3. found.keys = K
    BY <1>2
  <2> QED
    BY <1>1, <1>2, <2>1, <2>2, <2>3
<1> QED
  BY <1>15 DEF t

(* Workbooks that are converted are accepted by the catalogue, whatever    *)
(* headers they have and whatever the functions on texts are.              *)
THEOREM ConversionsAreAccepted == Spec => []ConvertedWorkbooksAreAccepted
<1>1. ConvertedWorkbooksAreAccepted
  BY Conversion DEF ConvertedWorkbooksAreAccepted
<1> QED
  BY <1>1, PTL
=============================================================================
