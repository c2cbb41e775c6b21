---------------------------- MODULE MetadataCatalog ----------------------------
(***************************************************************************)
(* The metadata catalogue: datasets uploaded as CSV files, their rows, and *)
(* the row each archive of a user has been given (api/routes/metadata.py,  *)
(* services/metadata_upload_service.py, repositories/                      *)
(* archive_metadata_repository.py, and the attachment of a row by the      *)
(* ingestion of a document).  Each call of the repository is a transaction *)
(* and one step here; requests of several users run at once.  How a table  *)
(* is read from a CSV file or a workbook is MetadataCsv.                   *)
(***************************************************************************)
EXTENDS MetadataCsv, FiniteSets

CONSTANTS
  Users,
  Datasets,        \* the ids a dataset may be given
  Archives,        \* slugs of archives, which rows are about
  Tables,          \* the CSV files that may be uploaded
  KeysOf,          \* [Tables -> Seq(Archives)]: the archives of its rows, in order
  Writers,         \* uploads and replacements of a CSV
  Ingests,         \* ingestions of an archive with a dataset
  Readers,         \* views of the rows of a dataset
  RefreshLimit,    \* how many rows a replacement refreshes archives from, 1000
  None             \* no dataset, no table, no user

ASSUME TablesAssumption ==
  /\ None \notin Users \cup Datasets \cup Tables \cup Archives
  /\ KeysOf \in [Tables -> Seq(Archives)]
  /\ RefreshLimit \in Nat

ASSUME ActorsAssumption ==
  /\ Writers \cap Ingests = {} /\ Writers \cap Readers = {} /\ Ingests \cap Readers = {}

Actors == Writers \cup Ingests \cup Readers

VARIABLES
  uploads,      \* archive_metadata_uploads: the record of a dataset
  rows,         \* archive_metadata_upload_rows: the table the rows come from
  files,        \* <<user, archive>> with a files row
  archives,     \* archive_metadata: the dataset an archive is linked to, and
                \* the table its row was taken from
  pc, job,      \* where each actor is, and what it holds
  given,        \* history: the ids that have been used
  everShared,   \* history: datasets whose scope has been 'all'
  overlapped,   \* history: actors that worked on a dataset together with another
  torn,         \* history: datasets with a writer that failed half way or overlapped
  seen          \* history: <<user, dataset>> whose rows were shown

tables == <<uploads, rows, files, archives>>
history == <<given, everShared, overlapped, torn, seen>>
vars == <<tables, pc, job, history>>

NoUpload == [owner |-> None, scope |-> "private", columns |-> None]
NoRow == [dataset |-> None, table |-> None]
NoJob == [user |-> None, dataset |-> None, archive |-> None, table |-> None,
          replaces |-> FALSE, linked |-> {}, read |-> None, todo |-> <<>>]

Scopes == {"private", "all"}
Exists(d) == uploads[d] # NoUpload
Owns(u, d) == Exists(d) /\ uploads[d].owner = u

\* Mutant of Visible: the scope of the dataset is not asked for.
VisibleToAll(u, d) == Exists(d)

\* _metadata_upload_access_condition with include_shared
Visible(u, d) == Exists(d) /\ (uploads[d].owner = u \/ uploads[d].scope = "all")

\* list_uploads_for_user
Listed(u) == {d \in Datasets : Visible(u, d)}

\* list_archive_metadata_for_user: what the archives with a document of the user show.
ArchiveMetadata(u) ==
  {[archive |-> a, dataset |-> archives[<<u, a>>].dataset, table |-> archives[<<u, a>>].table] :
     a \in {b \in Archives : <<u, b>> \in files}}

HasRow(table, a) == table # None /\ \E i \in DOMAIN KeysOf[table] : KeysOf[table][i] = a

Init ==
  /\ uploads = [d \in Datasets |-> NoUpload]
  /\ rows = [d \in Datasets |-> None]
  /\ files = {}
  /\ archives = [x \in Users \X Archives |-> NoRow]
  /\ pc = [r \in Actors |-> "idle"]
  /\ job = [r \in Actors |-> NoJob]
  /\ given = {} /\ everShared = {} /\ overlapped = {} /\ torn = {} /\ seen = {}

Steps == {"rows", "links", "list", "refresh", "report", "lookup", "attach", "detail"}
Writing == {r \in Writers \cup Ingests : pc[r] \in Steps}
Goto(r, step) == pc' = [pc EXCEPT ![r] = step]
Ends(r, how) ==
  /\ Goto(r, how)
  /\ job' = [job EXCEPT ![r] = NoJob]

\* r starts on job j: it overlaps with those at work on the dataset, and, as an
\* ingestion or with one, with those of the same user.
Start(r, j, step) ==
  LET same == {w \in Writing : job[w].dataset = j.dataset}
      others == same \cup {w \in Writing : {r, w} \cap Ingests # {} /\ job[w].user = j.user}
  IN  /\ Goto(r, step)
      /\ job' = [job EXCEPT ![r] = j]
      /\ overlapped' = IF others = {} THEN overlapped ELSE overlapped \cup others \cup {r}
      /\ torn' = IF r \in Writers /\ same \cap Writers # {} THEN torn \cup {j.dataset} ELSE torn

-----------------------------------------------------------------------------
(* Uploads and replacements                                                 *)

\* parse_csv refuses the file: nothing has been written.
RejectCsv(r) ==
  /\ pc[r] = "idle"
  /\ Goto(r, "failed")
  /\ UNCHANGED <<tables, job, history>>

\* upload_csv: a dataset with an id of its own.
CreateUpload(r, u, d, t, scope) ==
  /\ pc[r] = "idle"
  /\ d \notin given
  /\ given' = given \cup {d}
  /\ uploads' = [uploads EXCEPT ![d] =
                   [owner |-> u, scope |-> scope, columns |-> t]]
  /\ everShared' = IF scope = "all" THEN everShared \cup {d} ELSE everShared
  /\ Start(r, [NoJob EXCEPT !.user = u, !.dataset = d, !.table = t], "rows")
  /\ UNCHANGED <<rows, files, archives, seen>>

\* replace_csv: the first transaction, on a dataset of one's own.
UpdateContent(r, u, d, t) ==
  /\ pc[r] = "idle"
  /\ Owns(u, d)
  /\ uploads' = [uploads EXCEPT ![d].columns = t]
  /\ Start(r, [NoJob EXCEPT !.user = u, !.dataset = d, !.table = t, !.replaces = TRUE], "rows")
  /\ UNCHANGED <<rows, files, archives, given, everShared, seen>>

ContentNotFound(r) ==
  /\ pc[r] = "idle"
  /\ \E u \in Users, d \in Datasets : ~Owns(u, d)
  /\ Goto(r, "failed")
  /\ UNCHANGED <<tables, job, history>>

\* Mutant of AfterRows: archives are left to the next ingestion.
AfterRowsNothing(r) == "report"

AfterRows(r) == IF job[r].replaces THEN "links" ELSE "report"

\* Mutant of WriteRows: a table without rows leaves the rows alone.
WriteSomeRows(r) ==
  LET d == job[r].dataset
  IN  /\ pc[r] = "rows"
      /\ Exists(d)
      /\ rows' = IF KeysOf[job[r].table] = <<>> THEN rows ELSE [rows EXCEPT ![d] = job[r].table]
      /\ Goto(r, AfterRows(r))
      /\ UNCHANGED <<uploads, files, archives, job, history>>

\* replace_upload_rows: the second transaction. Without the dataset no row can be
\* inserted; a table without rows inserts none.
WriteRows(r) ==
  LET d == job[r].dataset
  IN  /\ pc[r] = "rows"
      /\ Exists(d) \/ KeysOf[job[r].table] = <<>>
      /\ rows' = IF Exists(d) THEN [rows EXCEPT ![d] = job[r].table] ELSE rows
      /\ Goto(r, AfterRows(r))
      /\ UNCHANGED <<uploads, files, archives, job, history>>

\* refresh_linked_archive_metadata_from_upload: the archives of the owner that have
\* a file and are linked to the dataset; without one it is over.
ListLinked(r) ==
  LET j == job[r]
      linked == {x.archive : x \in {y \in ArchiveMetadata(j.user) : y.dataset = j.dataset}}
  IN  /\ pc[r] = "links"
      /\ Goto(r, IF linked = {} THEN "report" ELSE "list")
      /\ job' = [job EXCEPT ![r].linked = linked]
      /\ UNCHANGED <<tables, history>>

FirstKeys(t) ==
  IF t = None THEN <<>>
  ELSE SubSeq(KeysOf[t], 1, IF Len(KeysOf[t]) < RefreshLimit THEN Len(KeysOf[t]) ELSE RefreshLimit)

\* Its rows, as they are now, of which the first ones are looked at.
ListRows(r) ==
  LET t == rows[job[r].dataset]
  IN  /\ pc[r] = "list"
      /\ job' = [job EXCEPT ![r].todo = FirstKeys(t), ![r].read = t]
      /\ Goto(r, "refresh")
      /\ UNCHANGED <<tables, history>>

\* upsert_archive_metadata, a transaction per linked archive; the dataset must be there.
RefreshOne(r) ==
  LET j == job[r]
  IN  /\ pc[r] = "refresh"
      /\ Exists(j.dataset)
      /\ \E i \in DOMAIN j.todo :
           /\ j.todo[i] \in j.linked
           /\ \A n \in 1..(i - 1) : j.todo[n] \notin j.linked
           /\ archives' = [archives EXCEPT ![<<j.user, j.todo[i]>>] =
                             [dataset |-> j.dataset, table |-> j.read]]
           /\ job' = [job EXCEPT ![r].todo = SubSeq(j.todo, i + 1, Len(j.todo))]
      /\ UNCHANGED <<uploads, rows, files, pc, history>>

Refreshed(r) ==
  /\ pc[r] = "refresh"
  /\ \A i \in DOMAIN job[r].todo : job[r].todo[i] \notin job[r].linked
  /\ Goto(r, "report")
  /\ UNCHANGED <<tables, job, history>>

\* The answer counts the rows that match an archive; the work is done.
Report(r) ==
  /\ pc[r] = "report"
  /\ Ends(r, "done")
  /\ UNCHANGED <<tables, history>>

\* A transaction is rolled back: what the ones before it wrote stays.
WriterFails(r) ==
  /\ r \in Writers /\ pc[r] \in Steps
  /\ Ends(r, "failed")
  /\ torn' = IF pc[r] = "rows" THEN torn \cup {job[r].dataset} ELSE torn
  /\ UNCHANGED <<tables, given, everShared, overlapped, seen>>

-----------------------------------------------------------------------------
(* The ingestion of a document of an archive                                *)

\* The document is registered; its archive has a files row from now on.
Register(r, u, a, d) ==
  /\ pc[r] = "idle"
  /\ files' = files \cup {<<u, a>>}
  /\ Start(r, [NoJob EXCEPT !.user = u, !.dataset = d, !.archive = a], "lookup")
  /\ UNCHANGED <<uploads, rows, archives, given, everShared, seen>>

\* Mutant of LookupRow: a dataset one may see has a row for every archive.
LookupAnyRow(r) ==
  LET j == job[r]
  IN  /\ pc[r] = "lookup"
      /\ Visible(j.user, j.dataset)
      /\ job' = [job EXCEPT ![r].read = rows[j.dataset]]
      /\ Goto(r, "attach")
      /\ UNCHANGED <<tables, history>>

\* get_upload_row: a row of a dataset the user may see, archived or not.
LookupRow(r) ==
  LET j == job[r]
  IN  /\ pc[r] = "lookup"
      /\ Visible(j.user, j.dataset) /\ HasRow(rows[j.dataset], j.archive)
      /\ job' = [job EXCEPT ![r].read = rows[j.dataset]]
      /\ Goto(r, "attach")
      /\ UNCHANGED <<tables, history>>

NoSuchRow(r) ==
  LET j == job[r]
  IN  /\ pc[r] = "lookup"
      /\ ~(Visible(j.user, j.dataset) /\ HasRow(rows[j.dataset], j.archive))
      /\ Ends(r, "done")
      /\ UNCHANGED <<tables, history>>

\* Mutant of AttachRow: no foreign key from the link to the dataset.
AttachUnchecked(r) ==
  LET j == job[r]
  IN  /\ pc[r] = "attach"
      /\ archives' = [archives EXCEPT ![<<j.user, j.archive>>] =
                        [dataset |-> j.dataset, table |-> j.read]]
      /\ Ends(r, "done")
      /\ UNCHANGED <<uploads, rows, files, history>>

AttachRow(r) ==
  LET j == job[r]
  IN  /\ pc[r] = "attach"
      /\ Exists(j.dataset)
      /\ archives' = [archives EXCEPT ![<<j.user, j.archive>>] =
                        [dataset |-> j.dataset, table |-> j.read]]
      /\ Ends(r, "done")
      /\ UNCHANGED <<uploads, rows, files, history>>

\* The lookup or the upsert raises, the latter for want of the dataset too: the
\* document fails.
IngestFails(r) ==
  /\ pc[r] \in {"lookup", "attach"}
  /\ Ends(r, "failed")
  /\ UNCHANGED <<tables, history>>

-----------------------------------------------------------------------------
(* Other requests                                                           *)

\* get_metadata_upload: the dataset is found among those of the user and shared
\* ones, and its rows are read afterwards in the name of its owner.
OpenDetail(r, u, d) ==
  /\ pc[r] = "idle"
  /\ d \in Listed(u)
  /\ Goto(r, "detail")
  /\ job' = [job EXCEPT ![r] = [NoJob EXCEPT !.user = u, !.dataset = d]]
  /\ UNCHANGED <<tables, history>>

ReadDetail(r) ==
  /\ pc[r] = "detail"
  /\ seen' = IF rows[job[r].dataset] = None THEN seen
             ELSE seen \cup {<<job[r].user, job[r].dataset>>}
  /\ Ends(r, "done")
  /\ UNCHANGED <<tables, given, everShared, overlapped, torn>>

\* update_upload_catalog, by the owner: names and status only matter to lists.
PatchCatalog(u, d, scope) ==
  /\ Owns(u, d)
  /\ uploads' = [uploads EXCEPT ![d].scope = scope]
  /\ everShared' = IF scope = "all" THEN everShared \cup {d} ELSE everShared
  /\ UNCHANGED <<rows, files, archives, pc, job, given, overlapped, torn, seen>>

\* delete_upload: its rows go with it; archives keep what they were given.
DeleteUpload(u, d) ==
  /\ Owns(u, d)
  /\ uploads' = [uploads EXCEPT ![d] = NoUpload]
  /\ rows' = [rows EXCEPT ![d] = None]
  /\ archives' = [x \in Users \X Archives |->
                    IF archives[x].dataset = d THEN [archives[x] EXCEPT !.dataset = None]
                    ELSE archives[x]]
  /\ UNCHANGED <<files, pc, job, history>>

\* The last document of an archive is deleted: the row of the archive stays.
DeleteFile(u, a) ==
  /\ <<u, a>> \in files
  /\ files' = files \ {<<u, a>>}
  /\ UNCHANGED <<uploads, rows, archives, pc, job, history>>

Next ==
  \/ \E r \in Writers :
       \/ RejectCsv(r) \/ ContentNotFound(r)
       \/ \E u \in Users, d \in Datasets, t \in Tables :
            \/ \E scope \in Scopes : CreateUpload(r, u, d, t, scope)
            \/ UpdateContent(r, u, d, t)
       \/ WriteRows(r) \/ ListLinked(r) \/ ListRows(r) \/ RefreshOne(r) \/ Refreshed(r)
       \/ Report(r) \/ WriterFails(r)
  \/ \E r \in Ingests :
       \/ \E u \in Users, a \in Archives, d \in Datasets : Register(r, u, a, d)
       \/ LookupRow(r) \/ NoSuchRow(r) \/ AttachRow(r) \/ IngestFails(r)
  \/ \E r \in Readers :
       \/ \E u \in Users, d \in Datasets : OpenDetail(r, u, d)
       \/ ReadDetail(r)
  \/ \E u \in Users, d \in Datasets :
       \/ \E scope \in Scopes : PatchCatalog(u, d, scope)
       \/ DeleteUpload(u, d)
  \/ \E u \in Users, a \in Archives : DeleteFile(u, a)

Spec == Init /\ [][Next]_vars

-----------------------------------------------------------------------------
Uploads == [owner : Users, scope : Scopes, columns : Tables]
Jobs == [user : Users \cup {None}, dataset : Datasets \cup {None},
         archive : Archives \cup {None}, table : Tables \cup {None}, replaces : BOOLEAN,
         linked : SUBSET Archives, read : Tables \cup {None}, todo : Seq(Archives)]

TypeOK ==
  /\ uploads \in [Datasets -> Uploads \cup {NoUpload}]
  /\ rows \in [Datasets -> Tables \cup {None}]
  /\ files \subseteq Users \X Archives
  /\ archives \in [Users \X Archives -> {NoRow} \cup [dataset : Datasets \cup {None}, table : Tables]]
  /\ pc \in [Actors -> {"idle", "done", "failed"} \cup Steps]
  /\ job \in [Actors -> Jobs]
  /\ given \subseteq Datasets /\ everShared \subseteq Datasets /\ torn \subseteq Datasets
  /\ overlapped \subseteq Actors /\ seen \subseteq Users \X Datasets

\* A dataset lists the columns of the table its rows come from, once nobody is
\* writing to it, unless a writer failed between the two transactions or two of
\* them overlapped.
ColumnsMatchRows ==
  \A d \in Datasets \ torn : Exists(d) /\ (\A r \in Writers : job[r].dataset = d => pc[r] # "rows") =>
    rows[d] = uploads[d].columns

\* A row of a dataset that has always been private is never shown to another user
\* and never given to another user's archive, though rows are read in the name of
\* their owner and attached after the check.
PrivateStaysPrivate ==
  \A d \in Datasets \ everShared, u \in Users : Exists(d) /\ uploads[d].owner # u =>
    /\ <<u, d>> \notin seen
    /\ \A a \in Archives : archives[<<u, a>>].dataset # d

\* An archive is linked to a dataset that is there, also when the dataset was
\* deleted after an ingestion or a replacement had read its rows.
LinkedDatasetsExist ==
  \A x \in Users \X Archives : archives[x].dataset # None => Exists(archives[x].dataset)

\* When a replacement is reported, every archive its owner has a document of and
\* that is linked to the dataset shows its row of the new table, as far as the
\* limit goes, unless others worked on the dataset, or ingested for the owner,
\* meanwhile.
ReplacementReachesArchives ==
  [][\A r \in Writers : Report(r) /\ job[r].replaces /\ r \notin overlapped =>
       LET j == job[r]
       IN  \A a \in Archives :
             LET x == <<j.user, a>>
             IN  /\ x \in files /\ archives[x].dataset = j.dataset
                 /\ \E i \in DOMAIN FirstKeys(j.table) : FirstKeys(j.table)[i] = a
                 => archives[x].table = j.table]_vars

\* A workbook that can be converted gives a table the catalogue accepts, with the
\* same keys, whatever headers it repeats or leaves out (normalize_metadata_workbook
\* and parse_csv). It is about no state, so it is asked in the initial one alone.
ConvertedWorkbooksAreAccepted == Init => MisreadWorkbooks = {}
=============================================================================
