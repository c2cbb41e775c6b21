# A TLA+ model of the document analyzer

The program under `src/` ingests PDFs into an Oracle database and an OCI bucket, and answers
questions about them with a graph of model calls. This directory models the parts of its
backend in which the order of steps matters: threads that share counters, locks and rows,
requests that overlap, tables that are written in several transactions, permissions that change
between two reads, processes that die half way.

## 1. Inventory

Paths are relative to `src/apps/backend/app/` unless they start with `frontend/`.

| Component | State | Operations | Hard behaviour | What makes it correct |
|---|---|---|---|---|
| Ingest job registry (`ingest/ingest_runner.py`, `ingest/ingestion_factory.py`) | jobs, `_active_jobs`, all in memory | create, start, the thread of a job, status | threads, a limit read per thread, failures before and after the slot | slots counted and bounded; final status final and true; every job ends |
| Ingestion service (`ingest/document_ingest_service.py`) | locks per PDF path, a registration guard | pre-register, process a PDF, fail | locks across failures, two services after a race, partial failure | one writer per path, no leaked lock, a completed document is whole |
| Files, pages, embeddings (`repositories/file_repository.py` and neighbours) | rows in Oracle, one transaction per call | get-or-create, reset, add, update, delete, recovery at start | select-then-insert, deletes under a worker, restart | no row is left in processing without a worker |
| Document routes (`api/routes/documents.py`) | none | process, process-batch, retry, delete, job status | retry at any time, deletes ahead of the job | overlapping attempts do not spoil a document |
| Upload preparation, archives, PDF (`ingest/upload_preparation_service.py`, `ingest/archive_service.py`) | staged files | unpack, plan | name collisions, vanished files | every accepted document is planned once |
| OCR and enrichment (`ingest/docling_document_service.py`, `ingest/rag_enrichment.py`) | none | analyse, enrich | none: data | data |
| Metadata catalogue (`services/metadata_upload_service.py`, `services/metadata_normalization_service.py`, `repositories/archive_metadata_repository.py`, `api/routes/metadata.py`) | datasets, rows, the row given to each archive | preview, convert, save, replace, share, delete, refresh, attach to a document | three transactions per replacement; rows read after the check of access and written later | rows are those of the columns listed; private rows reach nobody else; no link dangles; a replacement reaches its archives |
| Question routes and graph (`api/routes/questions.py`, `agent/`) | values of a run, checkpoints of a thread (memory and Oracle), turns | ask, ask/stream, eleven nodes, save a turn | requests sharing a thread, streams reading the newest checkpoint, restart, lost writes | an answer is about its question and its own evidence; turns are numbered and remembered |
| Conversations (`api/routes/chats.py`, `repositories/chat_conversations_repository.py`) | rows | create, list, rename, delete | a conversation deleted under a question | turns belong to a conversation |
| Question understanding (`rag/scope_resolver.py`, `rag/facts_query_service.py`, `rag/question_classifier.py`, `agent/router.py`) | none of its own; ids handed from step to step | resolve the scope, classify, resolve metadata, route | every listing asks for access by itself; an empty list of ids means no restriction | what is quoted is in scope and was visible |
| Retrieval (`rag/retrieval/`) | none of its own | restrict, shortlist, search, fuse, rerank, quotas | limits in a row, each of which can undo the one before | archives and documents that are due a page have one |
| Traces (`repositories/qa_trace_repository.py`, `api/routes/improvement.py`) | runs, steps, evaluations | start, step, finish, review | a client that disconnects | every run ends |
| Database connections (`core/database.py`) | the pool, an initialised flag, the saved credentials | get a connection, replace credentials, close | lazy creation by any thread, replacement in between | the pool uses the credentials saved last; a pool can always be had again |
| Setup wizard (`api/routes/setup.py`, `services/bootstrap_service.py`) | scripts run, administrator, flags, files | install, configure, complete | a step fails after another committed; several browsers; a page loaded before the setup was complete | a completed setup has all it needs, and stays complete |
| Runtime configuration (`services/runtime_config_service.py`, `api/routes/settings.py`) | rows of `config`, the OCI key file | read, save many, reset | saved key by key; the page sends every key it has read | what was reported saved is saved; the key file repeats the settings |
| Object storage (`storage/`) | objects in a bucket | put, get | network | none of its own |
| Users (`services/user_service.py`, `services/auth_service.py`) | rows | create, change a password, delete, sign in | an installation that is run again renames the administrator | the administrator can sign in |
| Facts repository (`repositories/document_facts_repository.py`) | rows | write, read | none: its flag always reads as off in the ingestion service | nothing is written |
| Frontend (`frontend/`) | a watcher per job, a polled list | poll | gives up, lost jobs, orphan rows | what it shows ends as the job ended |

How they interact: a route creates a job in the registry and starts its thread; the thread asks
the cached ingestion service to process its documents one after another; the service registers
rows, takes the lock of the path, and writes through the repositories, each call a transaction
of its own, and to the bucket; the frontend polls the job and the list of documents. A question
runs the graph in the thread of the request; the graph reads the tables and writes a turn, and
its checkpointer writes the values of every step under the thread of the conversation. The
catalogue gives a row to an archive when a document of it is ingested or a dataset is replaced; a
question reads those rows to route and to restrict its search. The wizard makes the tables, the
settings and the credentials everything else runs on, and the settings page changes them later.

## 2. The modules

| Module | Models | Runs |
|---|---|---|
| `JobLifecycle` | what the registry promises: abstract specification | (implemented by `IngestJobs`) |
| `IngestJobs` | `IngestJobRegistry` and its threads | `IngestJobs` |
| `IngestJobs_proofs` | its theorems | proofs |
| `FileIngestion` | the ingestion of a document by `IngestionService` over the repositories, requests of users, restart | `FileIngestion`, `FileIngestion_live`, `RetryRace` |
| `FileIngestion_proofs` | its theorems | proofs |
| `QaConversation` | the questions of one conversation: the graph of a question, the checkpoints of its thread, the turns, both ways to be answered | `QaConversation`, `QaRestart`, `StreamRace` |
| `QaConversation_proofs` | its theorems | proofs |
| `DatabasePool` | `DatabaseManager`: the pool of connections while credentials are replaced | `DatabasePool`, `PoolRace` |
| `DatabasePool_proofs` | its theorems | proofs |
| `MetadataCatalog` | the datasets, their rows and the rows of archives: uploads, replacements, ingestions, views | `MetadataCatalog` |
| `MetadataCsv` | pure: what CSV files and workbooks are parsed and converted to; extended by `MetadataCatalog` | `MetadataCatalog` (the tables of the run, and `ConvertedWorkbooksAreAccepted`) |
| `MetadataCatalog_proofs` | its theorems | proofs |
| `Administration` | wizard, settings page, key file and accounts | `Administration` |
| `Administration_proofs` | its theorems | proofs |
| `Library` | files, sharing and metadata as a question sees them; the listings | `QuestionPipeline` |
| `QuestionScope`, `QuestionClass` | pure: the scope of a question, its class | `QuestionPipeline` |
| `MetadataFacts` | what metadata says of a question, and the route | `QuestionPipeline` |
| `EvidenceSelection` | pure: shortlists, quotas, archives, adjacent pages | `QuestionPipeline` |
| `EvidenceSelection_proofs` | what its lists contain | proofs |
| `QuestionPipeline` | composes them: the steps of a document question while the library changes | `QuestionPipeline` |
| `QuestionPipeline_proofs` | its theorems | proofs |
| `MC...` | the instances TLC checks | |

`QuestionPipeline` EXTENDS `MetadataFacts` (which extends `QuestionScope` and `QuestionClass`) and
`EvidenceSelection`, all over one `Library`; `QuestionPipeline_proofs` extends both it and `EvidenceSelection_proofs`. `JobLifecycle` is instantiated by `IngestJobs` under its
refinement mapping. The other modules are on their own: they share tables in the program, but
none of the state their properties are about.

### IngestJobs

`status`, `processed`, `error` are the fields of `IngestJobRecord`, `active` is `_active_jobs`,
`limit` is the local variable of `_run_job`. `pc` has one value per critical section or call of
`_run_job`: `resolve`, `acquire`, `admitted`, `service`, `items`, `release`. Each action is one
`with self._lock` block or one call that may raise; blocks of the lock are atomic because every
access to the fields is under it. `get_ingestion_service` is called outside the `try` block
(ingest_runner.py:199): when it raises, the thread is `dead` and its slot stays taken. Once it
has returned, `lru_cache` answers every later caller, so it can fail only before (`built`).
`ProcessItem` is one document of `process_document_plan` (an error is recorded, the next one
follows) or of `process_documents` (an error ends the job, `AbortJob`). A document whose staged
file is gone gives neither an entry nor an error; "completed" therefore says that nothing failed,
not that everything was ingested, and `OutcomeFaithful` says exactly that.

The read of the limit has the outcomes "the configured value" and 1: a failure to read or parse
it counts as 1 (ingest_runner.py:131-138).

### FileIngestion

A worker is the call of `process_documents` for one document. Its three calls of
`get_or_create_file` (plan, document, under the guard) are the three values of `stage`; each is a
SELECT and, when it found nothing, an INSERT, two steps of which only the INSERT is a write. Every repository call is a transaction
of its own and so an action. The lock of `_archive_execution_slot` is per service, user, archive and path; one
`PathOf` value stands for the key. A retry stages the PDF in a directory of its own, hence its
path is its own name. Two services exist when two first callers race in `lru_cache`
(ingestion_factory.py:13); `ServiceOf` says which one a worker runs in.

A page is written with its text (`AddPage`) or without any (`AddBlankPage`: OCR has found nothing, which the code counts as
a page like any other), and only a page with text gets an embedding (`AddEmbedding`, the `if embedding_text:` of
document_ingest_service.py:1001). `Ready`, what the properties ask of a completed row, is therefore: every page is there, written by one
worker, each that has text with its embedding. An exception while the plan registers its rows is swallowed and the worker goes on without a
row (`SkipRegistration`), one of the pre-registration of a document ends it (`PreRegistrationFails`).

`contended` and `stuck` are history variables: the row was reset while another worker was writing
to it; the last worker of the row, or the last start, could not write its outcome. They say for
which rows the guarantees are void; nothing in the actions reads them.

The guard `RetryFrom` names the states a client asks for a retry in: any state (the route does
not look) in `FileIngestion.cfg`, only failed rows (what the frontend offers) in `RetryRace.cfg`.

Abstracted: the text and the vectors of a page (a page has text or not, is embedded or not), the images of a page and their embeddings,
the object names (the PDF of a document is in the store or not), ownership and access, the parallel
dispatch of the documents of one call (workers of one job run side by side in the model, which
allows more orders), and the metadata attachment.

### QaConversation

Every request of a conversation runs the graph under the thread id `conversation-<id>`
(agent/service.py:79). `values` holds the channels of each run, `pc` the node it runs next;
`latest` is the newest checkpoint of the thread in the memory of `OracleLangGraphCheckpointer`
and `stored` the newest row of `agent_checkpoints`. `Step` is what the graph does after each
node: the node's channels are put as a checkpoint, in memory always, in the table unless the
insert fails (which is only logged). `Ask` lays the input of a run over the newest checkpoint. The
channels kept are those the input does *not* reset and which an answer is made of: `evidence`, `visual`,
`answer`, with the question. A channel holds the set of the requests whose retrieval it goes back to, since the
properties ask only where an answer comes from. LangGraph itself is not part of the repository; how it starts
a run and when it calls `put` is taken from how the code uses it.

`turns` are the rows of the conversation in `qa_sessions`, their ids numbered by `saved` (an id that a failed insert leaves unused
is abstracted, only the order of ids counts). `persist_turn` is three steps: the SELECT of the next index (`ReadIndex`), the INSERT, which takes
the id (`InsertTurn`), and the UPDATE of the conversation with the COMMIT, from which on others see the turn (`CommitTurn`); an error of
the last two is rolled back without notice (`LoseTurn`). So two requests can read the same index, and one can take its id
first and commit last: such saves overlap, and both turns get one index. `Answer` is POST /ask, which reports the state its own run has
returned; `AnswerStream` reads the newest checkpoint of the thread, or falls back to what the run has
reported. A closed stream (`Disconnect`) is not resumed after the node it is in, so it never
stops between the steps of `persist_turn`. A deleted file takes its turns with it
(`DeleteFile`, a foreign key that cascades), and a turn that names it cannot be saved afterwards.

`overlapped`, `raced` and `dropped` are history variables, for the exceptions in the properties. `raced` holds the pairs of requests
of which the first committed its turn after the second had read its index: for them `TurnsAreOrdered` says nothing.

### DatabasePool

`current` is `_pool` (an index of `pools`, every pool ever created), `initialized` is `_initialized`,
`saved` is the version of the runtime configuration file, which is replaced as a whole by a rename.
A worker thread goes through `get_connection` one shared read or write at a time: it reads the flag (`GetConnection`),
reads it again and resolves the credentials (`InitPool`), creates and assigns the pool, sets the
flag, checks the pool, and reads it again to acquire. Creating the pool and assigning it are
one step, since nobody sees the pool before. The route that saves credentials is a coroutine
without an `await` after its checks: saves do not overlap each other, but each of their steps may fall between
those of any thread. A pool with busy connections refuses to close (python-oracledb, as
`save_db_runtime` meets it: an error after the file was written). `refused` and `raced` are history variables.

### MetadataCatalog and MetadataCsv

`uploads` is `archive_metadata_uploads` with the owner, the access scope and the columns of a dataset, `rows` is
`archive_metadata_upload_rows`, as the table the rows were taken from, `archives` is
`archive_metadata`, keyed by user and archive, `files` says which archives have a document. Every repository call
is one transaction and one action (row locks make each of them atomic with respect to the others).
A writer (`CreateUpload` or `UpdateContent`, `WriteRows`, `ListLinked`, `ListRows`, `RefreshOne` for each
archive, `Report`) can fail before any of its transactions (`WriterFails`). An ingestion registers its
document, looks for the row under the access of its user, and writes it into the archive later; a
reader finds a dataset among those it may see and reads the rows in the name of the *owner* (metadata.py:289).

Datasets are made from the texts in `MetadataCsv`: `Parse` is `parse_csv` with its header
synonyms, its accents and its duplicate keys; `Normalized` is the conversion of a workbook to CSV. The
functions on texts (`Lower`, `Lookup`, `Canon`, `Join`) are given to the module as tables over a few cells.
`ConvertedWorkbooksAreAccepted` compares the two over all workbooks of up to three
headers and two rows, and its theorem over all workbooks. Two headers that only differ by an accent or by case ("filé" and "File") are one
column to the parser and two to the converter, and a key with two endings loses one in the conversion and the other in
the parser; the property leaves these two cases out by its definition.

What one would not expect of the code, and the model has: a key such as "b.pdf.zip" loses one ending each
time it is made canonical; a replacement reads only the first 1000 rows (`RefreshLimit`) to refresh archives; it
refreshes the archives of the owner, so archives of others linked to a shared dataset keep the
old rows; an archive keeps what it was given after the dataset is deleted. The status of a dataset (active
or archived) only matters to lists, and is left out.

### Administration

`config` is the table of settings, one row per key, `keyFile` the OCI configuration file, `applied` the statements of the bootstrap
scripts whose effect the database keeps, `accounts` the users table. The routes of wizard and accounts are `async
def` without an `await` between their calls, in one uvicorn process (`docker/start.sh`): they do not overlap, and `loop`
is the one that runs. The settings routes are plain functions and run in worker threads: a save (`editor`) writes
one key per transaction (`UpsertValue`) beside everything else. `RunScript` runs one script and commits it;
`ScriptFails` keeps what the last DDL statement committed. The pages are part of the model because the server checks
little: `complete_setup` neither asks for the OCI keys nor for the scripts, and the wizard page enforces the order.

`drift`, `told` and `overlapped` are history variables for the exceptions and promises of the properties.
What the model has from the code and one would not expect: the settings page sends its whole form, so a page that is out
of date takes back what another has saved; reading and saving a setting makes "007" to "7" (`Scalar`);
`update_admin_password` and `complete_setup` do not look whether a row was updated, and say that it was. So a password can be confirmed
before there is an account: `AdministratorSignsIn` says that *once there is one*, the password told last is its own. What is written to the
key file is not the setting but what `_write_oci_cli_config_file` makes of it, trimmed, the path of the key resolved, a blank one refused: `InFile`, a
constant function, and `KeyFileFollowsSettings` compares the file with `InFile` of the settings.

Left out: the retired settings that are deleted, avatars, groups and profiles, last sign-ins and tokens, the
tests of external services, and the saving of the database connection, which is `DatabasePool`.

### QuestionPipeline and its parts

A question goes through `resolve_scope` (`FilterRequested`, `NarrowRequested`, `InferScope`), `resolve_facts` (`ReuseConversation`
or `LoadMetadata`, `ResolveFacts`, `EnrichFacts`), `decide_answerability`, `retrieve_candidates` (`RestrictFiles`, `ShortlistDocuments`,
`SearchPages`, `RankEvidence`) and ends `answered` or `failed`. Between any two steps the library changes: files
are shared, withdrawn and deleted, metadata of archives is attached. A file is owned, belongs to an archive, has a name, a code and pages; a page is a file
and a number. The loops of the code that append to lists are described in `EvidenceSelection` by the places of what they
append (`SortedBy`, `At`, `Joined`): which pages, in which order, up to how many. What a question asks for in words is a record of its traits (`asks`, names, codes, archives it mentions); which words give
which trait is an input, what the code then makes of the traits is the model. What scores say of pages
and files is *any* ranking, since no property may depend on them.

Abstracted: listings of one function that follow each other are one step, where nothing but their results is
compared: in `RestrictFiles` those of the prefilter, of names and of archives (query_service.py:856-901), in `SearchPages` the dense, the
image and the lexical search (960-983), in `RankEvidence` those of the expansion and of the adjacent pages (996-1015), and some in `NarrowRequested` and
`EnrichFacts`. Each of them checks access for itself, so a change between two of them gives fewer pages, which a change before or after the
step and the freedom of rankings give as well. Besides, listings whose failure the code swallows
may come back empty; the limit of candidates of one search and the cut to three pages per document in
the expansion; ties of scores; the facts of documents, which are never written, so that a
temporal question finds none and a question about versions has no groups; the limits of candidates that are reranked (24, 32 and 8) are
one limit; `quoted` counts every file whose row the answer is given, a little more than are printed.

What the model shows of the code on the way, and its properties allow for:

- a question with an enriched context counts as one about metadata, so almost every one of them is answered from
  both, metadata and documents ("hybrid");
- a global question with metadata resolves *all* described archives, so that its retrieval is restricted to
  archives that have metadata, each with one representative file; files of archives without metadata are
  dropped from a comparison;
- a comparison of a whole scope of more than 24 files of archives is rebalanced down to the shortlist, for
  analytics to a single document;
- reranking and the priority of archives may push out the only page of a document (why `ScopeIsHeard` asks for
  documents only where no archive is looked for);
- a follow-up is searched together with the text of the turn before, so that names quoted there narrow it; a
  follow-up whose files are gone becomes a global question without a notice; metadata fields carried over from
  earlier turns can make it fail;
- the metadata of an archive with a shared file is visible to whoever sees the file, through its owner.

## 3. The runs

| Run | Instance | Shows |
|---|---|---|
| `IngestJobs` | 3 jobs (a plan of two documents of one name, a plan of one, a single), limits 1..2, one restart | slots are counted and bounded by what each thread read; final statuses are final and tell what happened; the registry implements `JobLifecycle`; every job ends unless a thread died building the service |
| `FileIngestion` | 2 uploads of one path, one retry in a second service, 2 pages of which the first may be blank, 3 row ids, one delete, one restart, one lost status | a completed document has all it needs unless two workers overlapped on its row; one writer per path; a processing row has a worker or a recorded reason; no lock leaks |
| `FileIngestion_live` | 2 uploads, no retry, one page, 4 row ids | every submitted document is finished with |
| `RetryRace` | one upload, two retries of its failed row, 1 row id | **violated**: two retries of one failed document leave it completed without pages |
| `QaConversation` | 2 streams and a plain request about one file, two at once | a saved turn answers its own question from its own evidence; clients see their own answer, streams only if nothing overlapped; turns whose saves did not overlap are numbered in order; answers are remembered |
| `QaRestart` | 1 stream and 1 plain request at once, two restarts, two lost checkpoints | nothing of an old checkpoint reaches an answer |
| `StreamRace` | 1 stream and 1 plain request at once | **violated**: a stream is shown the answer to the other question |
| `DatabasePool` | 3 threads, 2 saves, 4 pools | after a save the next connection uses the saved credentials, and a flag without a pool never remains, unless a save overlapped with the creation of a pool |
| `PoolRace` | 3 threads, 1 save, 2 pools | **violated**: a pool of the old credentials is created after the save and stays |
| `MetadataCatalog` | 2 users, 2 archives, 1 dataset, 2 writers, an ingestion, a reader; 4 tables; refresh limit 1 | the rows of a dataset have its columns; private rows reach no other user; no link to a deleted dataset; a replacement that was reported has reached its archives; converted workbooks are accepted with the same keys |
| `Administration` | 2 wizard pages, 1 settings page, 3 scripts of 5 statements, 5 settings, 2 accounts, one reload, one restart | a setup that counts as complete has everything it needs and stays complete; the key file repeats the settings; settings reported saved are saved; the administrator, once there is one, can sign in with the password told last |
| `QuestionPipeline` | 13 questions, 3 files of 2 users in 2 archives, 4 pages, 2 changes of the library | evidence and quoted metadata are in the scope of the question and were visible to its user; every archive and document that is due a page has one |

`RetryRace` is a finding. The frontend says that completed documents are ready for retrieval
(`frontend/src/components/pages/Home.tsx:122`). The retry route has no check of the state of the row
(`api/routes/documents.py:625`) and every retry stages the PDF under a new path
(`api/routes/documents.py:277`), so the lock of the service does not order two retries. The second
resets the row that the first fills, and may fail before it writes a status; the first then writes
"completed". `rag.ingest.max_parallel_jobs` is 2 by default, so two retries do run at once.

`StreamRace` is another. The repository's README calls POST /ask/stream "the same document
QA flow" as POST /ask. The stream takes its answer from `get_state` of the thread
(`agent/service.py:776`), which is the checkpoint any request of the conversation wrote last: in the
counterexample the other request writes its answer after the stream's last node and before its
`get_state`. The turn of the stream is saved with its own answer, so what the client saw is not what
the conversation lists. A reader of the other route is not affected (`AnswersOwnQuestion`).

`PoolRace` is the third. `core/database.py:80` says that a save forces the pool to be made again with the latest
credentials; a thread that has resolved the old ones before makes it with those. The
exception `~raced` of `FlagMeansPool` has a second reason: a save that clears the pool after a thread
assigned it, and the flag before that thread sets it, leaves the flag without a pool. Every later
`get_connection` raises, and `close_pool`, which does nothing without a pool, never resets the flag.

**Bounds.** Two limits and three jobs are the smallest instance in which a job waits for a slot while
two hold one and the limit changes in between. Two documents of one name are needed for a progress entry to
replace another. Two uploads and a retry are the smallest instance with a pair that shares a lock
and a pair that does not. Two pages give a step between two pages, and `BlankPages` lets OCR find no text on the first of them, so that pages with and without an embedding meet; one delete, one restart and one
lost write meet every step, and each of the pairs of them. Row ids are handed out once: a SELECT that finds
nothing and an id left unused is needed for an INSERT, and the number of ids bounds how often a
document is registered again after a delete. In `FileIngestion_live` four ids are more than the
workers can use, so an exhausted bound never looks like a thread that waits for ever.

In `QaConversation` a third request is needed for a turn after a deleted one to meet an index in use, and
for channels that come from two earlier questions; two at a time is the least that overlaps. Restarts and
lost checkpoints are left to `QaRestart`, whose two requests and two of each reach every pair of an old stored
checkpoint and a newer one in memory. The two streams of `QaConversation` are interchangeable, and its
properties are invariants, so it uses symmetry.
Two saves and four pools let a save meet a pool that was made after
an earlier one; three threads let two of them create pools at once beside a third that holds a connection.

In `MetadataCatalog` two writers are the least that can interleave their transactions on one dataset, the ingestion and the view
are the two places where rows are used after a check; one dataset is enough, as its id is never used
again, and the limit of one row makes the tables with two rows longer than the limit. The tables are those of `MCCsvs` that parse: without
rows, with one, with a blank key, and (refused) with one key twice. In `Administration` two wizards let one of them complete the
setup while the other installs it again; one restart, one reload and one more account meet every step; the three scripts have a
statement that needs a table of an earlier script, one of the same, and the row of the flag. One settings page is
its bound: what two saves at once do is excluded from `SavedSettingsAreWhole` (`overlapped`), while a save beside the
wizard is in the run. In `QuestionPipeline` the limits are as small as the library (shortlists of 1 and 2, a pool of 2, 3 reranked
candidates), so each of them is exceeded; each of the thirteen questions is there for a branch of its own (requested files,
names, codes, archives, follow-ups of either kind, metadata, quotas, whole documents); two changes
are enough to share and withdraw a file, or to delete two, during one question. `MetadataCatalog` and `Administration` use
symmetry in users, writers, wizards, names and passwords; their action properties compare one state with the next
and treat these alike, so that it is sound; `QuestionPipeline` has no symmetry, its asker being one of two.

**Hazards no property covers.** They are behaviours the code has, so that a property against them would fail, and no document of the repository
promises otherwise. The models have their steps, or say so here: a staged file that has vanished completes silently (`archive_service.py:32`; `OutcomeFaithful`
tells outcomes and not documents); rows still queued when the process dies stay so (`document_ingest_service.py:572`); a job that replaces
documents deletes their rows before it exists (`documents.py:466`, the step `SubmitReplacing`); two services do not share locks
(`ingestion_factory.py:13`; `OneWriterPerPath` is about one service); confidence notes are carried from turn to turn in the checkpoints (`nodes.py:345`; of the channels, only those an answer is made of are modelled); rows of a dataset that turns private between the check and the reading are
shown (`metadata.py:289`); two saves of settings mix (`runtime_config_service.py:116`). A replacement that fails between its transactions leaves the
dataset torn: `ReplacementReachesArchives` is about those reported, and the columns of a torn dataset are excepted by `ColumnsMatchRows`. Three more hazards wait for the modules of section 5: jobs lost in a restart, the watcher of the frontend, and
operations that run twice.

**Deadlock.** `IngestJobs` never stops: the administrator can change the limit. `FileIngestion` stops when every worker
has ended and the bounds on deletes and restarts are used up, so its configurations switch the deadlock check off;
`WorkersEnd` says that no worker is left waiting. `QaConversation` stops
when every question has been asked and has ended. `DatabasePool` never stops; `PoolRace` may when its two
pools are used up, which has no part in its counterexample. `MetadataCatalog` stops when its writers, its
ingestion and its view are over and no dataset is left to share or delete, `Administration` when every page has left
and nothing is editable, `QuestionPipeline` when its question is answered or failed and the changes are used up:
their configurations switch the check off.

**Fairness.** `FairSpec` of `IngestJobs` and of `FileIngestion` has weak fairness of every thread: a
started thread is scheduled, and each call it makes returns or raises. There is no fairness of
requests, restarts or changes of the configuration. Waiting for a slot is a polling loop and not
a queue, weak fairness of it is what the code gives.
A thread that waits for a lock does so under weak fairness only, so `WorkersEnd` does not depend on the order in which
Python wakes waiters: each worker takes the lock once.

The other modules have no liveness property and state no fairness: each of their requests is a sequence of calls that end or raise,
and what could keep it from ending lies in the database.

## 4. The proofs

`IngestJobs_proofs` proves, for every set of jobs, every list of documents, every bound:

- `TypeCorrect`: `Spec => []TypeOK`; lemmas `EntryType` and `ProgressType` give the types of the
  recorded entries.
- `SlotsAreCounted`: `_active_jobs` is the number of threads that hold a slot. Needs only the type
  invariant and that the set of holders is finite; `SlotSteps` lists how each step changes it.
- `ParallelismIsBounded`: needs `SlotsAreCounted`, because a thread compares its limit with the
  counter and not with the threads of its own limit.
- `StatusFollows`: the status of a job agrees with the point its thread has reached. It is the strengthening the
  next two need: without it a final status could belong to a thread that has not started.
- `FinalStatusesAreFinal` and `LifecycleImplemented`: a step of the registry is a step of
  `JobLifecycle` or leaves its variables alone; `PhaseByThread` gives the phase of a job at each
  point of its thread.
- `NamesAreKept`, by `Told`: the entries of a running plan are outcomes it was told of, and for every outcome a
  later one of its name is listed. An entry may replace another of the same document or of the same name, and
  documents with one row of files have one name: so a replaced name is always replaced by itself.
- `OutcomesAreFaithful`, by `Accounted`: at each point of the thread the outcomes that were ingested and failed are
  as many as the results, and what a plan publishes at its end is its whole list of results. `MoreCases` and `MoreEntries` count
  one outcome or entry more.

`FileIngestion_proofs` proves, for every set of uploads, retries, documents, paths and rows:

- `TypeCorrect`, by `Typed`: with the types, what a worker that is at a row has been given, and that a row in use has its document.
- `LocksHeld` and `OneWriter`, by `LockInvariant`: a lock is taken exactly while a worker is in its section, and by one only. The
  second property is the use of the first, and neither is inductive without it; the lemma `Locking` says how a step may treat the locks.
- `ProcessingIsAttended`, by `Attended`: the worker at a processing row is past the write that marked it.
  A worker that has just been given the row and is about to mark it would not do: it may still fail and leave the row as it was.
- `CompletedAreReady`, by `Wholes`: a row that is not contended has at most one writer; what is in the row is exactly what
  that writer has written since the reset, page by page, a page with text either embedded or the one it is at (`Progress`, of which `Wrote` is
  about the pages and `WroteNext` about one page more); a completed row has no writer and is whole. Nothing in
  the rows says who wrote them, so without the count of writers no step could rely on what an earlier one left.

`QaConversation_proofs` proves, for every set of requests and every number of runs at once, restarts and lost checkpoints:

- `TypeCorrect`, by `Typed`, which adds that the index of a turn is at most the number of turns ever saved (`Counted`):
  without a bound the highest index would not be known to exist (`Largest`).
- `TurnsAreGrounded`, by `Grounded`: what a run's channels must hold at each node (`Sound`). A run may start from any checkpoint, with
  evidence, pictures and answer of other questions; the lemma `Thinking` goes through the nodes of both routes and
  shows that each channel is overwritten before it is used.
- `AnswersAreOwn`, by `Owned`: besides, the newest checkpoint is the run's own as long as nobody has written beside it.
- `OrderHolds`, by `Numbered`: an index that was read is above every turn unless one was committed since, and then the two are a pair of
  `raced`. Ids are taken between the two, so nothing about ids is needed: a turn committed before another's index was read has the lower index, and one
  committed after is in `raced`, whichever id is the lower.
- `AnswersStay`: by `Remembered`, which adds the runs past their insert.

`DatabasePool_proofs` proves, for every set of threads and every number of saves and pools:

- `PoolTypeCorrect`: `Spec => []TypeOK`. The lemma `PoolCloses` gives the sequence of pools after one
  is closed.
- `PoolInvariance`: `PoolInvariant`, the strengthening. Neither property is inductive: that the flag comes with
  a pool depends on the thread about to set it, that a new pool has the saved credentials on
  what its creator resolved, and that no pool appears while the old one is cleared away on the flag,
  which is still set. `SaverRaces` is the step all saves have in common, `NewPool` what a creation puts in place.
- `CredentialsAreUsed`, `FlagIsHonest`: the two properties, from `PoolInvariance`.

`MetadataCatalog_proofs` proves, for every set of users, datasets, archives, tables and actors:

- `TypeCorrect`: `Spec => []TypeOK`, from `TypeInvariance`, which adds to the types what an actor holds at each of its steps.
- `LinksHold`: no link dangles. Inductive with the types alone: an archive is given a link where the dataset is
  there (the foreign key), and a deletion clears the links.
- `PrivacyHolds`: by the strengthening `Traced`. The property speaks of links and views; both come from a check made
  steps earlier, so the invariant says of every actor past its check, too, that it was entitled (`Entitled`), and
  of the history variables that they follow the records (`Recorded`). Entitlement never ends
  (`EntitlementStays`), since ids are never used again and a dataset once shared stays so for the history; `Origins`, `Links` and `Sights` say
  where what a step shows or attaches comes from.
- `ColumnsHold`: by `Consistent`, which adds that a writer about to write its rows has the table whose columns are recorded,
  unless the dataset is torn (`Announced`).
- `ReplacementsReach`, by `Replacing`: a replacement that nobody overlapped with is alone (`Alone`), and as far as it has come
  the rows, the linked archives and the keys still to do account for every archive it is to reach (`Advanced`). It rests on
  `LinksHold`: an archive still linked shows that the dataset is there, so that what was read are the new rows. `Beside` and `StartsBeside` say
  what others may do meanwhile, `Joining` that whoever starts at its dataset makes it overlap.
- `ConversionsAreAccepted`, by `Conversion`: no workbook is converted into a table that is refused or read with other keys. `Uniqueness` shows
  that headers made different one after the other keep their names (the recursive function is defined everywhere, since a least place where it is not
  would have all before it), `Finding` that the column taken for the files is the last that reads as "file", and
  `Heads` that no other header can be mistaken for "file" once it is written first. `Living` says that a table all of whose rows have a key loses none.

`Administration_proofs` proves, for every number of pages, every set of scripts, settings, names and passwords:

- `TypeCorrect`, with what the loop and the pages hold while a request is under way (`Held`).
- `AdministratorHolds`, by `Administered`: account 0, once it is there, is active and has the password told last. The rest is that
  names of active accounts are unique.
- `CompletionHolds`, by `Settled`: the property alone is not inductive, because an installation run
  again seeds the flag with "false" and a settings page writes the flag of its form; the seed only happens once, before
  the flag is in the table, and every form that is open was read when the setup was complete. `FlagSteps` lists how a step may treat the flag.
- `KeyFileHolds`, by `Followed`: what is about to be written to the file is in the settings, unless they drifted.
- `HonestyHolds`, by `Ordered`: what each page has passed through is in the tables. It rests on `Grows`: statements,
  settings and the administrator stay once they are there.
- `SavesHold`, by `Apart` and `Written`: a page that has not overlapped finds in the table the part of its form saved so far.

`EvidenceSelection_proofs` proves, for every list of pages and documents, every ranking, quota and limit, what the selections
make of it. Everything rests on `Sorting`: a finite set in a strict order, listed by how many elements come before each, is a list
of all of it without repetition (`Counting` shows that the numbers of predecessors are different, and so all there are). From it follow the lists by
places: `Selecting` and `Distinguishing` (the elements at some places, or without repetition), `Joining` (lists one
after the other), `PageOrdering`, `Hearing`.

- `Filling`: documents that are given pages keep what they had; what is new is of these documents and in no place twice; none
  that can have a page has none.
- `QuotaKeeping`: the evidence has no page twice, also after adjacent pages replaced others (`Replacing`, `Adjoining`), and with
  room for the quotas every document keeps a page, since each keeps its first before the cut (`Keeping`).
- `Leading`: the best pages of archives are one of each archive; where all of them are, every archive is heard.
- `Rebalancing`, `Shortlisting`: the files a search is cut down to are among those there were, and never none.

`QuestionPipeline_proofs` proves, for every library, every set of questions and limits and any number of changes:

- `Invariance`: `Inv`, the conjunction of four parts. `Typed` gives every record of a run its fields. `Fresh` says that
  nothing is known before a step has found it; without it the restrictions below could not be established at the first of them.
  `Restricted` follows the ids from list to list: for a question about some files each list is among these, and *is not
  empty* where an empty one would mean "no restriction" (the files before the shortlist, the documents before a search, the
  ids of a context that is enriched). `WasVisible` says the same of what could be seen.
- `FactsWithin`: what metadata makes of some files stays within them, through all its branches (`Filtering`, `Inventorying`,
  `Comparing`, `Analysing`, `Computing`). It is what `Restricted` needs of the resolution of facts.
- `TypeCorrect`, `EvidenceStaysInScope`, `EvidenceIsOfVisibleFiles`: from the invariant.
- `EveryoneIsHeard`: from types alone it follows that the last step, which selects the evidence, leaves nobody out: the leaders of archives are the
  first of the evidence and as many as fit (`Leading`, `Prioritising`), and where no archive is looked for the
  number of pages desired is large enough for every quota (`QuotaKeeping`).

**Assumptions.** Each proof module assumes what the module it is about assumes, and TLC evaluates these on the instances: a finite set of
jobs, finite lists of documents, one name for the documents with one row of files, which is found by its name
(file_repository.py, `get_or_create_file`), and a positive largest limit (`IngestJobs`); finite, disjoint sets of uploads and retries, row ids
above zero, and at least one page in every document (`FileIngestion`); finitely many requests, of which Nobody is none (`QaConversation`); bounds that are natural numbers
(`DatabasePool`); that None is none of the values, and writers, ingestions and readers are different
(`MetadataCatalog`); that a header which is "file" in lower case reads as "file", and that texts, headers and workbooks have their types (`MetadataCsv`); that the flag, the model and the OCI settings are different settings, that every
statement is in a script, that "true" is read as itself (`Administration`); finitely many files with ids above zero (a
list of ids drops others), owners among the users, page counts that are natural numbers (`Library`), limits and quotas that are natural numbers, and
no limit of results, of a shortlist, of a pool or of candidates that is 0 (`QuestionPipeline`; the settings are read with a minimum of 1). The history variables, where a property
has an exception, only record and are read by no guard.

**Only model-checked.** Liveness under fairness (`JobsTerminate`, `WorkersEnd`) is out of the prover's reach, and so would be anything
with ENABLED. Every invariant and action property of a passing run, and the refinement, is proved. The provers cannot use
induction theorems, so lists are described by their places and not by folds in the modules that are proved about, and where a recursive
function remains (`UniqueHeaders`), the proof takes a least counterexample instead (`LeastNumber`). No module declares a RECURSIVE
operator. The violations of `RetryRace`, `StreamRace` and `PoolRace` are TLC's counterexamples.

## 5. Not modelled, and the plan

In the order of their importance:

1. `JobWatch`: the watcher of the frontend over the registry, with lost jobs and orphan rows.
2. `RetryableWrite`: operations tried again after a commit whose answer was lost.
3. The choice of the history a question takes over from earlier turns (`api/routes/questions.py:202-342`), of which
   `QuestionPipeline` has the result as an input and `QaConversation` nothing; other channels of the
   graph, of which the confidence notes are carried from turn to turn.
4. The preparation of uploads: names of plan items that collide, archives inside archives.

Not planned. OCR and enrichment (`ingest/docling_document_service.py`, `ingest/rag_enrichment.py`), the embeddings and the terms of a question
are transformations of data without state, and their correctness is a matter of quality and not of order. The facts repository
is never written: the service reads its flag through a name it does not import
(document_ingest_service.py:177) and takes the error as "off". Conversations are sequential requests over one row each; traces and their
reviews are rows beside a run, which nothing of it reads. The model provider is calls that answer or raise, and
appears where its failure matters. The development server, deployment and the presentation of the frontend keep no state of the
program; the parts of the frontend that decide on an order, the wizard and the settings page, are in `Administration`.
