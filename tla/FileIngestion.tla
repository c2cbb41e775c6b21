---------------------------- MODULE FileIngestion ----------------------------
(***************************************************************************)
(* The ingestion of documents into the database and the object store       *)
(* (ingest/document_ingest_service.py over repositories/file_repository.py *)
(* and its page and embedding repositories).  A worker is one call of      *)
(* process_documents for one document, in the thread of one job: it        *)
(* registers the row of the document ahead of time, waits for the lock of  *)
(* its PDF path, registers and resets the row under the registration       *)
(* guard, uploads, renders, writes page after page in transactions of      *)
(* their own, and writes a final status.  Users delete and retry documents *)
(* meanwhile, and the process may die between any two steps.               *)
(***************************************************************************)
EXTENDS Naturals, FiniteSets

CONSTANTS
  Uploads,      \* workers of process-batch jobs
  Retries,      \* workers of retry jobs; each stages the PDF under a path of its own
  Docs,         \* documents: what a files row is looked up by (user, name, object)
  DocOf,        \* the document of an upload
  PathOf,       \* the path of the PDF of an upload on the local disk
  ServiceOf,    \* the IngestionService a worker runs in: it owns the locks
  PagesOf,      \* the number of pages of a document
  BlankPages,   \* bound: the pages of a document OCR may find no text on
  Rows,         \* bound: the ids of files rows, 1..n
  MaxDeletes,   \* bound: how often users delete a document
  MaxRestarts,  \* bound: how often the process is restarted
  MaxLost,      \* bound: how often a final status cannot be written
  RetryFrom,    \* the states of a row a client asks for a retry in
  NoDoc         \* the document of an unused row or worker

Workers == Uploads \cup Retries
Paths == {PathOf[w] : w \in Uploads} \cup Retries
Services == {ServiceOf[w] : w \in Workers}

ASSUME WorkersAssumption ==
  /\ IsFiniteSet(Uploads) /\ IsFiniteSet(Retries)
  /\ Uploads \cap Retries = {}
  /\ DocOf \in [Uploads -> Docs]
  /\ PathOf \in [Uploads -> Paths]

ASSUME DocsAssumption ==
  /\ NoDoc \notin Docs
  /\ PagesOf \in [Docs -> Nat \ {0}] /\ BlankPages \in [Docs -> SUBSET Nat]

ASSUME BoundsAssumption ==
  /\ Rows \subseteq Nat \ {0}
  /\ MaxDeletes \in Nat /\ MaxRestarts \in Nat /\ MaxLost \in Nat

VARIABLES
  state,      \* files.file_state; "unused" before the row exists, "deleted" after
  key,        \* the document a files row was inserted for
  pageCount,  \* files.file_page_count
  pages,      \* the file_pages of a row: the worker that wrote each, whether OCR
              \* found text on it, and whether it has its text embedding
  embedding,  \* the row has its file_embeddings row
  stored,     \* the documents whose source PDF is in the object store
  pc,         \* where each worker is
  stage,      \* which of its get_or_create_file calls a worker is in
  doc,        \* the document a worker ingests
  row,        \* the files row a worker writes to, 0 before it has one
  page,       \* the page a worker writes next
  locked,     \* the archive execution locks taken: <<service, path>>
  guarded,    \* the services whose _file_registration_guard is taken
  contended,  \* history: the row was reset while another worker wrote to it
  stuck,      \* history: rows whose last worker could not write a final status
  deletes, restarts, lost   \* counted against the bounds

table == <<state, key, pageCount, pages, embedding>>
locks == <<locked, guarded>>
thread == <<stage, doc, row, page>>
history == <<contended, stuck>>
counters == <<deletes, restarts, lost>>
vars == <<table, stored, pc, thread, locks, history, counters>>

Present == {r \in Rows : state[r] \notin {"unused", "deleted"}}
RowsFor(d) == {r \in Present : key[r] = d}

\* The retry route downloads the PDF into a directory of its own.
Path(w) == IF w \in Uploads THEN PathOf[w] ELSE w
Lock(w) == <<ServiceOf[w], Path(w)>>

\* From reset_file_derivatives to the final status.
WritingPcs == {"mark", "upload", "render", "page", "embed", "finalize", "finish", "failing"}
Writers(r) == {w \in Workers : pc[w] \in WritingPcs /\ row[w] = r}

Init ==
  /\ state = [r \in Rows |-> "unused"]
  /\ key = [r \in Rows |-> NoDoc]
  /\ pageCount = [r \in Rows |-> 0]
  /\ pages = [r \in Rows |-> {}]
  /\ embedding = [r \in Rows |-> FALSE]
  /\ stored = {}
  /\ pc = [w \in Workers |-> "idle"]
  /\ stage = [w \in Workers |-> "queue"]
  /\ doc = [w \in Workers |-> IF w \in Uploads THEN DocOf[w] ELSE NoDoc]
  /\ row = [w \in Workers |-> 0]
  /\ page = [w \in Workers |-> 1]
  /\ locked = {}
  /\ guarded = {}
  /\ contended = [r \in Rows |-> FALSE]
  /\ stuck = {}
  /\ deletes = 0 /\ restarts = 0 /\ lost = 0

-----------------------------------------------------------------------------
(* Requests of users                                                       *)

Goto(w, to) == pc' = [pc EXCEPT ![w] = to]

\* A DELETE on files: the foreign keys cascade to pages and embeddings.  The
\* objects in the store stay.
DeleteRows(R) ==
  /\ state' = [r \in Rows |-> IF r \in R THEN "deleted" ELSE state[r]]
  /\ pages' = [r \in Rows |-> IF r \in R THEN {} ELSE pages[r]]
  /\ embedding' = [r \in Rows |-> embedding[r] /\ r \notin R]
  /\ UNCHANGED <<key, pageCount>>

\* process-batch, without and with replace_file_ids: the rows to be replaced
\* are gone before the job is created.
Submit(w) ==
  /\ pc[w] = "idle"
  /\ Goto(w, "select")
  /\ UNCHANGED <<table, stored, thread, locks, history, counters>>

SubmitReplacing(w) ==
  /\ pc[w] = "idle"
  /\ deletes < MaxDeletes
  /\ RowsFor(doc[w]) # {}
  /\ deletes' = deletes + 1
  /\ DeleteRows(RowsFor(doc[w]))
  /\ Goto(w, "select")
  /\ UNCHANGED <<stored, thread, locks, history, restarts, lost>>

\* DELETE /files/{id} and bulk delete: whatever state the row is in.
Delete(r) ==
  /\ r \in Present
  /\ deletes < MaxDeletes
  /\ deletes' = deletes + 1
  /\ DeleteRows({r})
  /\ UNCHANGED <<stored, pc, thread, locks, history, restarts, lost>>

\* POST /files/{id}/retry: the route looks at the owner, not at the state of
\* the row, and stages the PDF before it creates a job of one document.  The
\* frontend offers a retry for failed rows only.
Retry(w, r) ==
  /\ w \in Retries
  /\ pc[w] = "idle"
  /\ r \in Present /\ state[r] \in RetryFrom
  /\ key[r] \in stored
  /\ doc' = [doc EXCEPT ![w] = key[r]]
  /\ stage' = [stage EXCEPT ![w] = "document"]
  /\ Goto(w, "select")
  /\ UNCHANGED <<table, stored, row, page, locks, history, counters>>

\* The PDF cannot be staged: the row is called failed, whoever works on it.
RetryUnavailable(w, r) ==
  /\ w \in Retries
  /\ pc[w] = "idle"
  /\ r \in Present /\ state[r] \in RetryFrom
  /\ Goto(w, "failed")
  /\ state' = [state EXCEPT ![r] = "failed"]
  /\ UNCHANGED <<key, pageCount, pages, embedding, stored, thread, locks, history, counters>>

-----------------------------------------------------------------------------
(* get_or_create_file: a SELECT, then an INSERT, nothing unique about it    *)

\* Where a worker goes once a call has returned the row it asked for.  An
\* upload registers its document when the plan starts (_pre_register_process_
\* plan_items) and again in process_documents (_pre_register_pdf_contexts), a
\* retry only there; the third call is the one of _process_pdf.
Registered(w, r) ==
  /\ row' = [row EXCEPT ![w] = r]
  /\ stage' = [stage EXCEPT ![w] =
                 CASE @ = "queue" -> "document"
                   [] @ = "document" -> "guard"
                   [] @ = "guard" -> "guard"]
  /\ Goto(w, CASE stage[w] = "queue" -> "select"
               [] stage[w] = "document" -> "wait"
               [] stage[w] = "guard" -> "reset")

SelectRow(w) ==
  /\ pc[w] = "select"
  /\ IF RowsFor(doc[w]) = {}
     THEN Goto(w, "insert") /\ UNCHANGED <<stage, row>>
     ELSE \E r \in RowsFor(doc[w]) : Registered(w, r)
  /\ UNCHANGED <<table, stored, doc, page, locks, history, counters>>

InsertRow(w) ==
  /\ pc[w] = "insert"
  /\ \E r \in Rows :
       /\ state[r] = "unused" /\ \A s \in Rows : s < r => state[s] # "unused"
       /\ state' = [state EXCEPT ![r] = "registered"]
       /\ key' = [key EXCEPT ![r] = doc[w]]
       /\ Registered(w, r)
  /\ UNCHANGED <<pageCount, pages, embedding, stored, doc, page, locks, history, counters>>

\* The registration of a plan swallows what an item raises: the document goes on
\* without having been registered ahead of time.
SkipRegistration(w) ==
  /\ pc[w] \in {"select", "insert"} /\ stage[w] = "queue"
  /\ stage' = [stage EXCEPT ![w] = "document"]
  /\ Goto(w, "select")
  /\ UNCHANGED <<table, stored, doc, row, page, locks, history, counters>>

\* The look-up of the user before the plan is registered is in no try block, and
\* neither is the registration in process_documents: the document fails before
\* the thread has any lock, and a row it may have is left as it is.
PreRegistrationFails(w) ==
  /\ \/ pc[w] = "select" /\ stage[w] = "queue"
     \/ pc[w] \in {"select", "insert"} /\ stage[w] = "document"
  /\ row' = [row EXCEPT ![w] = 0]
  /\ Goto(w, "failed")
  /\ UNCHANGED <<table, stored, stage, doc, page, locks, history, counters>>

-----------------------------------------------------------------------------
(* _process_pdf_with_archive_slot and _process_pdf                          *)

\* Mutant of LockPath: nobody waits for the lock.
LockPathAtOnce(w) ==
  /\ pc[w] = "wait"
  /\ locked' = locked \cup {Lock(w)}
  /\ Goto(w, "check")
  /\ UNCHANGED <<table, stored, thread, guarded, history, counters>>

LockPath(w) ==
  /\ pc[w] = "wait"
  /\ Lock(w) \notin locked
  /\ locked' = locked \cup {Lock(w)}
  /\ Goto(w, "check")
  /\ UNCHANGED <<table, stored, thread, guarded, history, counters>>

\* The thread leaves _process_pdf with the outcome o: it gives its lock back, and
\* its local variables are gone.
Leave(w, o) ==
  /\ locked' = locked \ {Lock(w)}
  /\ row' = [row EXCEPT ![w] = 0]
  /\ page' = [page EXCEPT ![w] = 1]
  /\ Goto(w, o)
  /\ UNCHANGED <<stage, doc>>

\* Mutant of RejectPdf: the lock is given back on the way out of a success only.
RejectPdfLocked(w) ==
  /\ pc[w] = "check"
  /\ Goto(w, "failed")
  /\ UNCHANGED <<table, stored, thread, locks, history, counters>>

\* _ensure_valid_pdf or sha256_file raises: nobody tells the files row.
RejectPdf(w) ==
  /\ pc[w] = "check"
  /\ Leave(w, "failed")
  /\ UNCHANGED <<table, stored, guarded, history, counters>>

TakeGuard(w) ==
  /\ pc[w] = "check"
  /\ ServiceOf[w] \notin guarded
  /\ guarded' = guarded \cup {ServiceOf[w]}
  /\ Goto(w, "select")
  /\ UNCHANGED <<table, stored, thread, locked, history, counters>>

\* Mutant of ResetDerivatives: the pages of the attempt before are left behind.
ResetKeepsPages(w) ==
  LET r == row[w]
  IN  /\ pc[w] = "reset"
      /\ embedding' = [embedding EXCEPT ![r] = FALSE]
      /\ IF r \in Present
         THEN /\ state' = [state EXCEPT ![r] = "registered"]
              /\ pageCount' = [pageCount EXCEPT ![r] = 0]
         ELSE UNCHANGED <<state, pageCount>>
      /\ contended' = [contended EXCEPT ![r] = Writers(r) # {}]
      /\ stuck' = stuck \ {r}
      /\ Goto(w, "mark")
      /\ UNCHANGED <<key, pages, stored, thread, locks, counters>>

\* reset_file_derivatives: one transaction.
ResetDerivatives(w) ==
  LET r == row[w]
  IN  /\ pc[w] = "reset"
      /\ pages' = [pages EXCEPT ![r] = {}]
      /\ embedding' = [embedding EXCEPT ![r] = FALSE]
      /\ IF r \in Present
         THEN /\ state' = [state EXCEPT ![r] = "registered"]
              /\ pageCount' = [pageCount EXCEPT ![r] = 0]
         ELSE UNCHANGED <<state, pageCount>>
      /\ contended' = [contended EXCEPT ![r] = Writers(r) # {}]
      /\ stuck' = stuck \ {r}
      /\ Goto(w, "mark")
      /\ UNCHANGED <<key, stored, thread, locks, counters>>

\* update_file_status: an UPDATE that finds no row is no error.
SetState(r, s) ==
  state' = IF r \in Present THEN [state EXCEPT ![r] = s] ELSE state
SetPageCount(r, n) ==
  pageCount' = IF r \in Present THEN [pageCount EXCEPT ![r] = n] ELSE pageCount

\* The last statement under the guard.
MarkProcessing(w) ==
  /\ pc[w] = "mark"
  /\ SetState(row[w], "processing")
  /\ SetPageCount(row[w], 0)
  /\ guarded' = guarded \ {ServiceOf[w]}
  /\ Goto(w, "upload")
  /\ UNCHANGED <<key, pages, embedding, stored, thread, locked, history, counters>>

\* Mutant of RegistrationFails: the guard is not given back.
RegistrationFailsGuarded(w) ==
  /\ stage[w] = "guard"
  /\ pc[w] \in {"select", "insert", "reset", "mark"}
  /\ Leave(w, "failed")
  /\ UNCHANGED <<table, stored, guarded, history, counters>>

\* An exception under the guard is outside the try block of _process_pdf.
RegistrationFails(w) ==
  /\ stage[w] = "guard"
  /\ pc[w] \in {"select", "insert", "reset", "mark"}
  /\ guarded' = guarded \ {ServiceOf[w]}
  /\ Leave(w, "failed")
  /\ UNCHANGED <<table, stored, history, counters>>

\* _upload_source_pdf_and_zip.
UploadSource(w) ==
  /\ pc[w] = "upload"
  /\ stored' = stored \cup {doc[w]}
  /\ Goto(w, "render")
  /\ UNCHANGED <<table, thread, locks, history, counters>>

\* render_pages and analyze_document agree on the number of pages.
Render(w) ==
  LET r == row[w]
  IN  /\ pc[w] = "render"
      /\ SetState(r, "processing")
      /\ SetPageCount(r, PagesOf[doc[w]])
      /\ page' = [page EXCEPT ![w] = 1]
      /\ Goto(w, "page")
      /\ UNCHANGED <<key, pages, embedding, stored, stage, doc, row, locks, history, counters>>

\* What add_page writes: OCR may find text on a page in one attempt and none in
\* the next.  A page without text is counted as blank and kept.
PageRow(w, text) == [number |-> page[w], by |-> w, text |-> text, embedded |-> FALSE]

\* add_page: the foreign key wants the row to be there.
AddPage(w) ==
  /\ pc[w] = "page"
  /\ page[w] <= PagesOf[doc[w]]
  /\ row[w] \in Present
  /\ pages' = [pages EXCEPT ![row[w]] = @ \cup {PageRow(w, TRUE)}]
  /\ Goto(w, "embed")
  /\ UNCHANGED <<state, key, pageCount, embedding, stored, thread, locks, history, counters>>

\* "if embedding_text": the loop goes on to the next page.
AddBlankPage(w) ==
  /\ pc[w] = "page"
  /\ page[w] <= PagesOf[doc[w]] /\ page[w] \in BlankPages[doc[w]]
  /\ row[w] \in Present
  /\ pages' = [pages EXCEPT ![row[w]] = @ \cup {PageRow(w, FALSE)}]
  /\ page' = [page EXCEPT ![w] = @ + 1]
  /\ Goto(w, "page")
  /\ UNCHANGED <<state, key, pageCount, embedding, stored, stage, doc, row, locks, history, counters>>

\* add_embedding: the foreign key wants the page to be there.
AddEmbedding(w) ==
  LET bare == PageRow(w, TRUE)
  IN  /\ pc[w] = "embed"
      /\ bare \in pages[row[w]]
      /\ pages' = [pages EXCEPT ![row[w]] =
                     (@ \ {bare}) \cup {[bare EXCEPT !.embedded = TRUE]}]
      /\ page' = [page EXCEPT ![w] = @ + 1]
      /\ Goto(w, "page")
      /\ UNCHANGED <<state, key, pageCount, embedding, stored, stage, doc, row, locks, history, counters>>

\* _finalize_document_rag: at least one page, and the row for the embedding.
Finalize(w) ==
  /\ pc[w] = "page"
  /\ page[w] > PagesOf[doc[w]]
  /\ pages[row[w]] # {}
  /\ embedding' = [embedding EXCEPT ![row[w]] = TRUE]
  /\ Goto(w, "finish")
  /\ UNCHANGED <<state, key, pageCount, pages, stored, thread, locks, history, counters>>

Complete(w) ==
  LET r == row[w]
  IN  /\ pc[w] = "finish"
      /\ SetState(r, "completed")
      /\ SetPageCount(r, PagesOf[doc[w]])
      /\ Leave(w, "done")
      /\ UNCHANGED <<key, pages, embedding, stored, guarded, history, counters>>

\* Any call in the try block raises: the network, a model, a foreign key.
StepFails(w) ==
  /\ pc[w] \in {"upload", "render", "page", "embed", "finish"}
  /\ Goto(w, "failing")
  /\ UNCHANGED <<table, stored, thread, locks, history, counters>>

\* Mutant of WriteFailure: the frontend's name of the state is written.
WriteFailureAsError(w) ==
  /\ pc[w] = "failing"
  /\ SetState(row[w], "error")
  /\ Leave(w, "failed")
  /\ UNCHANGED <<key, pageCount, pages, embedding, stored, guarded, history, counters>>

WriteFailure(w) ==
  /\ pc[w] = "failing"
  /\ SetState(row[w], "failed")
  /\ Leave(w, "failed")
  /\ UNCHANGED <<key, pageCount, pages, embedding, stored, guarded, history, counters>>

\* The write of the failed status raises as well, after its three attempts.
LoseFailure(w) ==
  /\ pc[w] = "failing"
  /\ lost < MaxLost
  /\ lost' = lost + 1
  /\ stuck' = stuck \cup {row[w]}
  /\ Leave(w, "failed")
  /\ UNCHANGED <<table, stored, guarded, contended, deletes, restarts>>

-----------------------------------------------------------------------------
\* Mutant of Restart: the rows that wait in the queue are closed, the others not.
RestartClosesQueue(recovered) ==
  /\ restarts < MaxRestarts
  /\ restarts' = restarts + 1
  /\ state' = [r \in Rows |-> IF state[r] = "registered" /\ recovered THEN "failed" ELSE state[r]]
  /\ stuck' = IF recovered THEN {} ELSE {r \in Rows : state[r] = "processing"}
  /\ pc' = [w \in Workers |-> IF pc[w] \in {"idle", "done", "failed"} THEN pc[w] ELSE "lost"]
  /\ locked' = {}
  /\ guarded' = {}
  /\ row' = [w \in Workers |-> 0]
  /\ page' = [w \in Workers |-> 1]
  /\ UNCHANGED <<key, pageCount, pages, embedding, stored, stage, doc, contended, deletes, lost>>

\* The process dies and starts again.  mark_incomplete_files_as_failed closes
\* the processing rows; its own failure does not keep the API from starting.
Restart(recovered) ==
  LET open == {r \in Rows : state[r] = "processing"}
  IN  /\ restarts < MaxRestarts
      /\ restarts' = restarts + 1
      /\ state' = [r \in Rows |-> IF r \in open /\ recovered THEN "failed" ELSE state[r]]
      /\ stuck' = IF recovered THEN {} ELSE open
      /\ pc' = [w \in Workers |-> IF pc[w] \in {"idle", "done", "failed"} THEN pc[w] ELSE "lost"]
      /\ locked' = {}
      /\ guarded' = {}
      /\ row' = [w \in Workers |-> 0]
      /\ page' = [w \in Workers |-> 1]
      /\ UNCHANGED <<key, pageCount, pages, embedding, stored, stage, doc, contended, deletes, lost>>

\* The steps of the thread of worker w.
Step(w) ==
  \/ SelectRow(w) \/ InsertRow(w) \/ SkipRegistration(w) \/ PreRegistrationFails(w)
  \/ LockPath(w) \/ RejectPdf(w) \/ TakeGuard(w)
  \/ ResetDerivatives(w) \/ MarkProcessing(w) \/ RegistrationFails(w)
  \/ UploadSource(w) \/ Render(w) \/ AddPage(w) \/ AddBlankPage(w) \/ AddEmbedding(w) \/ Finalize(w)
  \/ Complete(w) \/ StepFails(w) \/ WriteFailure(w) \/ LoseFailure(w)

Next ==
  \/ \E w \in Uploads : Submit(w) \/ SubmitReplacing(w)
  \/ \E r \in Rows : Delete(r)
  \/ \E w \in Retries, r \in Rows : Retry(w, r) \/ RetryUnavailable(w, r)
  \/ \E w \in Workers : Step(w)
  \/ \E recovered \in BOOLEAN : Restart(recovered)

Spec == Init /\ [][Next]_vars

\* The threads are scheduled and every call they make returns or raises.
FairSpec == Spec /\ \A w \in Workers : WF_vars(Step(w))

-----------------------------------------------------------------------------
States == {"unused", "registered", "processing", "completed", "failed", "deleted"}
Ended == {"done", "failed", "lost"}
Page == [number : Nat, by : Workers, text : BOOLEAN, embedded : BOOLEAN]

TypeOK ==
  /\ state \in [Rows -> States]
  /\ key \in [Rows -> Docs \cup {NoDoc}]
  /\ pageCount \in [Rows -> Nat]
  /\ pages \in [Rows -> SUBSET Page]
  /\ embedding \in [Rows -> BOOLEAN]
  /\ stored \subseteq Docs
  /\ pc \in [Workers -> {"idle", "select", "insert", "wait", "check", "reset"}
                        \cup WritingPcs \cup Ended]
  /\ stage \in [Workers -> {"queue", "document", "guard"}]
  /\ doc \in [Workers -> Docs \cup {NoDoc}]
  /\ row \in [Workers -> Rows \cup {0}]
  /\ page \in [Workers -> Nat]
  /\ locked \subseteq Services \X Paths
  /\ guarded \subseteq Services
  /\ contended \in [Rows -> BOOLEAN]
  /\ stuck \subseteq Rows
  /\ deletes \in 0..MaxDeletes /\ restarts \in 0..MaxRestarts /\ lost \in 0..MaxLost

\* What retrieval needs of a document: every page once, a page with text found by
\* the embedding of its text, the embedding of the file, the page count, and the
\* PDF itself.  A blank page has nothing to be found by but the file it is in.
Ready(r) ==
  /\ \A n \in 1..PagesOf[key[r]] :
       \E p \in pages[r] : /\ p.number = n /\ (p.text => p.embedded)
                          /\ \A q \in pages[r] : q.number = n => q = p
  /\ embedding[r]
  /\ pageCount[r] = PagesOf[key[r]]
  /\ key[r] \in stored

\* A completed row is whole, whatever was left behind by earlier attempts that
\* failed or died half way, as long as no two workers wrote to it at once.
CompletedIsReady == \A r \in Rows : state[r] = "completed" /\ ~contended[r] => Ready(r)

\* What the frontend says of the documents it lists (components/pages/Home.tsx:122):
\* "Completed documents are ready for retrieval across chat and RAG".  The moments in
\* which some worker is still writing to the row are excused.
CompletedDocumentsAreReady ==
  \A r \in Rows : state[r] = "completed" /\ Writers(r) = {} => Ready(r)

\* Two workers of one service with the same PDF never write to one row at once:
\* _archive_execution_slot covers the whole of _process_pdf, its failures too.
OneWriterPerPath ==
  \A r \in Rows : \A v, w \in Writers(r) : v # w => Lock(v) # Lock(w)

\* A processing row is worked on by some thread, or its last worker could not
\* write the outcome, or the last start could not recover it: nothing else
\* leaves a document processing for ever.
ProcessingHasWorker ==
  \A r \in Rows : state[r] = "processing" => Writers(r) # {} \/ r \in stuck

\* The thread is in _process_pdf, and under the registration guard.
HoldsGuard(w) == pc[w] \in {"select", "insert", "reset", "mark"} /\ stage[w] = "guard"
HoldsLock(w) == pc[w] \in {"check"} \cup WritingPcs \/ HoldsGuard(w)

\* Every lock that is taken is held by one thread that is under way: none leaks
\* on any failure, none is taken twice.
LocksAreHeld ==
  /\ \A l \in locked : \E w \in Workers : Lock(w) = l /\ HoldsLock(w)
  /\ \A s \in guarded : \E w \in Workers : ServiceOf[w] = s /\ HoldsGuard(w)

\* Every document that was submitted or retried is finished with: no thread
\* waits for ever on the lock of a path or on the registration guard.
WorkersEnd == \A w \in Workers : pc[w] = "select" ~> pc[w] \in Ended

=============================================================================
