----------------------------- MODULE MetadataFacts -----------------------------
(***************************************************************************)
(* What is known of a question before a page is read (the fact resolver,   *)
(* rag/facts_query_service.py, and the routes of agent/nodes.py).  Facts   *)
(* may narrow the files down, give context to an answer, or be the answer. *)
(* The resolver goes by terms of the question and by the texts of metadata *)
(* rows; what the rows say is any of what they could.                      *)
(***************************************************************************)
EXTENDS QuestionScope, QuestionClass

\* The files found, whether metadata was used and gives context, an answer, or
\* has to be followed by documents, the route if it is settled, the archives found,
\* the files whose rows are quoted, and whether `ids` enrich the context yet.
NoFacts ==
  [files |-> {}, meta |-> FALSE, context |-> FALSE, answer |-> FALSE, documents |-> FALSE,
   route |-> "", archives |-> {}, quoted |-> {}, enrich |-> FALSE, ids |-> {}]

ArchivesOf(ids) == {ArchiveOf[f] : f \in ids}
Enriched(facts, ids) == [facts EXCEPT !.enrich = TRUE, !.ids = ids]

Class(q) == Classify(q.asks)
Asks(q, term) == term \in q.asks
Requested(q) == q.metadataFirst \/ q.fields

\* _filter_metadata_rows_for_explicit_archive_scope: the archives of the request, of
\* the scope, or else of the text.
ExplicitRows(q, scope, rows) ==
  LET archives == IF q.hard \cup scope.archives # {} THEN q.hard \cup scope.archives ELSE q.archives
  IN  IF archives = {} THEN rows ELSE {f \in rows : ArchiveOf[f] \in archives}

-----------------------------------------------------------------------------
(* Questions of one kind                                                    *)

\* The question looks for documents by their content: metadata stays out.
FilteredFacts(ids) == {[NoFacts EXCEPT !.files = ids, !.documents = TRUE, !.route = "documents"]}

\* _resolve_inventory: the list of the files, which may be the answer. Without a
\* list there is only an answer, which is dropped for want of context.
InventoryFacts(q, ids) ==
  LET listed == Within(ids)
      found == [NoFacts EXCEPT !.files = IF listed = {} THEN ids ELSE listed,
                               !.context = TRUE, !.quoted = listed]
  IN  {[NoFacts EXCEPT !.answer = TRUE],
       IF listed # {} /\ Asks(q, "reasoning") THEN [found EXCEPT !.documents = TRUE]
       ELSE [found EXCEPT !.answer = TRUE]}

\* The answers computed over rows, of which the question may filter some.
Computed(rows) ==
  {[NoFacts EXCEPT !.files = filtered, !.meta = TRUE, !.context = TRUE, !.answer = TRUE,
                   !.archives = ArchivesOf(rows), !.quoted = rows] : filtered \in SUBSET rows}

When(condition, outcomes) == IF condition THEN outcomes ELSE {}

\* _resolve_analytics, which reads the rows again.
AnalyticsFacts(q, ids) ==
  {Enriched(NoFacts, ids)}
    \cup When(Asks(q, "counts"), UNION {Computed(rows) : rows \in MetadataEntries(ids) \ {{}}})

-----------------------------------------------------------------------------
(* Metadata of several archives: _resolve_metadata_comparison               *)

\* Questions that the documents have to answer.
DocumentCentric(q) == Class(q) \in {"exhaustive_synthesis", "versioned", "visual_consistency"}
AsksEvidence(q) == Asks(q, "evidence") \/ Asks(q, "source content")

\* _expand_document_evidence_file_ids: the files of the archives of the rows.
DocumentScope(ids, rows) ==
  LET found == {f \in Accessible(ids) : ArchiveOf[f] \in ArchivesOf(rows)}
  IN  IF found = {} THEN rows ELSE found

\* The answer is in the rows; it may list the files of their archives.
FromRows(rows, ids) ==
  [NoFacts EXCEPT !.files = rows, !.meta = TRUE, !.context = TRUE, !.answer = TRUE,
                  !.route = "metadata", !.archives = ArchivesOf(rows),
                  !.quoted = rows \cup Within(ids)]

\* The rows give the scope and the context, the documents the answer.
FromBoth(rows, ids, context) ==
  [NoFacts EXCEPT !.files = ids, !.meta = TRUE, !.context = context, !.documents = TRUE,
                  !.route = "hybrid", !.archives = ArchivesOf(rows),
                  !.quoted = IF context THEN rows ELSE {}]

Aggregated(q) ==
  /\ Asks(q, "counts") /\ ~DocumentCentric(q)
  /\ q.fields => Asks(q, "quantified") \/ Asks(q, "pattern")

\* The outcomes when fields of the metadata are named or not: all but the first are
\* only met when the values of the rows allow it.
ComparisonFacts(q, ids, rows, named) ==
  LET scope == DocumentScope(IF ids = {} THEN rows ELSE ids, rows)
      differences == Asks(q, "compare") /\ Cardinality(rows) >= 2
      answered == ~DocumentCentric(q) /\ named /\ (Asks(q, "pattern") \/ ~AsksEvidence(q))
  IN  {Enriched(FromBoth(rows, scope, named), scope)}
        \cup When(Aggregated(q), Computed(rows))
        \cup When(~Asks(q, "source content"),
                  When(answered \/ (differences /\ ~AsksEvidence(q)), {FromRows(rows, scope)})
                    \cup When(differences /\ AsksEvidence(q), {FromBoth(rows, scope, TRUE)}))

-----------------------------------------------------------------------------
\* resolve, for the rows it has loaded. Facts proper are kept of no document here:
\* a temporal question finds none, and a versioned or exhaustive one no group.
Facts(q, ids, rows) ==
  LET known == IF rows = {} THEN ids ELSE rows
      comparisons(named) ==
        IF rows # {} /\ (Class(q) = "metadata_comparison" \/ Requested(q) \/ named)
        THEN ComparisonFacts(q, ids, rows, named)
        ELSE CASE Class(q) = "analytics" -> AnalyticsFacts(q, known)
               [] Class(q) = "temporal" -> {NoFacts}
               [] Class(q) \in {"versioned", "exhaustive_synthesis"} ->
                    {Enriched([NoFacts EXCEPT !.files = ids, !.context = ids # {}], ids)}
               [] OTHER -> {Enriched(NoFacts, ids)}
  IN  IF Asks(q, "filtered") THEN FilteredFacts(ids)
      ELSE IF Class(q) = "inventory" \/ Asks(q, "document list") THEN InventoryFacts(q, ids)
      ELSE UNION {comparisons(named) : named \in IF q.fields THEN {TRUE} ELSE {FALSE, rows # {}}}

\* _append_archive_metadata_context: metadata and a list of the files for context.
Enrich(facts) ==
  LET listed == Within(facts.ids)
      without == [facts EXCEPT !.enrich = FALSE, !.ids = {}]
  IN  IF listed = {} THEN {without}
      ELSE {[without EXCEPT !.meta = TRUE, !.context = TRUE, !.quoted = @ \cup listed,
                            !.archives = IF @ = {} THEN ArchivesOf(rows) ELSE @] :
              rows \in MetadataEntries(facts.ids)}

\* Mutant of Narrowed: what the resolver finds replaces the files.
Replaced(facts, ids) == facts.files

\* Without files of the resolver those of the scope stay.
Narrowed(facts, ids) == IF facts.files = {} THEN ids ELSE facts.files

\* _resolve_answerability_route, and decide_answerability where that leaves it open.
Route(facts) ==
  CASE facts.route # "" -> facts.route
    [] facts.route = "" /\ facts.meta /\ facts.documents -> "hybrid"
    [] facts.route = "" /\ ~facts.meta /\ facts.documents -> "documents"
    [] facts.route = "" /\ ~facts.documents /\ (facts.meta \/ facts.context) ->
         IF facts.answer THEN "metadata" ELSE "hybrid"
    [] OTHER -> "documents"
=============================================================================
