---------------------------- MODULE QuestionPipeline ----------------------------
(***************************************************************************)
(* A document question on its way through the nodes of agent/nodes.py:     *)
(* its scope, what metadata knows of it, the pages that are retrieved, and *)
(* the evidence of its answer.  The library changes between any two steps. *)
(* A step stands for the listings of a part of a node that follow each     *)
(* other, where each checks access for itself and only their results meet: *)
(* RestrictFiles for those of the prefilter, of names and of archives,     *)
(* SearchPages for the dense, the image and the lexical search,            *)
(* RankEvidence for those of the expansion and of the adjacent pages.      *)
(***************************************************************************)
EXTENDS MetadataFacts, EvidenceSelection

CONSTANTS
  Questions,    \* the questions that are asked
  Limit         \* the limits of the code and of its settings

LimitNames ==
  {"top",          \* top_k of the request
   "scoped",       \* rag.retrieval.doc_shortlist_scoped, 12
   "global",       \* rag.retrieval.doc_shortlist_global, 20
   "archives",     \* files of archives that are not shortlisted, 24
   "coverage",     \* files, or archives, that each get pages of their own, 24
   "pages",        \* rag.retrieval.full_document_page_limit, 80
   "pool",         \* rag.retrieval.max_mmr_pool
   "rerank",       \* rag.retrieval.rerank_scoped and rerank_global, 24 and 32
   "compared",     \* candidates of a comparison that are not reranked, 12
   "few",          \* candidates of a scope that are not reranked, 15
   "answer"}       \* answer_max_evidence

ASSUME LimitAssumption ==
  /\ Limit \in [LimitNames -> Nat]
  /\ 0 \notin {Limit[x] : x \in {"top", "scoped", "global", "pages", "pool", "rerank", "answer"}}

ASSUME QuestionAssumption ==
  \A q \in Questions : q.quota \in Nat /\ q.perDocument \in BOOLEAN

VARIABLES
  question, pc,
  scope,        \* the resolved scope
  rows,         \* the metadata rows the resolver has loaded, by their files
  facts,        \* its resolution
  search,       \* what the retrieval is restricted to, and its limits
  found,        \* the pages of the searches: as ranked, and as the pool
  evidence,     \* the pages the answer is given
  quoted        \* the files whose rows it is given

run == <<scope, rows, facts, search, found, evidence, quoted>>
vars == <<question, pc, run, library>>

NoSearch == [files |-> {}, origin |-> "global", priority |-> {}, order |-> <<>>, mapped |-> {},
             named |-> {}, docs |-> <<>>, top |-> 0, quota |-> 0, perDocument |-> FALSE]
NothingFound == [ranked |-> <<>>, pool |-> <<>>]

Init ==
  /\ InitLibrary
  /\ question \in Questions
  /\ pc = "idle"
  /\ scope = Global /\ rows = {} /\ facts = NoFacts /\ search = NoSearch
  /\ found = NothingFound /\ evidence = <<>> /\ quoted = {}

Goto(step) == pc' = step /\ UNCHANGED question
Fail == Goto("failed") /\ UNCHANGED run
Ids == Narrowed(facts, scope.files)

Ask ==
  /\ pc = "idle"
  /\ Goto("scope")
  /\ seen' = Visible
  /\ UNCHANGED <<run, present, shared, described, changes>>

-----------------------------------------------------------------------------
(* resolve_scope                                                            *)

Scoped(s) ==
  /\ scope' = s
  /\ Goto("load")
  /\ UNCHANGED <<rows, facts, search, found, evidence, quoted>>

\* Files were requested: those that are accessible are kept for the next step.
FilterRequested ==
  LET ids == Accessible(question.requested)
  IN  /\ pc = "scope" /\ question.requested # {}
      /\ IF ids = {} THEN Fail
         ELSE /\ scope' = Scope(ids, "manual", {})
              /\ Goto("narrow")
              /\ UNCHANGED <<rows, facts, search, found, evidence, quoted>>

NarrowRequested ==
  LET ids == Named(question, scope.files) \cap scope.files
  IN  /\ pc = "narrow"
      /\ IF Narrowing(question) = "nothing" THEN Scoped(scope)
         ELSE IF Unknown(question) \/ ids = {} THEN Fail
         ELSE Scoped(NamedScope(question, ids))

\* Without a request: a follow-up, what the question names, or everything.
InferScope ==
  LET ids == Named(question, {})
  IN  /\ pc = "scope" /\ question.requested = {}
      /\ IF FollowsUp(question) THEN Scoped(ConversationScope(question))
         ELSE IF Narrowing(question) = "nothing" THEN Scoped(Global)
         ELSE IF Unknown(question) \/ ids = {} THEN Fail
         ELSE Scoped(NamedScope(question, ids))

-----------------------------------------------------------------------------
(* resolve_facts                                                            *)

\* A follow-up goes to the documents of its conversation at once.
ReusesConversation ==
  /\ scope.origin = "conversation"
  /\ ~Requested(question)
  /\ Class(question) \notin {"metadata_comparison", "analytics"}

ReuseConversation ==
  /\ pc = "load" /\ ReusesConversation
  /\ facts' = [NoFacts EXCEPT !.route = "documents", !.archives = scope.archives]
  /\ Goto("route")
  /\ UNCHANGED <<scope, rows, search, found, evidence, quoted>>

\* _load_archive_metadata_rows, which finds no rows when its listing fails. Metadata
\* that was asked for has to be there.
LoadMetadata ==
  /\ pc = "load" /\ ~ReusesConversation
  /\ \E entries \in MetadataEntries(scope.files) \cup {{}} :
       LET loaded == ExplicitRows(question, scope, entries)
       IN  IF Requested(question) /\ loaded = {} THEN Fail
           ELSE /\ rows' = loaded
                /\ Goto("facts")
                /\ UNCHANGED <<scope, facts, search, found, evidence, quoted>>

ResolveFacts ==
  /\ pc = "facts"
  /\ facts' \in Facts(question, scope.files, rows)
  /\ Goto("enrich")
  /\ UNCHANGED <<scope, rows, search, found, evidence, quoted>>

\* The context of the facts, without more of it when its listings fail; archives of
\* the scope stand in for archives of the facts.
EnrichFacts ==
  /\ pc = "enrich"
  /\ \E enriched \in {[facts EXCEPT !.enrich = FALSE, !.ids = {}]}
                       \cup When(facts.enrich, Enrich(facts)) :
       facts' = [enriched EXCEPT !.archives = IF @ = {} THEN scope.archives ELSE @]
  /\ Goto("route")
  /\ UNCHANGED <<scope, rows, search, found, evidence, quoted>>

\* decide_answerability: metadata is the answer, or documents are retrieved.
DecideAnswerability ==
  /\ pc = "route"
  /\ quoted' = facts.quoted
  /\ Goto(IF Route(facts) = "metadata" THEN "synthesize" ELSE "restrict")
  /\ UNCHANGED <<scope, rows, facts, search, found, evidence>>

-----------------------------------------------------------------------------
(* retrieve_candidates                                                      *)

\* The files or archives of the scope are few enough to give each its pages.
Covered ==
  LET items == IF Ids # {} THEN Cardinality(Ids) ELSE Cardinality(facts.archives)
  IN  /\ Route(facts) = "hybrid" \/ scope.origin = "conversation"
      /\ items \in 1..Limit["coverage"]

\* The pages each document is due, and whether the answer goes by documents
\* (_resolve_retrieval_controls, and questions for representative details).
Quota ==
  Max({question.quota, IF Covered \/ Asks(question, "representative") THEN 2 ELSE 0})
PerDocument == question.perDocument \/ Covered

\* A follow-up is searched for together with the turn before it.
SearchedNames ==
  question.names \cup IF scope.origin = "conversation" /\ scope.archives # {} THEN question.heard ELSE {}

\* The archives to look for: those of the facts, or else of the text.
ExplicitArchives == IF facts.archives # {} THEN facts.archives ELSE question.archives

\* Metadata, names and archives restrict the files. The prefilter proposes some of
\* the files with metadata; names are looked up among the files so far; archives are
\* those of the files, or give the files when there are none.
RestrictFiles ==
  /\ pc = "restrict"
  /\ \E P \in IF ExplicitArchives # {} THEN {{}} ELSE SUBSET DescribedFiles(Ids) :
       LET restricts == P # {} /\ (Ids # {} \/ Class(question) = "metadata_comparison"
                                     \/ scope.origin # "global")
           listed == IF restricts THEN P ELSE Ids
           named == IF SearchedNames = {} THEN {} ELSE WithNames(SearchedNames, listed)
           base == IF named # {} THEN named ELSE listed
           wanted == IF base # {} THEN base ELSE InArchives(ExplicitArchives)
           mapped == IF ExplicitArchives = {} THEN {} ELSE Accessible(wanted)
           files == IF base = {} /\ ExplicitArchives # {} THEN wanted ELSE base
           whole == named # {} /\ Asks(question, "whole document")
           quota == Max({Quota, IF named # {} THEN 1 ELSE 0, IF whole THEN Limit["pages"] ELSE 0})
       IN  \E order \in SetToSeqs(ExplicitArchives \cap ArchivesOf(mapped)) :
             search' = [NoSearch EXCEPT
               !.files = files, !.priority = P, !.order = order, !.mapped = mapped, !.named = named,
               !.origin = IF Ids = {} /\ (restricts \/ (base = {} /\ files # {})) THEN "metadata"
                          ELSE scope.origin,
               !.quota = quota, !.perDocument = PerDocument,
               !.top = Max({Limit["top"], IF whole THEN Cardinality(named) * quota ELSE 0})]
  /\ Goto("shortlist")
  /\ UNCHANGED <<scope, rows, facts, found, evidence, quoted>>

\* The limit goes by the origin of the scope before files were restricted.
ShortlistLimit ==
  IF Class(question) = "analytics" THEN 0
  ELSE IF scope.origin # "global" THEN Limit["scoped"] ELSE Limit["global"]

\* _shortlist_documents, unless there are few files of archives.
ShortlistDocuments ==
  LET few == /\ search.order # <<>> /\ search.files # {}
             /\ Cardinality(search.files) <= Max({2 * ShortlistLimit, Limit["archives"]})
  IN  /\ pc = "shortlist"
      /\ \E short \in IF few THEN {InOrder(search.files)}
                      ELSE Shortlists(search.files, search.priority, ShortlistLimit) :
           search' = [search EXCEPT !.docs =
             IF few \/ search.order = <<>> THEN short
             ELSE Rebalanced(Distinct(short \o InOrder(search.files)), search.order, search.mapped,
                             ShortlistLimit)]
      /\ Goto("search")
      /\ UNCHANGED <<scope, rows, facts, found, evidence, quoted>>

\* The searches for pages, fused and diversified: the first page stays the first.
SearchPages ==
  LET pages == PagesIn(Range(search.docs))
      size == Min({3 * search.top, Max({Limit["pool"], search.top})})
  IN  /\ pc = "search"
      /\ \E ranked \in SetToSeqs(pages) :
           \E pool \in {s \in Rankings(pages, size) : s = <<>> \/ s[1] = ranked[1]} :
             found' = [ranked |-> ranked, pool |-> pool]
      /\ Goto("rank")
      /\ UNCHANGED <<scope, rows, facts, search, evidence, quoted>>

-----------------------------------------------------------------------------
(* The ranking of the evidence                                              *)

Desired ==
  IF search.perDocument THEN Max({search.top, Len(search.docs) * search.quota}) ELSE search.top

\* The last searches: pages of each document, and adjacent pages, without them when
\* their listing fails. Archives have their best pages first.
FinalPool(expansion, adjacent, leaders) ==
  Distinct(leaders \o Filled(found.pool, search.docs, found.ranked \o expansion, search.quota) \o adjacent)

\* Few candidates of a comparison, or of a scope, are not ranked again.
KeepsRanking(candidates) ==
  \/ candidates = <<>>
  \/ Class(question) = "metadata_comparison" /\ Len(candidates) <= Limit["compared"]
  \/ search.origin # "global" /\ Len(candidates) <= Max({Limit["few"], 3 * Desired})

\* The first pages of a ranking, with those that documents are due.
Limited(s, pool, adjacent) ==
  IF search.docs = <<>> \/ search.quota = 0 THEN Take(s, Desired)
  ELSE QuotaKept(Take(s, Desired), pool, search.docs, adjacent, search.quota, Desired)

\* The same with those that archives are due, the best of them.
Due(s, best, pool, adjacent) ==
  IF search.order = <<>> THEN Limited(s, pool, adjacent)
  ELSE Prioritised(best, Limited(s, pool, adjacent), pool, Desired)

\* The evidence of a pool: its first pages as they are, or as they are ranked again.
Selections(pool, adjacent, leaders) ==
  LET candidates == Take(pool, Max({Limit["rerank"], Desired}))
  IN  IF KeepsRanking(candidates) THEN {Due(candidates, leaders, pool, adjacent)}
      ELSE {Due(s, best, pool, adjacent) :
              s \in SetToSeqs(Range(candidates)), best \in Leaders(pool, search.order, search.mapped)}

\* A whole document is put in the order of its pages.
Arranged(s) ==
  IF search.named # {} /\ Asks(question, "whole document")
  THEN InPageOrder(Range(s)) ELSE s

RankEvidence ==
  LET due == IF search.docs = <<>> \/ search.quota = 0 THEN {}
             ELSE PagesIn(Range(search.docs)) \ Range(found.ranked)
      order == search.order
  IN  /\ pc = "rank"
      /\ \E expansion \in SetToSeqs(due) :
           LET filled == FinalPool(expansion, <<>>, <<>>)
               neighbours == Neighbours(filled, Range(search.docs))
           IN  \E adjacent \in {{}} \cup When(Asks(question, "representative"), {neighbours}) :
                 LET near == InPageOrder(adjacent)
                 IN  \E leaders \in Leaders(filled \o near, order, search.mapped) :
                       LET pool == FinalPool(expansion, near, leaders)
                       IN  \E s \in Selections(pool, adjacent, leaders) :
                             /\ evidence' = Arranged(s)
                             /\ found' = [NothingFound EXCEPT !.pool = pool]
      /\ Goto("synthesize")
      /\ UNCHANGED <<scope, rows, facts, search, quoted>>

\* synthesize_document_answer: all the evidence of documents in turn or of a whole
\* document, otherwise the first of it.
SynthesizeAnswer ==
  LET whole == Asks(question, "whole document") /\ Cardinality({FileOf(p) : p \in Range(evidence)}) <= 1
  IN  /\ pc = "synthesize"
      /\ evidence' = IF search.perDocument \/ whole THEN evidence ELSE Take(evidence, Limit["answer"])
      /\ Goto("answered")
      /\ UNCHANGED <<scope, rows, facts, search, found, quoted>>

InFlight == pc \notin {"idle", "failed", "answered"}

\* A listing, a search or a model raises.
NodeFails ==
  /\ InFlight
  /\ Fail

Step ==
  \/ FilterRequested \/ NarrowRequested \/ InferScope
  \/ ReuseConversation \/ LoadMetadata \/ ResolveFacts \/ EnrichFacts \/ DecideAnswerability
  \/ RestrictFiles \/ ShortlistDocuments \/ SearchPages \/ RankEvidence \/ SynthesizeAnswer
  \/ NodeFails

Next ==
  \/ Ask
  \/ Step /\ UNCHANGED library
  \/ InFlight /\ ChangeLibrary /\ UNCHANGED <<question, pc, run>>

Spec == Init /\ [][Next]_vars

-----------------------------------------------------------------------------
Pages == UNION {{<<f, n>> : n \in 1..PagesOf[f]} : f \in Files}

\* The archives that are known, and those of the turns before.
Slugs == Archives \cup UNION {q.conversationArchives : q \in Questions}
Steps == {"scope", "narrow", "load", "facts", "enrich", "route", "restrict", "shortlist", "search",
          "rank", "synthesize"}

\* No page is evidence twice, or a candidate twice, however it was found.
TypeOK ==
  /\ pc \in Steps \cup {"idle", "failed", "answered"}
  /\ scope \in Scopes(Slugs)
  /\ rows \subseteq Files /\ facts.files \subseteq Files /\ quoted \subseteq Files
  /\ Range(search.docs) \subseteq Files /\ IsInjective(search.docs)
  /\ \A s \in {found.ranked, found.pool, evidence} : Range(s) \subseteq Pages /\ IsInjective(s)
  /\ present \subseteq Files /\ shared \subseteq present /\ described \subseteq MetadataKeys
  /\ seen \subseteq Files /\ changes \in 0..MaxChanges

\* A question about some files is answered from these files: an empty list of ids,
\* which leaves a search unrestricted, never takes their place, whatever is deleted
\* or withdrawn, and wherever nothing is found, on the way.
EvidenceInScope ==
  scope.origin # "global" =>
    {FileOf(page) : page \in Range(evidence)} \cup quoted \subseteq scope.files

\* Pages and metadata are only given to an answer of files that the user could see at
\* some moment since asking.
EvidenceWasVisible ==
  {FileOf(page) : page \in Range(evidence)} \cup facts.quoted \subseteq seen

\* Every archive that is looked for, and every document when the answer goes by
\* documents, has a page in the evidence when it has one among the candidates and
\* there is room for all of them; with archives to look for and candidates that are
\* ranked again, a document may lose its page to the best one of an archive.
ScopeIsHeard ==
  LET named == {FileOf(page) : page \in Range(evidence)}
      candidates == {FileOf(page) : page \in Range(found.pool)}
  IN  pc = "synthesize" =>
        /\ Len(search.order) <= Desired =>
             Range(Heard(found.pool, search.order, search.mapped))
               \subseteq Range(Heard(evidence, search.order, search.mapped))
        /\ search.perDocument /\ search.quota > 0 /\ search.order = <<>> =>
             Range(search.docs) \cap candidates \subseteq named
=============================================================================
