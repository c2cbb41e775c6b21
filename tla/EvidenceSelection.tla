--------------------------- MODULE EvidenceSelection ---------------------------
(***************************************************************************)
(* Which pages become evidence (rag/retrieval/query_service.py): the pages *)
(* a search has found are ranked, and then documents and archives get the  *)
(* pages they are due.  A page is <<file, number>>, a ranking a sequence   *)
(* of pages; what the scores say of pages is any ranking of them.          *)
(***************************************************************************)
EXTENDS Library

FileOf(page) == page[1]
NumberOf(page) == page[2]
ArchiveOfPage(page) == ArchiveOf[FileOf(page)]

-----------------------------------------------------------------------------
(* Lists.  What a loop of the code appends is described by its places, so  *)
(* that lists can be reasoned about.                                       *)

\* S in the order R, a set of pairs: n elements come before the one at place n + 1.
SortedBy(S, R) ==
  [i \in 1..Cardinality(S) |-> CHOOSE x \in S : Cardinality({y \in S : <<y, x>> \in R}) = i - 1]

InOrder(ids) == SortedBy(ids, {p \in ids \X ids : p[1] < p[2]})

\* The order of pairs by what comes first in them.
Lexicographic(S) ==
  {p \in S \X S : p[1][1] < p[2][1] \/ (p[1][1] = p[2][1] /\ p[1][2] < p[2][2])}

Take(s, n) == SubSeq(s, 1, Min({n, Len(s)}))
At(s, places) == [k \in 1..Cardinality(places) |-> s[InOrder(places)[k]]]
Distinct(s) == At(s, {i \in DOMAIN s : \A j \in 1..(i - 1) : s[j] # s[i]})

\* The lists of parts, one after the other.
Joined(parts) ==
  LET places == UNION {{<<d, i>> : i \in DOMAIN parts[d]} : d \in DOMAIN parts}
      order == SortedBy(places, Lexicographic(places))
  IN  [k \in DOMAIN order |-> parts[order[k][1]][order[k][2]]]

InPageOrder(pages) == SortedBy(pages, Lexicographic(pages))
PlacesOf(s, f) == {i \in DOMAIN s : FileOf(s[i]) = f}

\* The rankings of n elements of S, of all of them when there are fewer.
Rankings(S, n) == UNION {SetToSeqs(R) : R \in kSubset(Min({n, Cardinality(S)}), S)}

-----------------------------------------------------------------------------
(* Documents                                                                *)

\* _shortlist_documents: the files of the prefilter first, then those of a small
\* base, or those the search for documents ranks highest.
Shortlists(base, priority, limit) ==
  LET preferred == InOrder(IF base = {} THEN priority ELSE priority \cap base)
      all == Distinct(preferred \o InOrder(base))
      cut(ranking) == Take(Distinct(preferred \o ranking), limit)
  IN  IF limit = 0 THEN {all}
      ELSE IF base # {} /\ Cardinality(base) <= limit THEN {Take(all, limit)}
      ELSE {IF cut(ranking) = <<>> THEN InOrder(base) ELSE cut(ranking) :
              ranking \in Rankings({f \in Within(base) : PagesOf[f] > 0}, limit)}

\* _rebalance_file_ids_by_archive_scope: the first file of each archive, in the order
\* of the archives, then the second of each, and so on; other files follow.
Rebalanced(ranked, order, mapped, limit) ==
  LET known(f) == f \in mapped /\ ArchiveOf[f] \in Range(order)
      round(i) == Cardinality({j \in 1..i : known(ranked[j]) /\ ArchiveOf[ranked[j]] = ArchiveOf[ranked[i]]})
      place(i) == CHOOSE k \in DOMAIN order : order[k] = ArchiveOf[ranked[i]]
      before(i, j) == round(i) < round(j) \/ (round(i) = round(j) /\ place(i) < place(j))
      mine == {i \in DOMAIN ranked : known(ranked[i])}
      turns == SortedBy(mine, {p \in mine \X mine : before(p[1], p[2])})
  IN  Take([i \in DOMAIN turns |-> ranked[turns[i]]] \o At(ranked, DOMAIN ranked \ mine), Max({1, limit}))

-----------------------------------------------------------------------------
(* Pages                                                                    *)

\* The archives, in their order, that have a mapped page in s.
Heard(s, order, mapped) ==
  At(order, {i \in DOMAIN order :
               \E page \in Range(s) : FileOf(page) \in mapped /\ ArchiveOfPage(page) = order[i]})

\* The best page of each of these archives, whichever the scores make it.
Leaders(s, order, mapped) ==
  LET heard == Heard(s, order, mapped)
  IN  {best \in [DOMAIN heard -> {page \in Range(s) : FileOf(page) \in mapped}] :
         \A i \in DOMAIN heard : ArchiveOfPage(best[i]) = heard[i]}

\* The pages of a document that are not in s yet.
Missing(s, from, f) == Distinct(At(from, {i \in PlacesOf(from, f) : from[i] \notin Range(s)}))

\* Mutant of Filled: pages that are there already count as pages that are missing.
FilledTwice(s, docs, from, quota) ==
  s \o Joined([d \in DOMAIN docs |->
         Take(At(from, PlacesOf(from, docs[d])), Max({0, quota - Cardinality(PlacesOf(s, docs[d]))}))])

\* _enforce_per_document_quota: each document with fewer pages than its quota is given
\* the first ones it has in `from`.
Filled(s, docs, from, quota) ==
  s \o Joined([d \in DOMAIN docs |->
         Take(Missing(s, from, docs[d]), Max({0, quota - Cardinality(PlacesOf(s, docs[d]))}))])

\* _build_adjacent_page_candidates: the pages before and after those of s.
Neighbours(s, ids) ==
  {page \in PagesIn(ids) \ Range(s) :
     \E other \in Range(s) : FileOf(other) = FileOf(page)
                               /\ NumberOf(page) \in {NumberOf(other) - 1, NumberOf(other) + 1}}

\* Adjacent pages fill the quota of their document too. Each one that is missing still
\* takes the place of the last page that is neither the first of the document nor
\* adjacent itself.
WithAdjacent(s, docs, near, quota) ==
  LET filled == Filled(s, docs, near, quota)
      given(f) == {i \in PlacesOf(filled, f) : i # Min(PlacesOf(filled, f)) /\ filled[i] \notin Range(near)}
      turn(i) == Cardinality({j \in given(FileOf(filled[i])) : j >= i})
      missing(i) == Missing(filled, near, FileOf(filled[i]))
  IN  [i \in DOMAIN filled |->
         IF i \in given(FileOf(filled[i])) /\ turn(i) <= Len(missing(i)) THEN missing(i)[turn(i)]
         ELSE filled[i]]

\* A document keeps its first page, then adjacent ones, then those near the first.
Kept(s, f, adjacent, quota) ==
  LET places == PlacesOf(s, f)
      class(i) == IF i = Min(places) THEN 0 ELSE IF s[i] \in adjacent THEN 1 ELSE 2
      distance(i) == LET n == NumberOf(s[i])
                         m == NumberOf(s[Min(places)])
                     IN  IF n < m THEN m - n ELSE n - m
      before(i, j) ==
        \/ class(i) < class(j)
        \/ class(i) = class(j) /\ (distance(i) < distance(j) \/ (distance(i) = distance(j) /\ i < j))
      kept == Take(SortedBy(places, {p \in places \X places : before(p[1], p[2])}), quota)
  IN  [i \in DOMAIN kept |-> s[kept[i]]]

\* _enforce_final_evidence_quota: documents are given pages of the pool, and adjacent
\* pages; when this is too much, what documents keep comes first.
QuotaKept(ranked, pool, docs, adjacent, quota, desired) ==
  LET filled == Filled(ranked, docs, pool, quota)
      near == At(pool, {i \in DOMAIN pool : pool[i] \in adjacent /\ FileOf(pool[i]) \in Range(docs)})
      placed == IF quota = 1 THEN filled ELSE WithAdjacent(filled, docs, near, quota)
      kept == Joined([d \in DOMAIN docs |-> Kept(placed, docs[d], adjacent, quota)])
  IN  IF Len(placed) <= desired THEN placed ELSE Take(Distinct(kept \o placed), desired)

\* Mutant of Prioritised: pages are taken by rank alone.
ByRank(leaders, ranked, pool, desired) == Take(ranked, desired)

\* _prioritize_final_evidence_by_archive_scope, for archives in an order.
Prioritised(leaders, ranked, pool, desired) == Take(Distinct(leaders \o ranked \o pool), desired)
=============================================================================
