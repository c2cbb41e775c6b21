------------------------ MODULE QuestionPipeline_proofs ------------------------
(***************************************************************************)
(* Proofs about QuestionPipeline, for any files, users, questions, limits  *)
(* and changes of the library.                                             *)
(***************************************************************************)
EXTENDS QuestionPipeline, EvidenceSelection_proofs

PageLists == {s \in Seq(Pages) : IsInjective(s)}

FactRecords ==
  [files : SUBSET Files, meta : BOOLEAN, context : BOOLEAN, answer : BOOLEAN, documents : BOOLEAN,
   route : {"", "documents", "metadata", "hybrid"}, archives : SUBSET Slugs, quoted : SUBSET Files,
   enrich : BOOLEAN, ids : SUBSET Files]

SearchRecords ==
  [files : SUBSET Files, origin : Origins, priority : SUBSET Files,
   order : {o \in Seq(Archives) : IsInjective(o)}, mapped : SUBSET Files, named : SUBSET Files,
   docs : {d \in Seq(Files) : IsInjective(d)}, top : Nat, quota : Nat, perDocument : BOOLEAN]

(* The library, and what a run keeps, have the types they should have.     *)
LibraryTyped ==
  /\ present \in SUBSET Files /\ shared \in SUBSET present /\ described \in SUBSET MetadataKeys
  /\ seen \in SUBSET Files /\ changes \in 0..MaxChanges

Typed ==
  /\ LibraryTyped
  /\ question \in Questions /\ pc \in Steps \cup {"idle", "failed", "answered"}
  /\ scope \in Scopes(Slugs) /\ rows \in SUBSET Files
  /\ facts \in FactRecords /\ search \in SearchRecords
  /\ found \in [ranked : PageLists, pool : PageLists]
  /\ evidence \in PageLists /\ quoted \in SUBSET Files

(* Before the scope is settled nothing is known, and before files are      *)
(* restricted nothing is found.                                            *)
Fresh ==
  /\ pc \in {"idle", "scope", "narrow", "load"} => rows = {} /\ facts = NoFacts /\ quoted = {}
  /\ pc \in {"idle", "scope", "narrow", "load", "facts", "enrich", "route", "restrict"} =>
       search = NoSearch /\ found = NothingFound /\ evidence = <<>>

(* Where files are asked about, each set of files that is passed on is one *)
(* of these, and where an empty one would lift the restriction it is not   *)
(* empty.                                                                  *)
Restricted ==
  scope.origin # "global" =>
    /\ rows \subseteq scope.files
    /\ facts.files \cup facts.quoted \cup quoted \subseteq scope.files
    /\ facts.enrich => facts.ids # {} /\ facts.ids \subseteq scope.files
    /\ search.files \cup Range(search.docs) \subseteq scope.files
    /\ pc = "shortlist" => search.files # {}
    /\ pc \in {"search", "rank"} => search.docs # <<>>
    /\ Documents(found.ranked) \cup Documents(found.pool) \cup Documents(evidence) \subseteq scope.files

(* What is listed is what could be seen when it was listed.                *)
WasVisible ==
  /\ pc # "idle" => Visible \subseteq seen
  /\ rows \cup facts.quoted \subseteq seen
  /\ Documents(found.ranked) \cup Documents(found.pool) \cup Documents(evidence) \subseteq seen

Inv == Typed /\ Fresh /\ Restricted /\ WasVisible

-----------------------------------------------------------------------------
(* Facts                                                                    *)

(* What facts of some files may be: of these files, if there are any, and  *)
(* with the rows and the files that are listed quoted.                     *)
FactsOf(ids, loaded) ==
  {f \in FactRecords :
     /\ f.quoted \subseteq loaded \cup Visible
     /\ ids # {} /\ loaded \subseteq ids =>
          /\ f.files \cup f.quoted \subseteq ids
          /\ f.enrich => f.ids # {} /\ f.ids \subseteq ids}

(* Nothing known is within any files.                                      *)
LEMMA NothingKnown ==
  ASSUME NEW ids, NEW loaded
  PROVE  NoFacts \in FactsOf(ids, loaded)
BY DEF NoFacts, FactsOf, FactRecords

(* Archives of files are archives that are known.                          *)
LEMMA KnownSlugs ==
  ASSUME NEW S \in SUBSET Files
  PROVE  ArchivesOf(S) \in SUBSET Slugs /\ ArchivesOf(S) \in SUBSET Archives
BY DEF ArchivesOf, Slugs, Archives

(* A context is enriched with files of the question.                       *)
LEMMA Enriching ==
  ASSUME NEW ids \in SUBSET Files, NEW loaded, NEW f \in FactsOf(ids, loaded), NEW S \in SUBSET Files,
         ids # {} => S # {} /\ S \subseteq ids
  PROVE  Enriched(f, S) \in FactsOf(ids, loaded)
<1>1. f \in FactRecords
  BY DEF FactsOf
<1>2. /\ Enriched(f, S) \in FactRecords
      /\ Enriched(f, S).files = f.files /\ Enriched(f, S).quoted = f.quoted
      /\ Enriched(f, S).ids = S
  BY <1>1 DEF Enriched, FactRecords
<1> QED
  BY <1>2 DEF FactsOf

(* Answers computed over rows.                                             *)
LEMMA Computing ==
  ASSUME NEW ids \in SUBSET Files, NEW loaded \in SUBSET Files, NEW S \in SUBSET Files,
         S \subseteq loaded \cup Visible, ids # {} /\ loaded \subseteq ids => S \subseteq ids,
         NEW f \in Computed(S)
  PROVE  f \in FactsOf(ids, loaded)
<1>1. PICK filtered \in SUBSET S :
        f = [NoFacts EXCEPT !.files = filtered, !.meta = TRUE, !.context = TRUE, !.answer = TRUE,
                            !.archives = ArchivesOf(S), !.quoted = S]
  BY DEF Computed
<1>2. ArchivesOf(S) \in SUBSET Slugs
  BY KnownSlugs
<1>3. f \in FactRecords /\ f.files = filtered /\ f.quoted = S /\ f.enrich = FALSE
  BY <1>1, <1>2 DEF NoFacts, FactRecords
<1> QED
  BY <1>3 DEF FactsOf

(* Questions that filter documents keep the files.                         *)
LEMMA Filtering ==
  ASSUME NEW ids \in SUBSET Files, NEW loaded, NEW f \in FilteredFacts(ids)
  PROVE  f \in FactsOf(ids, loaded)
BY DEF FilteredFacts, NoFacts, FactsOf, FactRecords

(* An inventory is of the files that are listed.                           *)
LEMMA Inventorying ==
  ASSUME present \in SUBSET Files, NEW q, NEW ids \in SUBSET Files, NEW loaded, NEW f \in InventoryFacts(q, ids)
  PROVE  f \in FactsOf(ids, loaded)
<1> DEFINE listed == Within(ids)
           found1 == [NoFacts EXCEPT !.files = IF listed = {} THEN ids ELSE listed,
                                    !.context = TRUE, !.quoted = listed]
<1>1. listed \in SUBSET Files /\ listed \subseteq Visible /\ (ids # {} => listed \subseteq ids)
  BY Listing
<1>2. f \in {[NoFacts EXCEPT !.answer = TRUE], [found1 EXCEPT !.documents = TRUE], [found1 EXCEPT !.answer = TRUE]}
  BY DEF InventoryFacts
<1> HIDE DEF listed
<1>3. CASE f = [NoFacts EXCEPT !.answer = TRUE]
  BY <1>3 DEF NoFacts, FactsOf, FactRecords
<1>4. CASE f # [NoFacts EXCEPT !.answer = TRUE]
  <2>1. found1 \in FactRecords /\ found1.files \in {ids, listed} /\ found1.quoted = listed /\ found1.enrich = FALSE
    BY <1>1 DEF NoFacts, FactRecords
  <2> HIDE DEF found1
  <2>2. f \in FactRecords /\ f.files \in {ids, listed} /\ f.quoted = listed /\ f.enrich = FALSE
    BY <2>1, <1>2, <1>4 DEF FactRecords
  <2> QED
    BY <1>1, <2>2 DEF FactsOf
<1> QED
  BY <1>3, <1>4

(* The facts of several archives, for rows that are among the files.       *)
LEMMA Comparing ==
  ASSUME present \in SUBSET Files, NEW q, NEW ids \in SUBSET Files, NEW loaded \in SUBSET Files, loaded # {},
         NEW named \in BOOLEAN, NEW f \in ComparisonFacts(q, ids, loaded, named)
  PROVE  f \in FactsOf(ids, loaded)
<1> DEFINE S == DocumentScope(IF ids = {} THEN loaded ELSE ids, loaded)
<1>1. S \in SUBSET Files /\ (ids # {} /\ loaded \subseteq ids => S # {} /\ S \subseteq ids)
      /\ S # {}
  <2> DEFINE from == IF ids = {} THEN loaded ELSE ids
  <2>1. Accessible(from) \subseteq from /\ from \subseteq Files
    BY Listing
  <2>2. S \subseteq Accessible(from) \/ S = loaded
    BY DEF DocumentScope
  <2>3. S # {}
    BY DEF DocumentScope
  <2> HIDE DEF S
  <2> QED
    BY <2>1, <2>2, <2>3
<1>2. ArchivesOf(loaded) \in SUBSET Slugs
  BY KnownSlugs
<1>3. Within(S) \subseteq Visible /\ Within(S) \subseteq S /\ Visible \subseteq Files
  BY <1>1, Listing
<1>4. f \in {Enriched(FromBoth(loaded, S, named), S)} \cup Computed(loaded)
              \cup {FromRows(loaded, S)} \cup {FromBoth(loaded, S, TRUE)}
  BY DEF ComparisonFacts, When
<1> HIDE DEF S
<1>5. ASSUME NEW context \in BOOLEAN
      PROVE  FromBoth(loaded, S, context) \in FactRecords
             /\ FromBoth(loaded, S, context).files = S
             /\ FromBoth(loaded, S, context).quoted \subseteq loaded
             /\ FromBoth(loaded, S, context).enrich = FALSE
  BY <1>1, <1>2 DEF FromBoth, NoFacts, FactRecords
<1>7. CASE f = Enriched(FromBoth(loaded, S, named), S)
  <2>1. f \in FactRecords /\ f.files = S /\ f.quoted \subseteq loaded /\ f.ids = S
    BY <1>1, <1>5, <1>7 DEF Enriched, FactRecords
  <2> QED
    BY <2>1, <1>1 DEF FactsOf
<1>8. CASE f \in Computed(loaded)
  BY <1>8, Computing
<1>9. CASE f = FromRows(loaded, S)
  <2>1. f \in FactRecords /\ f.files = loaded /\ f.quoted = loaded \cup Within(S) /\ f.enrich = FALSE
    BY <1>2, <1>3, <1>9 DEF FromRows, NoFacts, FactRecords
  <2> QED
    BY <2>1, <1>1, <1>3 DEF FactsOf
<1>10. CASE f = FromBoth(loaded, S, TRUE)
  BY <1>1, <1>5, <1>10 DEF FactsOf
<1> QED
  BY <1>4, <1>7, <1>8, <1>9, <1>10

(* An analysis reads the rows of the files again, or of those it has.      *)
LEMMA Analysing ==
  ASSUME present \in SUBSET Files, NEW q, NEW ids \in SUBSET Files, NEW loaded \in SUBSET Files,
         NEW known \in SUBSET Files, known = IF loaded = {} THEN ids ELSE loaded,
         NEW f \in AnalyticsFacts(q, known)
  PROVE  f \in FactsOf(ids, loaded)
<1>1. ids # {} /\ loaded \subseteq ids => known # {} /\ known \subseteq ids
  OBVIOUS
<1>2. f = Enriched(NoFacts, known) \/ \E S \in MetadataEntries(known) : f \in Computed(S)
  BY DEF AnalyticsFacts, When
<1>3. CASE f = Enriched(NoFacts, known)
  <2>1. f \in FactRecords /\ f.files = {} /\ f.quoted = {} /\ f.ids = known
    BY <1>3 DEF Enriched, NoFacts, FactRecords
  <2> QED
    BY <1>1, <2>1 DEF FactsOf
<1>4. ASSUME NEW S \in MetadataEntries(known), f \in Computed(S)
      PROVE  f \in FactsOf(ids, loaded)
  <2>1. S \subseteq Within(known)
    BY Describing
  <2>2. Within(known) \subseteq Visible /\ Visible \subseteq Files /\ (known # {} => Within(known) \subseteq known)
    BY Listing
  <2> QED
    BY <1>1, <1>4, <2>1, <2>2, Computing
<1> QED
  BY <1>2, <1>3, <1>4

(* Facts stay within the files of the question, and quote what is listed.  *)
THEOREM FactsWithin ==
  ASSUME present \in SUBSET Files, NEW q, NEW ids \in SUBSET Files, NEW loaded \in SUBSET Files,
         NEW f \in Facts(q, ids, loaded)
  PROVE  f \in FactsOf(ids, loaded)
<1> DEFINE known == IF loaded = {} THEN ids ELSE loaded
           versioned == [NoFacts EXCEPT !.files = ids, !.context = ids # {}]
<1>1. \/ f \in FilteredFacts(ids) \/ f \in InventoryFacts(q, ids)
      \/ loaded # {} /\ \E named \in BOOLEAN : f \in ComparisonFacts(q, ids, loaded, named)
      \/ f \in AnalyticsFacts(q, known) \/ f = NoFacts
      \/ f = Enriched(versioned, ids) \/ f = Enriched(NoFacts, ids)
  <2> DEFINE others ==
        CASE Class(q) = "analytics" -> AnalyticsFacts(q, known)
          [] Class(q) = "temporal" -> {NoFacts}
          [] Class(q) \in {"versioned", "exhaustive_synthesis"} -> {Enriched(versioned, ids)}
          [] OTHER -> {Enriched(NoFacts, ids)}
      comparisons(named) ==
        IF loaded # {} /\ (Class(q) = "metadata_comparison" \/ Requested(q) \/ named)
        THEN ComparisonFacts(q, ids, loaded, named) ELSE others
      choices == IF q.fields THEN {TRUE} ELSE {FALSE, loaded # {}}
  <2>1. \/ f \in FilteredFacts(ids) \/ f \in InventoryFacts(q, ids)
        \/ f \in UNION {comparisons(named) : named \in choices}
    BY DEF Facts
  <2>2. others \in {AnalyticsFacts(q, known), {NoFacts}, {Enriched(versioned, ids)}, {Enriched(NoFacts, ids)}}
    OBVIOUS
  <2>3. choices \subseteq BOOLEAN
    OBVIOUS
  <2> HIDE DEF others, choices, known, versioned
  <2>4. ASSUME NEW named \in choices, f \in comparisons(named)
        PROVE  (loaded # {} /\ f \in ComparisonFacts(q, ids, loaded, named)) \/ f \in others
    BY <2>4
  <2> QED
    BY <2>1, <2>2, <2>3, <2>4
<1>2. CASE f \in FilteredFacts(ids)
  BY <1>2, Filtering
<1>3. CASE f \in InventoryFacts(q, ids)
  BY <1>3, Inventorying
<1>4. CASE loaded # {} /\ \E named \in BOOLEAN : f \in ComparisonFacts(q, ids, loaded, named)
  BY <1>4, Comparing
<1>5. CASE f \in AnalyticsFacts(q, known)
  BY <1>5, Analysing
<1>6. CASE f = NoFacts
  BY <1>6, NothingKnown
<1>7. CASE f = Enriched(versioned, ids)
  <2>1. versioned \in FactsOf(ids, loaded)
    BY DEF NoFacts, FactsOf, FactRecords
  <2> QED
    BY <1>7, <2>1, Enriching
<1>8. CASE f = Enriched(NoFacts, ids)
  BY <1>8, NothingKnown, Enriching
<1> QED
  BY <1>1, <1>2, <1>3, <1>4, <1>5, <1>6, <1>7, <1>8

-----------------------------------------------------------------------------
(* The beginning, the library and the scope                                 *)

(* The values before anything is known have their types, and are empty.    *)
LEMMA Nothing ==
  /\ <<>> \in PageLists /\ Range(<<>>) = {} /\ Documents(<<>>) = {}
  /\ Global \in Scopes(Slugs) /\ NoFacts \in FactRecords /\ NoSearch \in SearchRecords
  /\ NothingFound \in [ranked : PageLists, pool : PageLists]
  /\ NoFacts.files = {} /\ NoFacts.quoted = {} /\ NoFacts.enrich = FALSE
  /\ NoSearch.files = {} /\ NoSearch.docs = <<>> /\ NoSearch.order = <<>> /\ NoSearch.perDocument = FALSE
  /\ NothingFound.ranked = <<>> /\ NothingFound.pool = <<>>
<1>1. /\ \A S : <<>> \in Seq(S)
      /\ IsInjective(<<>>) /\ Range(<<>>) = {} /\ Documents(<<>>) = {}
  BY DEF IsInjective, Range, Documents
<1>2. <<>> \in PageLists
  BY <1>1 DEF PageLists
<1>3. NothingFound \in [ranked : PageLists, pool : PageLists]
  BY <1>2 DEF NothingFound
<1>4. Global \in Scopes(Slugs) /\ NoFacts \in FactRecords
  BY DEF Global, Scope, Scopes, Origins, NoFacts, FactRecords
<1>5. NoSearch \in SearchRecords
  BY <1>1 DEF NoSearch, SearchRecords, Origins
<1>6. /\ NoFacts.files = {} /\ NoFacts.quoted = {} /\ NoFacts.enrich = FALSE
      /\ NothingFound.ranked = <<>> /\ NothingFound.pool = <<>>
  BY DEF NoFacts, NothingFound
<1>7. NoSearch.files = {} /\ NoSearch.docs = <<>> /\ NoSearch.order = <<>> /\ NoSearch.perDocument = FALSE
  BY DEF NoSearch
<1> QED
  BY <1>1, <1>2, <1>3, <1>4, <1>5, <1>6, <1>7

(* A question that is not asked yet.                                       *)
LEMMA Beginning == Init => Inv
<1> SUFFICES ASSUME Init
             PROVE  Inv
  OBVIOUS
<1>1. LibraryTyped
  BY LibraryAssumption DEF Init, InitLibrary, LibraryTyped
<1>2. Typed
  BY <1>1, Nothing DEF Init, Typed, Steps
<1>3. Fresh /\ Restricted
  BY DEF Init, Fresh, Restricted, Global, Scope
<1>4. WasVisible
  BY Nothing DEF Init, WasVisible, NoFacts, NothingFound
<1> QED
  BY <1>2, <1>3, <1>4 DEF Inv

(* What others do to the library: what can be seen is counted as seen.     *)
LEMMA LibraryChanging ==
  ASSUME LibraryTyped, ChangeLibrary
  PROVE  LibraryTyped' /\ Visible' \subseteq seen' /\ seen \subseteq seen'
<1>1. /\ present' \in SUBSET Files /\ shared' \in SUBSET present' /\ described' \in SUBSET MetadataKeys
      /\ Change
  <2> DEFINE kept == /\ present' \in SUBSET Files /\ shared' \in SUBSET present'
                     /\ described' \in SUBSET MetadataKeys /\ Change
  <2>1. ASSUME NEW f \in Files, SetAccess(f)
        PROVE  kept
    BY <2>1 DEF SetAccess, LibraryTyped, SymDiff
  <2>2. ASSUME NEW f \in Files, DeleteFile(f)
        PROVE  kept
    BY <2>2 DEF DeleteFile, LibraryTyped
  <2>3. ASSUME NEW k \in MetadataKeys, SetMetadata(k)
        PROVE  kept
    BY <2>3 DEF SetMetadata, LibraryTyped, SymDiff
  <2> QED
    BY <2>1, <2>2, <2>3 DEF ChangeLibrary
<1>2. Visible' \subseteq present'
  BY DEF Visible
<1>3. changes' \in 0..MaxChanges /\ seen' = seen \cup Visible'
  BY <1>1, LibraryAssumption DEF Change, LibraryTyped
<1>4. seen' \in SUBSET Files
  BY <1>1, <1>2, <1>3 DEF LibraryTyped
<1> QED
  BY <1>1, <1>3, <1>4 DEF LibraryTyped

(* A change of the library between two steps keeps what was found.         *)
LEMMA ChangingMeanwhile ==
  ASSUME Inv, InFlight, ChangeLibrary, UNCHANGED <<question, pc, run>>
  PROVE  Inv'
<1>1. LibraryTyped' /\ Visible' \subseteq seen' /\ seen \subseteq seen'
  BY LibraryChanging DEF Inv, Typed
<1>2. Typed'
  BY <1>1 DEF Inv, Typed, run
<1>3. Fresh' /\ Restricted'
  BY DEF Inv, Fresh, Restricted, run
<1>4. WasVisible'
  BY <1>1 DEF Inv, WasVisible, run
<1> QED
  BY <1>2, <1>3, <1>4 DEF Inv

(* Asking starts to count what can be seen.                                *)
LEMMA Asking ==
  ASSUME Inv, Ask
  PROVE  Inv'
<1>1. LibraryTyped' /\ Visible' = Visible /\ seen' = Visible
  BY DEF Inv, Typed, LibraryTyped, Ask, Visible
<1>2. Typed'
  BY <1>1 DEF Inv, Typed, Ask, Goto, run, Steps
<1>3. Fresh' /\ Restricted'
  BY DEF Inv, Fresh, Restricted, Ask, Goto, run
<1>4. WasVisible'
  <2>1. rows = {} /\ facts.quoted = {} /\ found.ranked = <<>> /\ found.pool = <<>> /\ evidence = <<>>
    BY Nothing DEF Inv, Fresh, Ask
  <2>2. rows' = rows /\ facts' = facts /\ found' = found /\ evidence' = evidence
    BY DEF Ask, run
  <2> QED
    BY <1>1, <2>1, <2>2, Nothing DEF WasVisible
<1> QED
  BY <1>2, <1>3, <1>4 DEF Inv

(* A step of the question leaves the library alone.                        *)
LEMMA StayingTyped ==
  ASSUME Inv, UNCHANGED library
  PROVE  LibraryTyped' /\ Visible' = Visible /\ seen' = seen /\ present \in SUBSET Files
BY DEF Inv, Typed, LibraryTyped, library, Visible

(* A step that fails leaves everything as it was.                          *)
LEMMA Failing ==
  ASSUME Inv, Fail, UNCHANGED library, InFlight
  PROVE  Inv'
<1>1. LibraryTyped' /\ Visible' = Visible /\ seen' = seen
  BY StayingTyped
<1>2. Typed'
  BY <1>1 DEF Inv, Typed, Fail, Goto, run
<1>3. Fresh' /\ Restricted'
  BY DEF Inv, Fresh, Restricted, Fail, Goto, run
<1>4. WasVisible'
  BY <1>1 DEF Inv, WasVisible, Fail, Goto, run, InFlight
<1> QED
  BY <1>2, <1>3, <1>4 DEF Inv

(* A scope is settled before anything is known.                            *)
LEMMA Scoping ==
  ASSUME Inv, UNCHANGED library, pc \in {"scope", "narrow"}, NEW s \in Scopes(Slugs), NEW to \in {"narrow", "load"},
         scope' = s, Goto(to), UNCHANGED <<rows, facts, search, found, evidence, quoted>>
  PROVE  Inv'
<1>1. LibraryTyped' /\ Visible' = Visible /\ seen' = seen
  BY StayingTyped
<1>2. Typed'
  BY <1>1 DEF Inv, Typed, Goto, Steps
<1>3. Fresh'
  BY DEF Inv, Fresh, Goto
<1>4. Restricted'
  <2>1. /\ rows = {} /\ facts.files = {} /\ facts.quoted = {} /\ quoted = {} /\ facts.enrich = FALSE
        /\ search.files = {} /\ search.docs = <<>>
        /\ found.ranked = <<>> /\ found.pool = <<>> /\ evidence = <<>>
    BY Nothing DEF Inv, Fresh
  <2>2. pc' \notin {"shortlist", "search", "rank"}
    BY DEF Goto
  <2> QED
    BY <2>1, <2>2, Nothing DEF Restricted
<1>5. WasVisible'
  BY <1>1 DEF Inv, WasVisible, Goto
<1> QED
  BY <1>2, <1>3, <1>4, <1>5 DEF Inv

(* Files that are not none give a scope.                                   *)
LEMMA Settling ==
  ASSUME NEW files \in SUBSET Files, files # {}, NEW origin \in Origins \ {"global"}, NEW archives \in SUBSET Slugs
  PROVE  Scope(files, origin, archives) \in Scopes(Slugs)
BY DEF Scope, Scopes

(* What the question names gives a scope, when all of it is known.         *)
LEMMA Naming ==
  ASSUME present \in SUBSET Files, NEW q, Narrowing(q) # "nothing", ~Unknown(q),
         NEW files \in SUBSET Files, files # {}
  PROVE  NamedScope(q, files) \in Scopes(Slugs)
<1>1. Narrowing(q) \in {"archives", "names", "codes"}
  BY DEF Narrowing
<1>2. Narrowing(q) = "archives" => Candidates(q) \in SUBSET Slugs
  BY DEF Unknown, KnownArchives, Visible, Slugs, Archives
<1>3. CASE Narrowing(q) = "archives"
  BY <1>2, <1>3, Settling DEF NamedScope, Origins
<1>4. CASE Narrowing(q) = "names"
  BY <1>4, Settling DEF NamedScope, Origins
<1>5. CASE Narrowing(q) = "codes"
  BY <1>5, Settling DEF NamedScope, Origins
<1> QED
  BY <1>1, <1>3, <1>4, <1>5

(* What narrows a scope down lists files that exist.                       *)
LEMMA NamedFiles ==
  ASSUME present \in SUBSET Files, NEW q, Narrowing(q) # "nothing"
  PROVE  Named(q, {}) \in SUBSET Files
<1>1. Narrowing(q) \in {"archives", "names", "codes"}
  BY DEF Narrowing
<1> QED
  BY <1>1 DEF Named, InArchives, WithNames, WithCodes, Within, Visible

(* FilterRequested: files that were requested and are accessible.          *)
LEMMA FilteringRequested ==
  ASSUME Inv, FilterRequested, UNCHANGED library
  PROVE  Inv'
<1> DEFINE ids == Accessible(question.requested)
<1>1. CASE ids = {}
  BY <1>1, Failing DEF FilterRequested, InFlight
<1>2. CASE ids # {}
  <2>1. ids \in SUBSET Files
    BY StayingTyped, Listing
  <2>2. Scope(ids, "manual", {}) \in Scopes(Slugs)
    BY <1>2, <2>1, Settling DEF Origins
  <2> QED
    BY <1>2, <2>2, Scoping DEF FilterRequested
<1> QED
  BY <1>1, <1>2

(* NarrowRequested: of the files of the scope, some or all.                *)
LEMMA NarrowingRequested ==
  ASSUME Inv, NarrowRequested, UNCHANGED library
  PROVE  Inv'
<1> DEFINE ids == Named(question, scope.files) \cap scope.files
<1>0. scope \in Scopes(Slugs) /\ scope.files \in SUBSET Files /\ present \in SUBSET Files
  BY StayingTyped DEF Inv, Typed, Scopes
<1>1. CASE Narrowing(question) = "nothing"
  BY <1>0, <1>1, Scoping DEF NarrowRequested, Scoped
<1>2. CASE Narrowing(question) # "nothing" /\ (Unknown(question) \/ ids = {})
  BY <1>2, Failing DEF NarrowRequested, InFlight
<1>3. CASE Narrowing(question) # "nothing" /\ ~Unknown(question) /\ ids # {}
  <2>1. NamedScope(question, ids) \in Scopes(Slugs)
    BY <1>0, <1>3, Naming
  <2> QED
    BY <1>3, <2>1, Scoping DEF NarrowRequested, Scoped
<1> QED
  BY <1>1, <1>2, <1>3

(* InferScope: a follow-up, what is named, or everything.                  *)
LEMMA InferringScope ==
  ASSUME Inv, InferScope, UNCHANGED library
  PROVE  Inv'
<1> DEFINE ids == Named(question, {})
<1>0. question \in Questions /\ present \in SUBSET Files
  BY StayingTyped DEF Inv, Typed
<1>1. CASE FollowsUp(question)
  <2>1. ConversationFiles(question) \in SUBSET Files /\ ConversationFiles(question) # {}
    BY <1>0, <1>1, Listing DEF FollowsUp, ConversationFiles
  <2>2. {ArchiveOf[f] : f \in ConversationFiles(question)} \in SUBSET Slugs
    BY <2>1, KnownSlugs DEF ArchivesOf
  <2>3. question.conversationArchives \in SUBSET Slugs
    BY <1>0 DEF Slugs
  <2>4. ConversationScope(question) \in Scopes(Slugs)
    BY <2>1, <2>2, <2>3, Settling DEF ConversationScope, Origins
  <2> QED
    BY <1>1, <2>4, Scoping DEF InferScope, Scoped
<1>2. CASE ~FollowsUp(question) /\ Narrowing(question) = "nothing"
  BY <1>2, Nothing, Scoping DEF InferScope, Scoped
<1>3. CASE ~FollowsUp(question) /\ Narrowing(question) # "nothing" /\ (Unknown(question) \/ ids = {})
  BY <1>3, Failing DEF InferScope, InFlight
<1>4. CASE ~FollowsUp(question) /\ Narrowing(question) # "nothing" /\ ~Unknown(question) /\ ids # {}
  <2>1. NamedScope(question, ids) \in Scopes(Slugs)
    BY <1>0, <1>4, NamedFiles, Naming
  <2> QED
    BY <1>4, <2>1, Scoping DEF InferScope, Scoped
<1> QED
  BY <1>1, <1>2, <1>3, <1>4

-----------------------------------------------------------------------------
(* The resolution of facts                                                  *)

(* Rows and facts that are found, before any page is.                      *)
LEMMA Resolving ==
  ASSUME Inv, UNCHANGED library, pc \in {"load", "facts", "enrich", "route"}, NEW to \in {"facts", "enrich", "route"},
         NEW loaded \in SUBSET Files, NEW f \in FactRecords,
         loaded \cup f.quoted \subseteq seen,
         scope.origin # "global" =>
           /\ loaded \cup f.files \cup f.quoted \subseteq scope.files
           /\ f.enrich => f.ids # {} /\ f.ids \subseteq scope.files,
         rows' = loaded, facts' = f, Goto(to), UNCHANGED <<scope, search, found, evidence, quoted>>
  PROVE  Inv'
<1>1. LibraryTyped' /\ Visible' = Visible /\ seen' = seen
  BY StayingTyped
<1>2. Typed'
  BY <1>1 DEF Inv, Typed, Goto, Steps
<1>3. Fresh'
  BY DEF Inv, Fresh, Goto
<1>4. Restricted'
  BY DEF Inv, Restricted, Goto
<1>5. WasVisible'
  BY <1>1 DEF Inv, WasVisible, Goto
<1> QED
  BY <1>2, <1>3, <1>4, <1>5 DEF Inv

(* ReuseConversation: no facts are needed.                                 *)
LEMMA ReusingConversation ==
  ASSUME Inv, ReuseConversation, UNCHANGED library
  PROVE  Inv'
<1>1. scope.archives \in SUBSET Slugs /\ rows \in SUBSET Files
  BY DEF Inv, Typed, Scopes
<1>2. /\ facts' \in FactRecords /\ facts'.files = {} /\ facts'.quoted = {} /\ facts'.enrich = FALSE
  BY <1>1 DEF ReuseConversation, NoFacts, FactRecords
<1>3. rows \subseteq seen /\ (scope.origin # "global" => rows \subseteq scope.files)
  BY DEF Inv, WasVisible, Restricted
<1> QED
  BY <1>1, <1>2, <1>3, Resolving DEF ReuseConversation

(* LoadMetadata: the rows are of files in scope, and listed now.           *)
LEMMA LoadingMetadata ==
  ASSUME Inv, LoadMetadata, UNCHANGED library
  PROVE  Inv'
<1>1. PICK entries \in MetadataEntries(scope.files) \cup {{}} :
        LET loaded == ExplicitRows(question, scope, entries)
        IN  IF Requested(question) /\ loaded = {} THEN Fail
            ELSE /\ rows' = loaded
                 /\ Goto("facts")
                 /\ UNCHANGED <<scope, facts, search, found, evidence, quoted>>
  BY DEF LoadMetadata
<1> DEFINE loaded == ExplicitRows(question, scope, entries)
<1>2. CASE Requested(question) /\ loaded = {}
  BY <1>1, <1>2, Failing DEF LoadMetadata, InFlight
<1>3. CASE ~(Requested(question) /\ loaded = {})
  <2>1. present \in SUBSET Files /\ scope \in Scopes(Slugs) /\ Visible \subseteq seen /\ pc = "load"
    BY StayingTyped DEF Inv, Typed, WasVisible, LoadMetadata
  <2>2. entries \subseteq Within(scope.files)
    BY <2>1, Describing
  <2>3. Within(scope.files) \subseteq Visible /\ Visible \subseteq Files
        /\ (scope.files # {} => Within(scope.files) \subseteq scope.files)
    BY <2>1, Listing
  <2>4. loaded \subseteq entries
    BY DEF ExplicitRows
  <2>5. scope.origin # "global" => scope.files # {}
    BY <2>1 DEF Scopes
  <2>6. facts \in FactRecords /\ facts.files = {} /\ facts.quoted = {} /\ facts.enrich = FALSE
    BY <2>1, Nothing DEF Inv, Fresh
  <2>7. rows' = loaded /\ Goto("facts") /\ UNCHANGED <<scope, facts, search, found, evidence, quoted>>
    BY <1>1, <1>3
  <2> HIDE DEF loaded
  <2>8. /\ loaded \in SUBSET Files /\ loaded \cup facts.quoted \subseteq seen
        /\ scope.origin # "global" => loaded \cup facts.files \cup facts.quoted \subseteq scope.files
    BY <2>1, <2>2, <2>3, <2>4, <2>5, <2>6
  <2> QED
    BY <2>1, <2>6, <2>7, <2>8, Resolving
<1> QED
  BY <1>2, <1>3

(* ResolveFacts: facts are within the scope and the rows.                  *)
LEMMA ResolvingFacts ==
  ASSUME Inv, ResolveFacts, UNCHANGED library
  PROVE  Inv'
<1>1. /\ present \in SUBSET Files /\ scope \in Scopes(Slugs) /\ Visible \subseteq seen /\ rows \in SUBSET Files
      /\ rows \subseteq seen /\ (scope.origin # "global" => rows \subseteq scope.files)
      /\ scope.files \in SUBSET Files /\ (scope.origin # "global" => scope.files # {})
  BY StayingTyped DEF Inv, Typed, WasVisible, Restricted, ResolveFacts, Scopes
<1>2. facts' \in FactsOf(scope.files, rows)
  BY <1>1, FactsWithin DEF ResolveFacts
<1> QED
  BY <1>1, <1>2, Resolving DEF ResolveFacts, FactsOf

(* EnrichFacts: what is listed for context is of the files kept for it.    *)
LEMMA EnrichingFacts ==
  ASSUME Inv, EnrichFacts, UNCHANGED library
  PROVE  Inv'
<1> DEFINE without == [facts EXCEPT !.enrich = FALSE, !.ids = {}]
           listed == Within(facts.ids)
<1>1. /\ present \in SUBSET Files /\ scope \in Scopes(Slugs) /\ Visible \subseteq seen /\ rows \in SUBSET Files
      /\ rows \cup facts.quoted \subseteq seen /\ scope.archives \in SUBSET Slugs /\ facts \in FactRecords
      /\ facts.ids \in SUBSET Files
  BY StayingTyped DEF Inv, Typed, WasVisible, EnrichFacts, Scopes, FactRecords
<1>2. scope.origin # "global" =>
        /\ rows \cup facts.files \cup facts.quoted \subseteq scope.files
        /\ facts.enrich => facts.ids # {} /\ facts.ids \subseteq scope.files
  BY DEF Inv, Restricted
<1>3. listed \subseteq Visible /\ Visible \subseteq Files /\ (facts.ids # {} => listed \subseteq facts.ids)
  BY <1>1, Listing
<1>4. PICK enriched \in {without} \cup When(facts.enrich, Enrich(facts)) :
        facts' = [enriched EXCEPT !.archives = IF @ = {} THEN scope.archives ELSE @]
  BY DEF EnrichFacts
<1>5. without \in FactRecords /\ without.files = facts.files /\ without.quoted = facts.quoted /\ without.enrich = FALSE
  BY <1>1 DEF FactRecords
<1>6. \/ enriched = without
      \/ /\ facts.enrich
         /\ \E R \in MetadataEntries(facts.ids) :
              enriched = [without EXCEPT !.meta = TRUE, !.context = TRUE, !.quoted = @ \cup listed,
                                         !.archives = IF @ = {} THEN ArchivesOf(R) ELSE @]
  BY <1>4 DEF When, Enrich
<1> HIDE DEF without, listed
<1>7. /\ enriched \in FactRecords /\ enriched.files = facts.files /\ enriched.enrich = FALSE
      /\ (enriched.quoted = facts.quoted) \/ (facts.enrich /\ enriched.quoted = facts.quoted \cup listed)
  <2>1. CASE enriched = without
    BY <1>5, <2>1
  <2>2. ASSUME facts.enrich, NEW R \in MetadataEntries(facts.ids),
               enriched = [without EXCEPT !.meta = TRUE, !.context = TRUE, !.quoted = @ \cup listed,
                                          !.archives = IF @ = {} THEN ArchivesOf(R) ELSE @]
        PROVE  enriched \in FactRecords /\ enriched.files = facts.files /\ enriched.enrich = FALSE
               /\ enriched.quoted = facts.quoted \cup listed
    <3>1. R \in SUBSET Files
      BY <1>1, <1>3, Describing DEF listed
    <3>2. ArchivesOf(R) \in SUBSET Slugs
      BY <3>1, KnownSlugs
    <3>3. listed \in SUBSET Files
      BY <1>3
    <3> QED
      BY <1>5, <2>2, <3>2, <3>3 DEF FactRecords
  <2> QED
    BY <1>6, <2>1, <2>2
<1>8. facts' \in FactRecords /\ facts'.files = enriched.files /\ facts'.quoted = enriched.quoted /\ facts'.enrich = FALSE
  BY <1>1, <1>4, <1>7 DEF FactRecords
<1>9. /\ rows \cup facts'.quoted \subseteq seen
      /\ scope.origin # "global" => rows \cup facts'.files \cup facts'.quoted \subseteq scope.files
  BY <1>1, <1>2, <1>3, <1>7, <1>8
<1>10. /\ rows' = rows /\ Goto("route") /\ pc = "enrich"
       /\ UNCHANGED <<scope, search, found, evidence, quoted>>
  BY DEF EnrichFacts
<1> HIDE DEF EnrichFacts
<1> QED
  BY <1>1, <1>8, <1>9, <1>10, Resolving

(* DecideAnswerability: what is quoted is what the facts quote.            *)
LEMMA DecidingAnswerability ==
  ASSUME Inv, DecideAnswerability, UNCHANGED library
  PROVE  Inv'
<1>1. LibraryTyped' /\ Visible' = Visible /\ seen' = seen
  BY StayingTyped
<1>2. Typed'
  BY <1>1 DEF Inv, Typed, DecideAnswerability, Goto, Steps, FactRecords
<1>3. Fresh'
  BY DEF Inv, Fresh, DecideAnswerability, Goto
<1>4. Restricted'
  BY DEF Inv, Restricted, DecideAnswerability, Goto
<1>5. WasVisible'
  BY <1>1 DEF Inv, WasVisible, DecideAnswerability, Goto
<1> QED
  BY <1>2, <1>3, <1>4, <1>5 DEF Inv

-----------------------------------------------------------------------------
(* What the retrieval is restricted to                                      *)

(* Files and documents of a search, before any page is found.              *)
LEMMA Searching ==
  ASSUME Inv, UNCHANGED library, pc \in {"restrict", "shortlist"}, NEW to \in {"shortlist", "search"},
         NEW r \in SearchRecords,
         scope.origin # "global" =>
           /\ r.files \cup Range(r.docs) \subseteq scope.files
           /\ to = "shortlist" => r.files # {}
           /\ to = "search" => r.docs # <<>>,
         search' = r, Goto(to), UNCHANGED <<scope, rows, facts, found, evidence, quoted>>
  PROVE  Inv'
<1>1. LibraryTyped' /\ Visible' = Visible /\ seen' = seen
  BY StayingTyped
<1>2. Typed'
  BY <1>1 DEF Inv, Typed, Goto, Steps
<1>3. Fresh'
  BY DEF Inv, Fresh, Goto
<1>4. Restricted'
  BY DEF Inv, Restricted, Goto
<1>5. WasVisible'
  BY <1>1 DEF Inv, WasVisible, Goto
<1> QED
  BY <1>2, <1>3, <1>4, <1>5 DEF Inv

(* The greatest of three numbers.                                          *)
LEMMA Greatest ==
  ASSUME NEW a \in Nat, NEW b \in Nat, NEW c \in Nat
  PROVE  Max({a, b, c}) \in Nat
<1> DEFINE S == {a, b, c}
<1>1. \E x \in S : \A y \in S : x >= y
  <2>1. CASE a >= b /\ a >= c
    BY <2>1
  <2>2. CASE b >= a /\ b >= c
    BY <2>2
  <2>3. CASE c >= a /\ c >= b
    BY <2>3
  <2> QED
    BY <2>1, <2>2, <2>3
<1>2. S \subseteq Nat
  OBVIOUS
<1> HIDE DEF S
<1>3. Max(S) \in S
  BY <1>1 DEF Max
<1> QED
  BY <1>2, <1>3 DEF S

(* The controls of the retrieval are of their types.                       *)
LEMMA Quotas ==
  ASSUME question \in Questions
  PROVE  Quota \in Nat /\ PerDocument \in BOOLEAN
<1> DEFINE least == IF Covered \/ Asks(question, "representative") THEN 2 ELSE 0
<1>1. question.quota \in Nat /\ question.perDocument \in BOOLEAN
  BY QuestionAssumption
<1>2. PerDocument \in BOOLEAN
  BY <1>1 DEF PerDocument, Covered
<1>3. least \in Nat /\ Quota = Max({question.quota, least})
  BY DEF Quota
<1> HIDE DEF least
<1> QED
  BY <1>1, <1>2, <1>3, Smaller

(* Any order of archives of files.                                         *)
LEMMA OrderedArchives ==
  ASSUME NEW S \in SUBSET Files, NEW A, NEW order \in SetToSeqs(A \cap ArchivesOf(S))
  PROVE  order \in Seq(Archives) /\ IsInjective(order)
<1> DEFINE B == ArchivesOf(S)
           g == [f \in S |-> ArchiveOf[f]]
           T == A \cap B
<1>1. IsFiniteSet(S)
  BY LibraryAssumption, FS_Subset
<1>2. g \in Surjection(S, B)
  BY DEF Surjection, ArchivesOf
<1>3. B \subseteq Archives
  BY KnownSlugs
<1> HIDE DEF g, B
<1>4. IsFiniteSet(B)
  BY <1>1, <1>2, FS_Surjection
<1>5. IsFiniteSet(T) /\ T \subseteq Archives
  BY <1>3, <1>4, FS_Subset
<1>6. order \in SetToSeqs(T)
  BY DEF B
<1> HIDE DEF T
<1>7. order \in Seq(T) /\ IsInjective(order)
  BY <1>5, <1>6, Permuting
<1> QED
  BY <1>5, <1>7

(* RestrictFiles: each way to restrict files leaves some of those in       *)
(* scope.                                                                  *)
LEMMA RestrictingFiles ==
  ASSUME Inv, RestrictFiles, UNCHANGED library
  PROVE  Inv'
<1>1. /\ present \in SUBSET Files /\ question \in Questions /\ pc = "restrict"
      /\ scope \in Scopes(Slugs) /\ facts \in FactRecords
  BY StayingTyped DEF Inv, Typed, RestrictFiles
<1>2. /\ Ids \in SUBSET Files
      /\ scope.origin # "global" => Ids # {} /\ Ids \subseteq scope.files
  BY <1>1 DEF Inv, Restricted, Ids, Narrowed, Scopes, FactRecords
<1>3. PICK P \in IF ExplicitArchives # {} THEN {{}} ELSE SUBSET DescribedFiles(Ids) :
       LET restricts == P # {} /\ (Ids # {} \/ Class(question) = "metadata_comparison"
                                     \/ scope.origin # "global")
           listed == IF restricts THEN P ELSE Ids
           named == IF SearchedNames = {} THEN {} ELSE WithNames(SearchedNames, listed)
           base == IF named # {} THEN named ELSE listed
           wanted == IF base # {} THEN base ELSE InArchives(ExplicitArchives)
           mapped == IF ExplicitArchives = {} THEN {} ELSE Accessible(wanted)
           files == IF base = {} /\ ExplicitArchives # {} THEN wanted ELSE base
           whole == named # {} /\ Asks(question, "whole document")
           quota == Max({Quota, IF named # {} THEN 1 ELSE 0, IF whole THEN Limit["pages"] ELSE 0})
       IN  \E order \in SetToSeqs(ExplicitArchives \cap ArchivesOf(mapped)) :
             search' = [NoSearch EXCEPT
               !.files = files, !.priority = P, !.order = order, !.mapped = mapped, !.named = named,
               !.origin = IF Ids = {} /\ (restricts \/ (base = {} /\ files # {})) THEN "metadata"
                          ELSE scope.origin,
               !.quota = quota, !.perDocument = PerDocument,
               !.top = Max({Limit["top"], IF whole THEN Cardinality(named) * quota ELSE 0})]
  BY DEF RestrictFiles
<1> DEFINE restricts == P # {} /\ (Ids # {} \/ Class(question) = "metadata_comparison"
                                     \/ scope.origin # "global")
           listed == IF restricts THEN P ELSE Ids
           named == IF SearchedNames = {} THEN {} ELSE WithNames(SearchedNames, listed)
           base == IF named # {} THEN named ELSE listed
           wanted == IF base # {} THEN base ELSE InArchives(ExplicitArchives)
           mapped == IF ExplicitArchives = {} THEN {} ELSE Accessible(wanted)
           files == IF base = {} /\ ExplicitArchives # {} THEN wanted ELSE base
           whole == named # {} /\ Asks(question, "whole document")
           due == IF named # {} THEN 1 ELSE 0
           wholly == IF whole THEN Limit["pages"] ELSE 0
           quota == Max({Quota, due, wholly})
           origin == IF Ids = {} /\ (restricts \/ (base = {} /\ files # {})) THEN "metadata" ELSE scope.origin
           room == IF whole THEN Cardinality(named) * quota ELSE 0
           top == Max({Limit["top"], room})
<1>4. PICK order \in SetToSeqs(ExplicitArchives \cap ArchivesOf(mapped)) :
        search' = [NoSearch EXCEPT
          !.files = files, !.priority = P, !.order = order, !.mapped = mapped, !.named = named,
          !.origin = origin, !.quota = quota, !.perDocument = PerDocument, !.top = top]
  BY <1>3
<1>5. P \in SUBSET Files /\ (Ids # {} => P \subseteq Ids)
  <2>1. P \subseteq DescribedFiles(Ids)
    OBVIOUS
  <2> QED
    BY <2>1, <1>1, Describing, Listing
<1>6. /\ listed \in SUBSET Files
      /\ scope.origin # "global" => listed # {} /\ listed \subseteq scope.files
  BY <1>2, <1>5
<1>7. named \in SUBSET Files /\ (listed # {} => named \subseteq listed)
  <2> HIDE DEF listed
  <2>1. named \subseteq Within(listed)
    BY DEF WithNames
  <2> QED
    BY <2>1, <1>1, Listing
<1>8. /\ base \in SUBSET Files
      /\ scope.origin # "global" => base # {} /\ base \subseteq scope.files
  <2> HIDE DEF listed, named
  <2> QED
    BY <1>6, <1>7
<1>9. wanted \in SUBSET Files /\ mapped \in SUBSET Files
  <2> HIDE DEF base
  <2>1. wanted \in SUBSET Files
    BY <1>1, <1>8, Listing DEF InArchives
  <2> HIDE DEF wanted
  <2> QED
    BY <2>1, <1>1, Listing
<1>10. /\ files \in SUBSET Files
       /\ scope.origin # "global" => files # {} /\ files \subseteq scope.files
  <2> HIDE DEF base, wanted
  <2> QED
    BY <1>8, <1>9
<1>11. origin \in Origins
  BY <1>1 DEF Scopes, Origins
<1>12. Limit["pages"] \in Nat /\ Limit["top"] \in Nat
  BY LimitAssumption DEF LimitNames
<1>13. quota \in Nat
  <2>1. Quota \in Nat /\ due \in Nat /\ wholly \in Nat
    BY <1>1, <1>12, Quotas
  <2> HIDE DEF due, wholly
  <2> QED
    BY <2>1, Greatest
<1>14. Cardinality(named) \in Nat
  <2> HIDE DEF named
  <2>1. IsFiniteSet(named)
    BY <1>7, LibraryAssumption, FS_Subset
  <2> QED
    BY <2>1, FS_CardinalityType
<1>15. top \in Nat
  <2> HIDE DEF quota, named
  <2>1. Cardinality(named) * quota \in Nat
    BY <1>13, <1>14
  <2>2. room \in Nat
    BY <2>1
  <2> HIDE DEF room
  <2> QED
    BY <2>2, <1>12, Smaller
<1> HIDE DEF restricts, listed, named, base, wanted, mapped, files, whole, due, wholly, quota, origin, room, top
<1>16. order \in Seq(Archives) /\ IsInjective(order)
  BY <1>9, OrderedArchives
<1>17. PerDocument \in BOOLEAN
  BY <1>1, Quotas
<1>18. /\ search' \in SearchRecords
       /\ search'.files = files /\ search'.docs = <<>>
  <2>1. NoSearch \in SearchRecords /\ NoSearch.docs = <<>>
    BY Nothing
  <2> QED
    BY <2>1, <1>4, <1>5, <1>7, <1>9, <1>10, <1>11, <1>13, <1>15, <1>16, <1>17 DEF SearchRecords
<1>19. Goto("shortlist") /\ UNCHANGED <<scope, rows, facts, found, evidence, quoted>>
  BY DEF RestrictFiles
<1>20. Range(search'.docs) = {}
  BY <1>18, Nothing
<1> QED
  BY <1>1, <1>10, <1>18, <1>19, <1>20, Searching

(* Files in order: all of them, and none only where there are none.        *)
LEMMA OrderedFiles ==
  ASSUME NEW S \in SUBSET Files
  PROVE  /\ InOrder(S) \in Seq(Files) /\ IsInjective(InOrder(S)) /\ Range(InOrder(S)) = S
         /\ S # {} => InOrder(S) # <<>>
<1>1. S \in SUBSET Nat /\ IsFiniteSet(S)
  BY LibraryAssumption, FS_Subset
<1>2. Lists(InOrder(S), S)
  BY <1>1, Ordering
<1>3. S # {} => Cardinality(S) # 0
  BY <1>1, FS_EmptySet
<1>4. InOrder(S) \in Seq(S) /\ Len(InOrder(S)) = Cardinality(S) /\ IsInjective(InOrder(S)) /\ Range(InOrder(S)) = S
  BY <1>2 DEF Lists
<1> HIDE DEF InOrder
<1>5. InOrder(S) \in Seq(Files)
  BY <1>4
<1> QED
  BY <1>3, <1>4, <1>5, EmptySeq

(* The limit of a shortlist is a number.                                   *)
LEMMA ShortlistLimits == ShortlistLimit \in Nat
BY LimitAssumption DEF ShortlistLimit, LimitNames

(* ShortlistDocuments: documents are files of the search, where it has     *)
(* any.                                                                    *)
LEMMA ShortlistingDocuments ==
  ASSUME Inv, ShortlistDocuments, UNCHANGED library
  PROVE  Inv'
<1>1. /\ present \in SUBSET Files /\ search \in SearchRecords /\ pc = "shortlist"
      /\ search.files \in SUBSET Files /\ search.priority \in SUBSET Files /\ search.mapped \in SUBSET Files
      /\ search.order \in Seq(Archives) /\ IsInjective(search.order)
  BY StayingTyped DEF Inv, Typed, ShortlistDocuments, SearchRecords
<1>2. scope.origin # "global" => search.files # {} /\ search.files \subseteq scope.files
  BY <1>1 DEF Inv, Restricted
<1> DEFINE few == /\ search.order # <<>> /\ search.files # {}
                  /\ Cardinality(search.files) <= Max({2 * ShortlistLimit, Limit["archives"]})
           whole == InOrder(search.files)
<1>3. PICK short \in IF few THEN {whole} ELSE Shortlists(search.files, search.priority, ShortlistLimit) :
        search' = [search EXCEPT !.docs =
          IF few \/ search.order = <<>> THEN short
          ELSE Rebalanced(Distinct(short \o whole), search.order, search.mapped, ShortlistLimit)]
  BY DEF ShortlistDocuments
<1> HIDE DEF few
<1>4. /\ whole \in Seq(Files) /\ IsInjective(whole) /\ Range(whole) = search.files
      /\ search.files # {} => whole # <<>>
  BY <1>1, OrderedFiles
<1> HIDE DEF whole
<1>5. /\ short \in Seq(Files) /\ IsInjective(short)
      /\ search.files # {} => Range(short) \subseteq search.files /\ short # <<>>
  <2>1. CASE few
    BY <1>3, <1>4, <2>1
  <2>2. CASE ~few
    <3>1. short \in Shortlists(search.files, search.priority, ShortlistLimit)
      BY <1>3, <2>2
    <3> QED
      BY <1>1, <3>1, Shortlisting, ShortlistLimits
  <2> QED
    BY <2>1, <2>2
<1> DEFINE u == short \o whole
           v == Distinct(u)
           docs == IF few \/ search.order = <<>> THEN short
                   ELSE Rebalanced(v, search.order, search.mapped, ShortlistLimit)
<1>6. u \in Seq(Files) /\ \A x : x \in Range(u) <=> x \in Range(short) \/ x \in Range(whole)
  BY <1>4, <1>5, Concatenating
<1>7. v \in Seq(Files) /\ IsInjective(v) /\ Range(v) = Range(u)
  <2> HIDE DEF u
  <2> QED
    BY <1>6, Distinguishing
<1>8. search.files # {} => v # <<>> /\ Range(v) \subseteq search.files
  <2> HIDE DEF u, v
  <2>1. search.files # {} => Range(v) \subseteq search.files /\ Range(v) # {}
    BY <1>4, <1>5, <1>6, <1>7
  <2> QED
    BY <2>1, Nothing
<1>9. /\ docs \in Seq(Files) /\ IsInjective(docs)
      /\ search.files # {} => Range(docs) \subseteq search.files /\ docs # <<>>
  <2> DEFINE w == Rebalanced(v, search.order, search.mapped, ShortlistLimit)
  <2>1. /\ w \in Seq(Files) /\ IsInjective(w) /\ Range(w) \subseteq Range(v)
        /\ v # <<>> => w # <<>>
    <3> HIDE DEF v
    <3> QED
      BY <1>1, <1>7, ShortlistLimits, Rebalancing
  <2> HIDE DEF v, w
  <2> QED
    BY <1>5, <1>8, <2>1 DEF w
<1>10. search' = [search EXCEPT !.docs = docs]
  BY <1>3
<1> HIDE DEF u, v, docs
<1>11. search' \in SearchRecords /\ search'.files = search.files /\ search'.docs = docs
  BY <1>1, <1>9, <1>10 DEF SearchRecords
<1>12. Goto("search") /\ UNCHANGED <<scope, rows, facts, found, evidence, quoted>>
  BY DEF ShortlistDocuments
<1> QED
  BY <1>1, <1>2, <1>9, <1>11, <1>12, Searching

-----------------------------------------------------------------------------
(* The pages that are found, and the evidence                               *)

(* A page is a pair of numbers.                                            *)
LEMMA PagePairs == Pages \in SUBSET (Nat \X Nat)
BY LibraryAssumption DEF Pages

(* The pages of the documents can be seen, and are in scope.               *)
LEMMA PagesOfDocuments ==
  ASSUME Inv, pc \in {"search", "rank"}
  PROVE  LET pages == PagesIn(Range(search.docs))
         IN  /\ pages \in SUBSET Pages /\ IsFiniteSet(pages)
             /\ \A page \in pages : /\ FileOf(page) \in seen
                                    /\ scope.origin # "global" => FileOf(page) \in scope.files
<1> DEFINE ids == Range(search.docs)
           pages == PagesIn(ids)
<1>1. present \in SUBSET Files /\ Visible \subseteq seen
  BY DEF Inv, Typed, LibraryTyped, WasVisible
<1>2. pages \in SUBSET Pages /\ IsFiniteSet(pages) /\ \A page \in pages : FileOf(page) \in Within(ids)
  BY <1>1, Paging DEF Pages
<1>3. scope.origin # "global" => ids # {} /\ ids \subseteq scope.files
  <2>1. search.docs \in Seq(Files)
    BY DEF Inv, Typed, SearchRecords
  <2>2. search.docs # <<>> => ids # {}
    <3>1. Len(search.docs) \in Nat /\ DOMAIN search.docs = 1..Len(search.docs)
      BY <2>1, LenProperties
    <3>2. search.docs # <<>> => 1 \in DOMAIN search.docs
      BY <2>1, <3>1, EmptySeq
    <3> QED
      BY <3>2 DEF Range
  <2> QED
    BY <2>2 DEF Inv, Restricted
<1>4. Within(ids) \subseteq Visible /\ (ids # {} => Within(ids) \subseteq ids)
  BY <1>1, Listing
<1> QED
  BY <1>1, <1>2, <1>3, <1>4

(* Pages that are found, of files that could be seen.                      *)
LEMMA Finding ==
  ASSUME Inv, UNCHANGED library, pc \in {"search", "rank", "synthesize"}, NEW to \in {"rank", "synthesize", "answered"},
         to = "rank" => pc = "search",
         NEW r \in PageLists, NEW p \in PageLists, NEW e \in PageLists,
         Documents(r) \cup Documents(p) \cup Documents(e) \subseteq seen,
         scope.origin # "global" => Documents(r) \cup Documents(p) \cup Documents(e) \subseteq scope.files,
         found' = [ranked |-> r, pool |-> p], evidence' = e, Goto(to), UNCHANGED <<scope, rows, facts, search, quoted>>
  PROVE  Inv'
<1>1. LibraryTyped' /\ Visible' = Visible /\ seen' = seen
  BY StayingTyped
<1>2. Typed'
  BY <1>1 DEF Inv, Typed, Goto, Steps
<1>3. Fresh'
  BY DEF Inv, Fresh, Goto
<1>4. Restricted'
  BY DEF Inv, Restricted, Goto
<1>5. WasVisible'
  BY <1>1 DEF Inv, WasVisible, Goto
<1> QED
  BY <1>2, <1>3, <1>4, <1>5 DEF Inv

(* SearchPages: rankings are of pages of the documents.                    *)
LEMMA SearchingPages ==
  ASSUME Inv, SearchPages, UNCHANGED library
  PROVE  Inv'
<1> DEFINE pages == PagesIn(Range(search.docs))
           size == Min({3 * search.top, Max({Limit["pool"], search.top})})
<1>1. PICK ranked \in SetToSeqs(pages), pool \in Rankings(pages, size) : found' = [ranked |-> ranked, pool |-> pool]
  BY DEF SearchPages
<1>2. pc = "search" /\ Goto("rank") /\ UNCHANGED <<scope, rows, facts, search, evidence, quoted>>
  BY DEF SearchPages
<1>3. /\ pages \in SUBSET Pages /\ IsFiniteSet(pages)
      /\ \A page \in pages : /\ FileOf(page) \in seen
                             /\ scope.origin # "global" => FileOf(page) \in scope.files
  BY <1>2, PagesOfDocuments
<1> HIDE DEF pages, size
<1>4. ranked \in Seq(pages) /\ IsInjective(ranked) /\ pool \in Seq(pages) /\ IsInjective(pool)
  BY <1>1, <1>3, Permuting, Ranking
<1>5. ranked \in PageLists /\ pool \in PageLists /\ Range(ranked) \subseteq pages /\ Range(pool) \subseteq pages
  BY <1>3, <1>4, LenProperties DEF PageLists, Range
<1>6. evidence \in PageLists /\ Documents(evidence) \subseteq seen
      /\ (scope.origin # "global" => Documents(evidence) \subseteq scope.files)
  BY DEF Inv, Typed, WasVisible, Restricted
<1>7. Documents(ranked) \cup Documents(pool) \subseteq seen
      /\ (scope.origin # "global" => Documents(ranked) \cup Documents(pool) \subseteq scope.files)
  BY <1>3, <1>5 DEF Documents
<1> QED
  BY <1>1, <1>2, <1>5, <1>6, <1>7, Finding

(* There is room for the quotas of documents when they are due.            *)
LEMMA DesiredPages ==
  ASSUME search \in SearchRecords
  PROVE  Desired \in Nat /\ (search.perDocument => Len(search.docs) * search.quota <= Desired)
<1> DEFINE n == Len(search.docs) * search.quota
<1>1. search.top \in Nat /\ search.quota \in Nat /\ Len(search.docs) \in Nat
  <2>1. search.docs \in Seq(Files) /\ search.top \in Nat /\ search.quota \in Nat
    BY DEF SearchRecords
  <2> QED
    BY <2>1, LenProperties
<1>2. n \in Nat
  BY <1>1
<1> HIDE DEF n
<1>3. Max({search.top, n}) \in Nat /\ n <= Max({search.top, n})
  <2>1. Max({search.top, n}) = IF search.top >= n THEN search.top ELSE n
    BY <1>1, <1>2, Smaller
  <2> QED
    BY <1>1, <1>2, <2>1
<1>4. Desired = IF search.perDocument THEN Max({search.top, n}) ELSE search.top
  BY DEF Desired, n
<1> QED
  BY <1>1, <1>3, <1>4 DEF n

(* The pool: leaders, what fills the quotas of documents, adjacent pages.  *)
LEMMA Pooling ==
  ASSUME search \in SearchRecords, found \in [ranked : PageLists, pool : PageLists],
         NEW expansion \in Seq(Pages), NEW near \in Seq(Pages), NEW leaders \in Seq(Pages)
  PROVE  LET pool == FinalPool(expansion, near, leaders)
             F == Filled(found.pool, search.docs, found.ranked \o expansion, search.quota)
         IN  /\ pool \in Seq(Pages) /\ IsInjective(pool)
             /\ \A x : x \in Range(pool) <=> x \in Range(leaders) \/ x \in Range(F) \/ x \in Range(near)
             /\ \A x \in Range(F) : x \in Range(found.pool) \/ x \in Range(found.ranked) \/ x \in Range(expansion)
<1> DEFINE from == found.ranked \o expansion
           F == Filled(found.pool, search.docs, from, search.quota)
           u == leaders \o F
           v == u \o near
<1>1. found.pool \in Seq(Pages) /\ found.ranked \in Seq(Pages) /\ search.docs \in Seq(Files) /\ search.quota \in Nat
  BY DEF PageLists, SearchRecords
<1>2. from \in Seq(Pages) /\ \A x : x \in Range(from) <=> x \in Range(found.ranked) \/ x \in Range(expansion)
  BY <1>1, Concatenating
<1> HIDE DEF from
<1>3. F \in Seq(Pages) /\ \A x \in Range(F) \ Range(found.pool) : x \in Range(from)
  BY <1>1, <1>2, Filling
<1> HIDE DEF F
<1>4. u \in Seq(Pages) /\ \A x : x \in Range(u) <=> x \in Range(leaders) \/ x \in Range(F)
  BY <1>3, Concatenating
<1> HIDE DEF u
<1>5. v \in Seq(Pages) /\ \A x : x \in Range(v) <=> x \in Range(u) \/ x \in Range(near)
  BY <1>4, Concatenating
<1> HIDE DEF v
<1>6. Distinct(v) \in Seq(Pages) /\ Range(Distinct(v)) = Range(v) /\ IsInjective(Distinct(v))
  BY <1>5, Distinguishing
<1>7. FinalPool(expansion, near, leaders) = Distinct(v)
  BY DEF FinalPool, v, u, F, from
<1>8. \A x \in Range(F) : x \in Range(found.pool) \/ x \in Range(found.ranked) \/ x \in Range(expansion)
  BY <1>2, <1>3
<1>9. \A x : x \in Range(Distinct(v)) <=> x \in Range(leaders) \/ x \in Range(F) \/ x \in Range(near)
  BY <1>4, <1>5, <1>6
<1> QED
  BY <1>6, <1>7, <1>8, <1>9 DEF F, from

(* What ScopeIsHeard says of a list of evidence and a pool.                *)
Hears(s, pool) ==
  /\ Len(search.order) <= Desired =>
       Range(Heard(pool, search.order, search.mapped)) \subseteq Range(Heard(s, search.order, search.mapped))
  /\ search.perDocument /\ search.quota > 0 /\ search.order = <<>> =>
       Range(search.docs) \cap Documents(pool) \subseteq Documents(s)

(* The pages of a list are finitely many.                                  *)
LEMMA PagesOfList ==
  ASSUME NEW s \in Seq(Pages)
  PROVE  Range(s) \in SUBSET Pages /\ IsFiniteSet(Range(s))
<1> DEFINE S == Range(s)
           I == 1..Len(s)
<1>1. Len(s) \in Nat /\ DOMAIN s = I /\ s \in [I -> Pages]
  BY LenProperties
<1>2. S \in SUBSET Pages /\ s \in Surjection(I, S)
  BY <1>1 DEF Surjection, Range
<1>3. IsFiniteSet(I)
  BY <1>1, FS_Interval
<1> HIDE DEF I, S
<1>4. IsFiniteSet(S)
  BY <1>2, <1>3, FS_Surjection
<1> QED
  BY <1>2, <1>4 DEF S

(* With room for their quotas, all documents of the pool have a page.      *)
LEMMA Limiting ==
  ASSUME search \in SearchRecords, NEW pool \in Seq(Pages), NEW adjacent,
         NEW l \in Seq(Pages), IsInjective(l), Range(l) \subseteq Range(pool)
  PROVE  LET w == Limited(l, pool, adjacent)
         IN  /\ w \in Seq(Pages) /\ IsInjective(w) /\ Range(w) \subseteq Range(pool)
             /\ search.perDocument /\ search.quota > 0 => Range(search.docs) \cap Documents(pool) \subseteq Documents(w)
<1> DEFINE t == Take(l, Desired)
           w == Limited(l, pool, adjacent)
<1>1. /\ Desired \in Nat /\ search.docs \in Seq(Files) /\ IsInjective(search.docs) /\ search.quota \in Nat
      /\ search.perDocument => Len(search.docs) * search.quota <= Desired
  BY DesiredPages DEF SearchRecords
<1>2. t \in Seq(Pages) /\ IsInjective(t) /\ Range(t) \subseteq Range(pool)
  BY <1>1, Taking
<1>3. CASE search.docs = <<>> \/ search.quota = 0
  <2>1. w = t
    BY <1>3 DEF Limited
  <2>2. search.quota > 0 => Range(search.docs) = {}
    BY <1>1, <1>3, Nothing
  <2> HIDE DEF t, w
  <2> QED
    BY <1>2, <2>1, <2>2 DEF w
<1>4. CASE ~(search.docs = <<>> \/ search.quota = 0)
  <2>1. w = QuotaKept(t, pool, search.docs, adjacent, search.quota, Desired)
    BY <1>4 DEF Limited
  <2> HIDE DEF t, w
  <2>2. LET result == QuotaKept(t, pool, search.docs, adjacent, search.quota, Desired)
        IN  /\ result \in Seq(Pages) /\ IsInjective(result)
            /\ Range(result) \subseteq Range(t) \cup Range(pool)
            /\ search.quota > 0 /\ Len(search.docs) * search.quota <= Desired
                 => Documents(pool) \cap Range(search.docs) \subseteq Documents(result)
    BY <1>1, <1>2, PagePairs, QuotaKeeping
  <2> QED
    BY <1>1, <1>2, <2>1, <2>2 DEF w
<1> QED
  BY <1>3, <1>4

(* Evidence is selected from the pool: the leaders, when there is room for *)
(* them, or else pages of every document.                                  *)
LEMMA Selected ==
  ASSUME search \in SearchRecords, NEW pool \in Seq(Pages), IsInjective(pool), NEW adjacent,
         NEW leaders \in Seq(Pages), IsInjective(leaders), Len(leaders) <= Len(search.order),
         Range(leaders) \subseteq Range(pool),
         \A e : Range(leaders) \subseteq Range(e) =>
           Range(Heard(pool, search.order, search.mapped)) \subseteq Range(Heard(e, search.order, search.mapped)),
         NEW s \in Selections(pool, adjacent, leaders)
  PROVE  s \in Seq(Pages) /\ IsInjective(s) /\ Range(s) \subseteq Range(pool) /\ Hears(s, pool)
<1> DEFINE depth == Max({Limit["rerank"], Desired})
           candidates == Take(pool, depth)
           kept == KeepsRanking(candidates)
<1>1. \/ kept /\ s = Due(candidates, leaders, pool, adjacent)
      \/ /\ ~kept
         /\ \E l \in SetToSeqs(Range(candidates)), best \in Leaders(pool, search.order, search.mapped) :
              s = Due(l, best, pool, adjacent)
  <2> DEFINE S == SetToSeqs(Range(candidates))
             L == Leaders(pool, search.order, search.mapped)
             due(l, best) == Due(l, best, pool, adjacent)
  <2>1. Selections(pool, adjacent, leaders) = IF kept THEN {due(candidates, leaders)}
                                              ELSE {due(l, best) : l \in S, best \in L}
    BY DEF Selections
  <2> HIDE DEF kept, candidates, S, L, due
  <2>2. (kept /\ s = due(candidates, leaders)) \/ (~kept /\ \E l \in S, best \in L : s = due(l, best))
    BY <2>1
  <2> QED
    BY <2>2 DEF S, L, due
<1>2. /\ Desired \in Nat /\ search.docs \in Seq(Files) /\ IsInjective(search.docs) /\ search.quota \in Nat
      /\ search.order \in Seq(Archives) /\ IsInjective(search.order)
      /\ search.perDocument => Len(search.docs) * search.quota <= Desired
  BY DesiredPages DEF SearchRecords
<1>3. depth \in Nat
  <2>1. Limit["rerank"] \in Nat
    BY LimitAssumption DEF LimitNames
  <2> QED
    BY <1>2, <2>1, Smaller
<1> HIDE DEF depth
<1>4. candidates \in Seq(Pages) /\ IsInjective(candidates) /\ Range(candidates) \subseteq Range(pool)
  BY <1>3, Taking
<1> HIDE DEF candidates, kept
<1>5. \E l \in Seq(Pages), best \in Seq(Pages) :
        /\ s = Due(l, best, pool, adjacent)
        /\ IsInjective(l) /\ Range(l) \subseteq Range(pool)
        /\ IsInjective(best) /\ Len(best) <= Len(search.order) /\ Range(best) \subseteq Range(pool)
        /\ \A e : Range(best) \subseteq Range(e) =>
             Range(Heard(pool, search.order, search.mapped)) \subseteq Range(Heard(e, search.order, search.mapped))
  <2>1. CASE kept
    BY <1>1, <1>4, <2>1
  <2>2. CASE ~kept
    <3> DEFINE S == Range(candidates)
    <3>1. S \in SUBSET Pages /\ IsFiniteSet(S)
      BY <1>4, PagesOfList
    <3>2. PICK l \in SetToSeqs(S), best \in Leaders(pool, search.order, search.mapped) :
            s = Due(l, best, pool, adjacent)
      BY <1>1, <2>2
    <3> HIDE DEF S
    <3>3. l \in Seq(S) /\ IsInjective(l)
      BY <3>1, Permuting
    <3>4. l \in Seq(Pages) /\ Range(l) \subseteq S
      BY <3>1, <3>3, LenProperties DEF Range
    <3>5. /\ best \in Seq(Pages) /\ IsInjective(best) /\ Len(best) <= Len(search.order)
          /\ Range(best) \subseteq Range(pool)
          /\ \A e : Range(best) \subseteq Range(e) =>
               Range(Heard(pool, search.order, search.mapped)) \subseteq Range(Heard(e, search.order, search.mapped))
      BY <1>2, Leading
    <3>6. Range(l) \subseteq Range(pool)
      BY <1>4, <3>4 DEF S
    <3> QED
      BY <3>2, <3>3, <3>4, <3>5, <3>6
  <2> QED
    BY <2>1, <2>2
<1>6. PICK l \in Seq(Pages), best \in Seq(Pages) :
        /\ s = Due(l, best, pool, adjacent)
        /\ IsInjective(l) /\ Range(l) \subseteq Range(pool)
        /\ IsInjective(best) /\ Len(best) <= Len(search.order) /\ Range(best) \subseteq Range(pool)
        /\ \A e : Range(best) \subseteq Range(e) =>
             Range(Heard(pool, search.order, search.mapped)) \subseteq Range(Heard(e, search.order, search.mapped))
  BY <1>5
<1> DEFINE w == Limited(l, pool, adjacent)
<1>7. /\ w \in Seq(Pages) /\ IsInjective(w) /\ Range(w) \subseteq Range(pool)
      /\ search.perDocument /\ search.quota > 0 => Range(search.docs) \cap Documents(pool) \subseteq Documents(w)
  BY <1>6, Limiting
<1>8. s = IF search.order = <<>> THEN w ELSE Prioritised(best, w, pool, Desired)
  BY <1>6 DEF Due
<1> HIDE DEF w
<1>9. CASE search.order = <<>>
  <2>1. Range(Heard(pool, search.order, search.mapped)) = {}
    <3>1. \A a : a \in Range(Heard(pool, search.order, search.mapped)) => a \in Range(search.order)
      BY <1>2, Hearing
    <3> QED
      BY <1>9, <3>1, Nothing
  <2> QED
    BY <1>7, <1>8, <1>9, <2>1 DEF Hears
<1>10. CASE search.order # <<>>
  <2>1. LET result == Prioritised(best, w, pool, Desired)
        IN  /\ result \in Seq(Pages) /\ IsInjective(result)
            /\ Range(result) \subseteq Range(best) \cup Range(w) \cup Range(pool)
            /\ IsInjective(best) /\ Len(best) <= Desired => Range(best) \subseteq Range(result)
    BY <1>2, <1>6, <1>7, Prioritising
  <2>2. Len(best) \in Nat /\ Len(search.order) \in Nat
    BY <1>2, <1>6, LenProperties
  <2>3. Len(search.order) <= Desired => Range(best) \subseteq Range(s)
    BY <1>2, <1>6, <1>8, <1>10, <2>1, <2>2
  <2> QED
    BY <1>6, <1>7, <1>8, <1>10, <2>1, <2>3 DEF Hears
<1> QED
  BY <1>9, <1>10

(* Putting evidence in the order of its pages keeps its pages.             *)
LEMMA Arranging ==
  ASSUME NEW s \in Seq(Pages), IsInjective(s)
  PROVE  Arranged(s) \in Seq(Pages) /\ IsInjective(Arranged(s)) /\ Range(Arranged(s)) = Range(s)
<1> DEFINE S == Range(s)
<1>1. S \in SUBSET Pages /\ IsFiniteSet(S)
  BY PagesOfList
<1>2. Arranged(s) = s \/ Arranged(s) = InPageOrder(S)
  BY DEF Arranged
<1>3. Range(s) = S
  OBVIOUS
<1> HIDE DEF S
<1>4. S \in SUBSET (Nat \X Nat)
  BY <1>1, PagePairs
<1>5. InPageOrder(S) \in Seq(S) /\ IsInjective(InPageOrder(S)) /\ Range(InPageOrder(S)) = S
  BY <1>1, <1>4, PageOrdering DEF Lists
<1>6. InPageOrder(S) \in Seq(Pages)
  BY <1>1, <1>5
<1> QED
  BY <1>2, <1>3, <1>5, <1>6

(* The evidence hears what its pool has.                                   *)
LEMMA RankingEvidence ==
  ASSUME Inv, RankEvidence, UNCHANGED library
  PROVE  Inv' /\ Hears(evidence', found'.pool) /\ search' = search
<1> DEFINE docs == search.docs
           order == search.order
           mapped == search.mapped
           pages == PagesIn(Range(docs))
           due == IF docs = <<>> \/ search.quota = 0 THEN {} ELSE pages \ Range(found.ranked)
<1>1. PICK expansion \in SetToSeqs(due) :
        LET filled == FinalPool(expansion, <<>>, <<>>)
            neighbours == Neighbours(filled, Range(docs))
        IN  \E adjacent \in {{}} \cup When(Asks(question, "representative"), {neighbours}) :
              LET near == InPageOrder(adjacent)
              IN  \E leaders \in Leaders(filled \o near, order, mapped) :
                    LET pool == FinalPool(expansion, near, leaders)
                    IN  \E s \in Selections(pool, adjacent, leaders) :
                          /\ evidence' = Arranged(s)
                          /\ found' = [NothingFound EXCEPT !.pool = pool]
  BY DEF RankEvidence
<1> DEFINE filled == FinalPool(expansion, <<>>, <<>>)
<1>2. PICK adjacent \in {{}} \cup When(Asks(question, "representative"), {Neighbours(filled, Range(docs))}) :
              LET near == InPageOrder(adjacent)
              IN  \E leaders \in Leaders(filled \o near, order, mapped) :
                    LET pool == FinalPool(expansion, near, leaders)
                    IN  \E s \in Selections(pool, adjacent, leaders) :
                          /\ evidence' = Arranged(s)
                          /\ found' = [NothingFound EXCEPT !.pool = pool]
  BY <1>1
<1> DEFINE near == InPageOrder(adjacent)
<1>3. PICK leaders \in Leaders(filled \o near, order, mapped) :
                    LET pool == FinalPool(expansion, near, leaders)
                    IN  \E s \in Selections(pool, adjacent, leaders) :
                          /\ evidence' = Arranged(s)
                          /\ found' = [NothingFound EXCEPT !.pool = pool]
  BY <1>2
<1> DEFINE pool == FinalPool(expansion, near, leaders)
<1>4. PICK s \in Selections(pool, adjacent, leaders) :
        evidence' = Arranged(s) /\ found' = [NothingFound EXCEPT !.pool = pool]
  BY <1>3
<1>5. pc = "rank" /\ Goto("synthesize") /\ UNCHANGED <<scope, rows, facts, search, quoted>>
  BY DEF RankEvidence
<1>6. /\ search \in SearchRecords /\ found \in [ranked : PageLists, pool : PageLists]
      /\ found.ranked \in PageLists /\ found.pool \in PageLists
      /\ order \in Seq(Archives) /\ IsInjective(order)
  BY DEF Inv, Typed, SearchRecords
<1>7. /\ pages \in SUBSET Pages /\ IsFiniteSet(pages)
      /\ \A page \in pages : /\ FileOf(page) \in seen
                             /\ scope.origin # "global" => FileOf(page) \in scope.files
  BY <1>5, PagesOfDocuments
<1>8. adjacent \in SUBSET pages
  <2>1. Neighbours(filled, Range(docs)) \subseteq pages
    BY StayingTyped, Adjoining
  <2> QED
    BY <2>1 DEF When
<1>9. due \in SUBSET pages
  OBVIOUS
<1> HIDE DEF pages, due, filled, near, pool
<1>10. expansion \in Seq(Pages) /\ Range(expansion) \subseteq pages
  <2>1. IsFiniteSet(due)
    BY <1>7, <1>9, FS_Subset
  <2>2. expansion \in Seq(due)
    BY <2>1, Permuting
  <2> QED
    BY <2>2, <1>7, <1>9, LenProperties DEF Range
<1>11. near \in Seq(Pages) /\ Range(near) = adjacent
  <2>1. adjacent \in SUBSET (Nat \X Nat) /\ IsFiniteSet(adjacent) /\ adjacent \in SUBSET Pages
    BY <1>7, <1>8, PagePairs, FS_Subset
  <2>2. near \in Seq(adjacent) /\ Range(near) = adjacent
    BY <2>1, PageOrdering DEF Lists, near
  <2> QED
    BY <2>1, <2>2
<1> DEFINE F == Filled(found.pool, docs, found.ranked \o expansion, search.quota)
           around == filled \o near
<1>12. <<>> \in Seq(Pages) /\ Range(<<>>) = {}
  BY Nothing
<1>13. /\ filled \in Seq(Pages)
       /\ \A x : x \in Range(filled) <=> x \in Range(F)
       /\ \A x \in Range(F) : x \in Range(found.pool) \/ x \in Range(found.ranked) \/ x \in Range(expansion)
  <2>1. LET p == FinalPool(expansion, <<>>, <<>>)
            G == Filled(found.pool, search.docs, found.ranked \o expansion, search.quota)
        IN  /\ p \in Seq(Pages)
            /\ \A x : x \in Range(p) <=> x \in Range(<<>>) \/ x \in Range(G) \/ x \in Range(<<>>)
            /\ \A x \in Range(G) : x \in Range(found.pool) \/ x \in Range(found.ranked) \/ x \in Range(expansion)
    BY <1>6, <1>10, <1>12, Pooling
  <2> QED
    BY <2>1, <1>12 DEF filled
<1> HIDE DEF F
<1>14. around \in Seq(Pages) /\ \A x : x \in Range(around) <=> x \in Range(F) \/ x \in adjacent
  <2>1. filled \o near \in Seq(Pages) /\ \A x : x \in Range(filled \o near) <=> x \in Range(filled) \/ x \in Range(near)
    BY <1>11, <1>13, Concatenating
  <2> QED
    BY <2>1, <1>11, <1>13
<1> HIDE DEF around
<1>15. /\ leaders \in Seq(Pages) /\ IsInjective(leaders) /\ Len(leaders) <= Len(order)
       /\ Range(leaders) \subseteq Range(around)
       /\ \A e : Range(leaders) \subseteq Range(e) =>
            Range(Heard(around, order, mapped)) \subseteq Range(Heard(e, order, mapped))
  <2>1. leaders \in Leaders(around, order, mapped)
    BY DEF around
  <2> HIDE DEF order, mapped
  <2> QED
    BY <1>6, <1>14, <2>1, Leading
<1>16. /\ pool \in Seq(Pages) /\ IsInjective(pool)
       /\ \A x : x \in Range(pool) <=> x \in Range(leaders) \/ x \in Range(F) \/ x \in Range(near)
  <2>1. LET p == FinalPool(expansion, near, leaders)
            G == Filled(found.pool, search.docs, found.ranked \o expansion, search.quota)
        IN  /\ p \in Seq(Pages) /\ IsInjective(p)
            /\ \A x : x \in Range(p) <=> x \in Range(leaders) \/ x \in Range(G) \/ x \in Range(near)
    BY <1>6, <1>10, <1>11, <1>15, Pooling
  <2> QED
    BY <2>1 DEF pool, F
<1>17. Range(pool) = Range(around)
  BY <1>11, <1>14, <1>15, <1>16
<1>18. \A a : a \in Range(Heard(pool, order, mapped)) <=> a \in Range(Heard(around, order, mapped))
  <2> HIDE DEF order, mapped
  <2>1. \A a : a \in Range(Heard(pool, order, mapped)) <=>
                 a \in Range(order) /\ \E page \in Range(pool) : FileOf(page) \in mapped /\ ArchiveOfPage(page) = a
    BY <1>6, Hearing
  <2>2. \A a : a \in Range(Heard(around, order, mapped)) <=>
                 a \in Range(order) /\ \E page \in Range(around) : FileOf(page) \in mapped /\ ArchiveOfPage(page) = a
    BY <1>6, Hearing
  <2> QED
    BY <1>17, <2>1, <2>2
<1>19. s \in Seq(Pages) /\ IsInjective(s) /\ Range(s) \subseteq Range(pool) /\ Hears(s, pool)
  <2>1. \A e : Range(leaders) \subseteq Range(e) =>
          Range(Heard(pool, search.order, search.mapped)) \subseteq Range(Heard(e, search.order, search.mapped))
    BY <1>15, <1>18
  <2> QED
    BY <1>6, <1>15, <1>16, <1>17, <2>1, Selected
<1>20. evidence' \in PageLists /\ Range(evidence') = Range(s)
  BY <1>4, <1>19, Arranging DEF PageLists
<1>21. Hears(evidence', pool)
  <2>1. Documents(evidence') = Documents(s)
    BY <1>20 DEF Documents
  <2>2. \A a : a \in Range(Heard(evidence', order, mapped)) <=> a \in Range(Heard(s, order, mapped))
    <3> HIDE DEF order, mapped
    <3> DEFINE e == evidence'
    <3> HIDE DEF e
    <3>1. \A a : a \in Range(Heard(e, order, mapped)) <=>
                   a \in Range(order) /\ \E page \in Range(e) : FileOf(page) \in mapped /\ ArchiveOfPage(page) = a
      BY <1>6, Hearing
    <3>2. \A a : a \in Range(Heard(s, order, mapped)) <=>
                   a \in Range(order) /\ \E page \in Range(s) : FileOf(page) \in mapped /\ ArchiveOfPage(page) = a
      BY <1>6, Hearing
    <3> QED
      BY <1>20, <3>1, <3>2 DEF e
  <2> QED
    BY <1>19, <2>1, <2>2 DEF Hears
<1>22. found' = [ranked |-> <<>>, pool |-> pool]
  BY <1>4 DEF NothingFound
<1>23. \A x \in Range(pool) : /\ FileOf(x) \in seen
                              /\ scope.origin # "global" => FileOf(x) \in scope.files
  <2>1. \A x \in Range(pool) : x \in Range(found.pool) \/ x \in Range(found.ranked) \/ x \in pages
    BY <1>8, <1>10, <1>13, <1>14, <1>17
  <2>2. \A x \in Range(found.pool) \cup Range(found.ranked) :
          FileOf(x) \in Documents(found.pool) \cup Documents(found.ranked)
    BY DEF Documents
  <2>3. /\ Documents(found.pool) \cup Documents(found.ranked) \subseteq seen
        /\ scope.origin # "global" => Documents(found.pool) \cup Documents(found.ranked) \subseteq scope.files
    BY DEF Inv, WasVisible, Restricted
  <2> QED
    BY <1>7, <2>1, <2>2, <2>3
<1>24. /\ Documents(<<>>) \cup Documents(pool) \cup Documents(evidence') \subseteq seen
       /\ scope.origin # "global" => Documents(<<>>) \cup Documents(pool) \cup Documents(evidence') \subseteq scope.files
  BY <1>19, <1>20, <1>23, Nothing DEF Documents
<1>25. pool \in PageLists /\ <<>> \in PageLists
  BY <1>16, Nothing DEF PageLists
<1>26. Inv'
  <2> DEFINE e == evidence'
             r == <<>>
  <2>1. e \in PageLists /\ r \in PageLists /\ evidence' = e /\ found' = [ranked |-> r, pool |-> pool]
        /\ Documents(r) \cup Documents(pool) \cup Documents(e) \subseteq seen
        /\ (scope.origin # "global" => Documents(r) \cup Documents(pool) \cup Documents(e) \subseteq scope.files)
    BY <1>20, <1>22, <1>24, <1>25
  <2> HIDE DEF e, r
  <2> QED
    BY <1>5, <1>25, <2>1, Finding
<1> QED
  BY <1>5, <1>21, <1>22, <1>26

(* SynthesizeAnswer: the answer is given evidence that was ranked.         *)
LEMMA SynthesizingAnswer ==
  ASSUME Inv, SynthesizeAnswer, UNCHANGED library
  PROVE  Inv'
<1>1. /\ found.ranked \in PageLists /\ found.pool \in PageLists /\ evidence \in PageLists
      /\ found = [ranked |-> found.ranked, pool |-> found.pool]
  BY DEF Inv, Typed
<1>2. evidence' \in PageLists /\ Range(evidence') \subseteq Range(evidence)
  <2>1. Limit["answer"] \in Nat
    BY LimitAssumption DEF LimitNames
  <2>2. LET taken == Take(evidence, Limit["answer"])
        IN  taken \in Seq(Pages) /\ IsInjective(taken) /\ Range(taken) \subseteq Range(evidence)
    BY <1>1, <2>1, Taking DEF PageLists
  <2>3. evidence' = evidence \/ evidence' = Take(evidence, Limit["answer"])
    BY DEF SynthesizeAnswer
  <2> QED
    BY <1>1, <2>2, <2>3 DEF PageLists
<1>3. Documents(evidence') \subseteq Documents(evidence)
  BY <1>2 DEF Documents
<1>4. /\ Documents(found.ranked) \cup Documents(found.pool) \cup Documents(evidence) \subseteq seen
      /\ scope.origin # "global" =>
           Documents(found.ranked) \cup Documents(found.pool) \cup Documents(evidence) \subseteq scope.files
  BY DEF Inv, WasVisible, Restricted
<1>5. /\ pc = "synthesize" /\ Goto("answered") /\ found' = found
      /\ UNCHANGED <<scope, rows, facts, search, quoted>>
  BY DEF SynthesizeAnswer
<1> DEFINE r == found.ranked
           p == found.pool
           e == evidence'
<1>6. /\ r \in PageLists /\ p \in PageLists /\ e \in PageLists /\ found' = [ranked |-> r, pool |-> p] /\ evidence' = e
      /\ Documents(r) \cup Documents(p) \cup Documents(e) \subseteq seen
      /\ scope.origin # "global" => Documents(r) \cup Documents(p) \cup Documents(e) \subseteq scope.files
  BY <1>1, <1>2, <1>3, <1>4, <1>5
<1> HIDE DEF r, p, e
<1> QED
  BY <1>5, <1>6, Finding

-----------------------------------------------------------------------------
(* The invariants                                                           *)

(* Every step of the pipeline keeps the invariant.                         *)
LEMMA Stepping ==
  ASSUME Inv, Step, UNCHANGED library
  PROVE  Inv'
<1>1. CASE FilterRequested
  BY <1>1, FilteringRequested
<1>2. CASE NarrowRequested
  BY <1>2, NarrowingRequested
<1>3. CASE InferScope
  BY <1>3, InferringScope
<1>4. CASE ReuseConversation
  BY <1>4, ReusingConversation
<1>5. CASE LoadMetadata
  BY <1>5, LoadingMetadata
<1>6. CASE ResolveFacts
  BY <1>6, ResolvingFacts
<1>7. CASE EnrichFacts
  BY <1>7, EnrichingFacts
<1>8. CASE DecideAnswerability
  BY <1>8, DecidingAnswerability
<1>9. CASE RestrictFiles
  BY <1>9, RestrictingFiles
<1>10. CASE ShortlistDocuments
  BY <1>10, ShortlistingDocuments
<1>11. CASE SearchPages
  BY <1>11, SearchingPages
<1>12. CASE RankEvidence
  BY <1>12, RankingEvidence
<1>13. CASE SynthesizeAnswer
  BY <1>13, SynthesizingAnswer
<1>14. CASE NodeFails
  BY <1>14, Failing DEF NodeFails
<1> QED
  BY <1>1, <1>2, <1>3, <1>4, <1>5, <1>6, <1>7, <1>8, <1>9, <1>10, <1>11, <1>12, <1>13, <1>14 DEF Step

(* So does a step of something else.                                       *)
LEMMA Stuttering ==
  ASSUME Inv, UNCHANGED vars
  PROVE  Inv'
<1>1. LibraryTyped' /\ Visible' = Visible /\ seen' = seen
  BY StayingTyped DEF vars
<1>2. Typed'
  BY <1>1 DEF Inv, Typed, vars, run
<1>3. Fresh' /\ Restricted'
  BY DEF Inv, Fresh, Restricted, vars, run
<1>4. WasVisible'
  BY <1>1 DEF Inv, WasVisible, vars, run
<1> QED
  BY <1>2, <1>3, <1>4 DEF Inv

(* What is inductive: the types, that nothing is there before its time,    *)
(* that everything passed on is in scope, and that all of it could be seen.*)
THEOREM Invariance == Spec => []Inv
<1>1. Inv /\ [Next]_vars => Inv'
  <2> SUFFICES ASSUME Inv, [Next]_vars
               PROVE  Inv'
    OBVIOUS
  <2>1. CASE Ask
    BY <2>1, Asking
  <2>2. CASE Step /\ UNCHANGED library
    BY <2>2, Stepping
  <2>3. CASE InFlight /\ ChangeLibrary /\ UNCHANGED <<question, pc, run>>
    BY <2>3, ChangingMeanwhile
  <2>4. CASE UNCHANGED vars
    BY <2>4, Stuttering
  <2> QED
    BY <2>1, <2>2, <2>3, <2>4 DEF Next
<1> QED
  BY Beginning, <1>1, PTL DEF Spec

(* No page is a candidate twice, or evidence twice, whatever documents and *)
(* archives are given, and however it was found.                           *)
THEOREM TypeCorrect == Spec => []TypeOK
<1>1. Inv => TypeOK
  <2> SUFFICES ASSUME Inv
               PROVE  TypeOK
    OBVIOUS
  <2>1. \A s \in {found.ranked, found.pool, evidence} : s \in Seq(Pages) /\ IsInjective(s)
    BY DEF Inv, Typed, PageLists
  <2>2. \A s \in {found.ranked, found.pool, evidence} : Range(s) \subseteq Pages
    BY <2>1, LenProperties DEF Range
  <2>3. search.docs \in Seq(Files) /\ IsInjective(search.docs)
    BY DEF Inv, Typed, SearchRecords
  <2>4. Range(search.docs) \subseteq Files
    BY <2>3, LenProperties DEF Range
  <2>5. facts.files \subseteq Files
    BY DEF Inv, Typed, FactRecords
  <2> QED
    BY <2>1, <2>2, <2>3, <2>4, <2>5 DEF Inv, Typed, LibraryTyped, TypeOK
<1> QED
  BY Invariance, <1>1, PTL

(* A question about some files is answered from these, wherever nothing is *)
(* found on the way, and whatever is deleted or withdrawn meanwhile.       *)
THEOREM EvidenceStaysInScope == Spec => []EvidenceInScope
<1>1. Inv => EvidenceInScope
  BY DEF Inv, Restricted, EvidenceInScope, Documents
<1> QED
  BY Invariance, <1>1, PTL

(* What an answer is given could be seen at some moment since asking.      *)
THEOREM EvidenceIsOfVisibleFiles == Spec => []EvidenceWasVisible
<1>1. Inv => EvidenceWasVisible
  BY DEF Inv, WasVisible, EvidenceWasVisible, Documents
<1> QED
  BY Invariance, <1>1, PTL

(* Only the ranking of evidence leads to where archives and documents have *)
(* to be heard; a question that metadata answers has no evidence there.    *)
LEMMA HearingAfterwards ==
  ASSUME Inv, ScopeIsHeard, [Next]_vars
  PROVE  ScopeIsHeard'
<1>1. CASE UNCHANGED <<pc, run>>
  <2>1. pc' = pc /\ search' = search /\ found' = found /\ evidence' = evidence
    BY <1>1 DEF run
  <2>2. Desired' = Desired
    BY <2>1 DEF Desired
  <2> QED
    BY <2>1, <2>2 DEF ScopeIsHeard
<1>2. CASE RankEvidence /\ UNCHANGED library
  <2>1. Hears(evidence', found'.pool) /\ search' = search
    BY <1>2, RankingEvidence
  <2>2. Desired' = Desired
    BY <2>1 DEF Desired
  <2>3. /\ Len(search.order) <= Desired =>
             Range(Heard(found'.pool, search.order, search.mapped))
               \subseteq Range(Heard(evidence', search.order, search.mapped))
        /\ search.perDocument /\ search.quota > 0 /\ search.order = <<>> =>
             Range(search.docs) \cap {FileOf(page) : page \in Range(found'.pool)}
               \subseteq {FileOf(page) : page \in Range(evidence')}
    BY <2>1 DEF Hears, Documents
  <2> QED
    BY <2>1, <2>2, <2>3 DEF ScopeIsHeard
<1>3. CASE DecideAnswerability
  <2>1. search = NoSearch /\ found = NothingFound /\ evidence = <<>>
    BY <1>3 DEF Inv, Fresh, DecideAnswerability
  <2>2. search'.perDocument = FALSE /\ found'.pool = evidence'
    BY <1>3, <2>1, Nothing DEF DecideAnswerability
  <2> QED
    BY <2>2 DEF ScopeIsHeard
<1>4. CASE pc' # "synthesize"
  BY <1>4 DEF ScopeIsHeard
<1>5. \/ UNCHANGED <<pc, run>>
      \/ RankEvidence /\ UNCHANGED library
      \/ DecideAnswerability
      \/ pc' # "synthesize"
  <2>1. ASSUME Step
        PROVE  RankEvidence \/ DecideAnswerability \/ pc' # "synthesize"
    <3>1. CASE FilterRequested \/ NarrowRequested \/ InferScope
      BY <3>1 DEF FilterRequested, NarrowRequested, InferScope, Scoped, Fail, Goto
    <3>2. CASE ReuseConversation \/ ResolveFacts \/ EnrichFacts
      BY <3>2 DEF ReuseConversation, ResolveFacts, EnrichFacts, Goto
    <3>3. CASE LoadMetadata
      BY <3>3 DEF LoadMetadata, Fail, Goto
    <3>4. CASE RestrictFiles \/ ShortlistDocuments \/ SearchPages \/ SynthesizeAnswer \/ NodeFails
      BY <3>4 DEF RestrictFiles, ShortlistDocuments, SearchPages, SynthesizeAnswer, NodeFails, Fail, Goto
    <3> QED
      BY <2>1, <3>1, <3>2, <3>3, <3>4 DEF Step
  <2>2. CASE Ask
    BY <2>2 DEF Ask, Goto
  <2>3. CASE Step /\ UNCHANGED library
    BY <2>1, <2>3
  <2>4. CASE InFlight /\ ChangeLibrary /\ UNCHANGED <<question, pc, run>>
    BY <2>4
  <2>5. CASE UNCHANGED vars
    BY <2>5 DEF vars
  <2> QED
    BY <2>2, <2>3, <2>4, <2>5 DEF Next
<1> QED
  BY <1>1, <1>2, <1>3, <1>4, <1>5

(* Archives and documents that have a page among the candidates have one   *)
(* in the evidence, where there is room for all of them.                   *)
THEOREM EveryoneIsHeard == Spec => []ScopeIsHeard
<1>1. Init => ScopeIsHeard
  BY DEF Init, ScopeIsHeard
<1>2. Inv /\ ScopeIsHeard /\ [Next]_vars => ScopeIsHeard'
  BY HearingAfterwards
<1> QED
  BY Invariance, <1>1, <1>2, PTL DEF Spec
=============================================================================
