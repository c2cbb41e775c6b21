------------------------------- MODULE Library -------------------------------
(***************************************************************************)
(* What a question finds in the database: the files a user may see, the    *)
(* archives they belong to, and the metadata of those archives             *)
(* (repositories/file_repository.py and archive_metadata_repository.py).   *)
(* Every listing asks for access by itself, and is one transaction: owners *)
(* share, withdraw and delete files between any two of them.               *)
(***************************************************************************)
EXTENDS Naturals, FiniteSets, FiniteSetsExt, SequencesExt

CONSTANTS
  Files,           \* ids of files
  Users,
  Asker,           \* the user who asks
  OwnerOf,         \* [Files -> Users]
  ArchiveOf,       \* [Files -> archives]
  NameOf,          \* [Files -> names that the lookup takes for the same]
  CodeOf,          \* [Files -> document codes]
  PagesOf,         \* [Files -> Nat]: its pages, which have embeddings
  MaxChanges       \* bound: how often files and metadata change

Archives == {ArchiveOf[f] : f \in Files}
Names == {NameOf[f] : f \in Files}
Codes == {CodeOf[f] : f \in Files}

\* archive_metadata has one row for a user and an archive.
MetadataKey(f) == <<OwnerOf[f], ArchiveOf[f]>>
MetadataKeys == {MetadataKey(f) : f \in Files}

ASSUME LibraryAssumption ==
  /\ Files \subseteq Nat \ {0} /\ IsFiniteSet(Files)
  /\ Asker \in Users
  /\ OwnerOf \in [Files -> Users]
  /\ PagesOf \in [Files -> Nat]
  /\ MaxChanges \in Nat

VARIABLES
  present,      \* the files with a row
  shared,       \* those with access scope 'all'
  described,    \* the metadata keys with a row
  changes,      \* counted against the bound
  seen          \* history: files the asker could see since the question was asked

library == <<present, shared, described, changes, seen>>

-----------------------------------------------------------------------------
(* Listings                                                                 *)

\* _file_access_condition with include_shared
Visible == {f \in present : OwnerOf[f] = Asker \/ f \in shared}

\* Mutant of Within: a search without a list of ids does not ask for access.
WithinExisting(ids) == IF ids = {} THEN present ELSE Visible \cap ids

\* An empty list of ids leaves a search unrestricted.
Within(ids) == IF ids = {} THEN Visible ELSE Visible \cap ids

\* filter_file_ids_for_user
Accessible(ids) == Visible \cap ids

\* list_known_archive_slugs_for_user, list_distinct_document_codes_for_user
KnownArchives == {ArchiveOf[f] : f \in Visible}
KnownCodes == {CodeOf[f] : f \in Visible}

\* list_file_ids_for_archive_slugs, _document_codes and _input_filenames
InArchives(archives) == {f \in Visible : ArchiveOf[f] \in archives}
WithCodes(codes) == {f \in Visible : CodeOf[f] \in codes}
WithNames(names, ids) == {f \in Within(ids) : NameOf[f] \in names}

\* search_file_ids_by_metadata_query, and the archives whose metadata has the
\* concepts of the question: some of the files with metadata.
DescribedFiles(ids) == {f \in Within(ids) : MetadataKey(f) \in described}

\* The first file of its owner and archive.
IsFirst(f) == \A g \in Visible : MetadataKey(g) = MetadataKey(f) => f <= g

\* _load_archive_metadata_rows: one entry for each archive that has metadata, with
\* the first of the listed files, or, without a list, the first of one of the users
\* who have the archive.
MetadataEntries(ids) ==
  LET all == DescribedFiles(ids)
      least == IF ids = {} THEN {f \in all : IsFirst(f)}
               ELSE {f \in all : \A g \in all : ArchiveOf[g] = ArchiveOf[f] => f <= g}
  IN  {R \in SUBSET least : \A a \in {ArchiveOf[f] : f \in all} :
                              Cardinality({f \in R : ArchiveOf[f] = a}) = 1}

\* The pages of the searches, and of list_embeddings.
PagesIn(ids) == UNION {{<<f, n>> : n \in 1..PagesOf[f]} : f \in Within(ids)}

-----------------------------------------------------------------------------
(* What other requests do meanwhile                                         *)

InitLibrary ==
  /\ present = Files
  /\ shared \in SUBSET {f \in Files : OwnerOf[f] # Asker}
  /\ described \in SUBSET MetadataKeys
  /\ changes = 0
  /\ seen = {}

Change ==
  /\ changes < MaxChanges
  /\ changes' = changes + 1
  /\ seen' = seen \cup Visible'

\* update_file_access_scope
SetAccess(f) ==
  /\ f \in present
  /\ shared' = SymDiff(shared, {f})
  /\ UNCHANGED <<present, described>>
  /\ Change

\* delete_file
DeleteFile(f) ==
  /\ f \in present
  /\ present' = present \ {f}
  /\ shared' = shared \ {f}
  /\ UNCHANGED described
  /\ Change

\* A dataset is attached to an archive, or its link is taken away.
SetMetadata(k) ==
  /\ described' = SymDiff(described, {k})
  /\ UNCHANGED <<present, shared>>
  /\ Change

ChangeLibrary ==
  \/ \E f \in Files : SetAccess(f) \/ DeleteFile(f)
  \/ \E k \in MetadataKeys : SetMetadata(k)
=============================================================================
