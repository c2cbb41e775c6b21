---------------------------- MODULE QuestionScope ----------------------------
(***************************************************************************)
(* The files a question is about (rag/scope_resolver.py).  Files may be    *)
(* requested, and then the archives, file names or document codes of the   *)
(* question narrow them down; without a request the question itself gives  *)
(* the scope, or the turns before it, or there is none.                    *)
(***************************************************************************)
EXTENDS Library

\* A scope is 'global' when the question names nothing, and then has no files.
Scope(files, origin, archives) == [files |-> files, origin |-> origin, archives |-> archives]
Global == Scope({}, "global", {})
Origins == {"global", "manual", "inferred", "metadata", "conversation"}
Scopes(archives) == {s \in [files : SUBSET Files, origin : Origins, archives : SUBSET archives] :
                       s.origin = "global" <=> s.files = {}}

\* Archives that were requested leave the names and codes of the question out.
Candidates(q) == IF q.hard # {} THEN q.hard ELSE q.archives
CandidateNames(q) == IF q.hard # {} THEN {} ELSE q.names
CandidateCodes(q) == IF q.hard # {} THEN {} ELSE q.codes

\* What narrows the scope down: archives before names, names before codes.
Narrowing(q) ==
  IF Candidates(q) # {} /\ (q.infer \/ q.hard # {}) THEN "archives"
  ELSE IF ~q.infer THEN "nothing"
  ELSE IF CandidateNames(q) # {} THEN "names"
  ELSE IF CandidateCodes(q) # {} THEN "codes" ELSE "nothing"

\* All archives and codes have to be known, while unknown names are passed over.
Unknown(q) ==
  \/ Narrowing(q) = "archives" /\ ~(Candidates(q) \subseteq KnownArchives)
  \/ Narrowing(q) = "codes" /\ ~(CandidateCodes(q) \subseteq KnownCodes)

\* The files that what narrows the scope down lists.
Named(q, ids) ==
  CASE Narrowing(q) = "archives" -> InArchives(Candidates(q))
    [] Narrowing(q) = "names"    -> WithNames(CandidateNames(q), ids)
    [] Narrowing(q) = "codes"    -> WithCodes(CandidateCodes(q))

NamedScope(q, files) ==
  CASE Narrowing(q) = "archives" -> Scope(files, "metadata", Candidates(q))
    [] Narrowing(q) = "names"    -> Scope(files, "manual", {})
    [] Narrowing(q) = "codes"    -> Scope(files, "inferred", {})

\* The files of the turns before that are still accessible.
ConversationFiles(q) ==
  Accessible(IF q.conversation # {} THEN q.conversation ELSE InArchives(q.conversationArchives))

\* A question that names nothing may refer to what the turns before were about.
FollowsUp(q) ==
  /\ q.infer /\ q.refers /\ Candidates(q) = {} /\ q.names = {} /\ q.codes = {}
  /\ ConversationFiles(q) # {}

ConversationScope(q) ==
  Scope(ConversationFiles(q), "conversation",
        IF q.conversationArchives # {} THEN q.conversationArchives
        ELSE {ArchiveOf[f] : f \in ConversationFiles(q)})
=============================================================================
