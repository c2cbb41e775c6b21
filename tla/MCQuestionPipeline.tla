-------------------------- MODULE MCQuestionPipeline --------------------------
(***************************************************************************)
(* A library of three files: two of the asker in one archive, and one of   *)
(* another user in another archive, which is shared or not.  The limits    *)
(* are as small as the library, so that each of them is met.               *)
(***************************************************************************)
EXTENDS QuestionPipeline, TLC

CONSTANTS asker, other

MCUsers == {asker, other}
MCFiles == 1..3
MCOwnerOf == <<asker, asker, other>>
MCArchiveOf == <<"a", "a", "b">>
MCNameOf == <<"x", "y", "x">>
MCCodeOf == <<"one", "two", "two">>
MCPagesOf == <<2, 1, 1>>

MCLimit ==
  [top |-> 2, scoped |-> 1, global |-> 2, archives |-> 1, coverage |-> 1, pages |-> 2, pool |-> 2,
   rerank |-> 3, compared |-> 1, few |-> 1, answer |-> 1]

Question(asks) ==
  [requested |-> {}, hard |-> {}, archives |-> {}, names |-> {}, codes |-> {}, infer |-> TRUE,
   refers |-> FALSE, conversation |-> {}, conversationArchives |-> {}, heard |-> {},
   fields |-> FALSE, metadataFirst |-> FALSE, quota |-> 0, perDocument |-> FALSE, asks |-> asks]

MCQuestions ==
  {Question({}),
   [Question({"temporal"}) EXCEPT !.requested = {1, 3}],
   [Question({"inventory", "reasoning"}) EXCEPT !.requested = {2, 3}],
   [Question({"whole document"}) EXCEPT !.requested = {1, 2, 3}, !.names = {"x"}],
   [Question({"filtered"}) EXCEPT !.requested = {2, 3}, !.archives = {"a"}],
   [Question({"archive", "comparison", "compare", "evidence"}) EXCEPT !.archives = {"a", "b"}],
   [Question({"inventory"}) EXCEPT !.codes = {"two"}],
   [Question({}) EXCEPT !.refers = TRUE, !.conversation = {1, 3}, !.heard = {"x"}],
   [Question({"aggregate", "prompt", "counts"}) EXCEPT
      !.refers = TRUE, !.conversationArchives = {"a", "b"}],
   [Question({"pattern"}) EXCEPT !.metadataFirst = TRUE, !.fields = TRUE, !.infer = FALSE],
   [Question({"representative"}) EXCEPT !.hard = {"a"}, !.perDocument = TRUE, !.quota = 1],
   [Question({"content"}) EXCEPT !.requested = {1, 2, 3}, !.perDocument = TRUE, !.quota = 1],
   [Question({"representative"}) EXCEPT !.requested = {1, 2, 3}]}
=============================================================================
