---------------------------- MODULE QuestionClass ----------------------------
(***************************************************************************)
(* The class of a question (rag/question_classifier.py): the first rule    *)
(* whose terms it has.  A group of terms that the rules look for is a      *)
(* signal, and a question is the set of signals it gives.                  *)
(***************************************************************************)
EXTENDS Naturals, Sequences, FiniteSetsExt

Signals == {
  "inventory", "visual", "signature date", "temporal", "content", "quality", "validation",
  "citation", "comparison", "focus", "prompt", "archive", "field terms", "aggregate",
  "aggregate terms", "listing terms", "versioned", "timeline", "grounding", "analysis",
  "lookup", "summary",
  (* those of the fact resolver *)
  "filtered", "document list", "reasoning", "evidence", "source content", "counts",
  "quantified", "pattern", "compare", "representative", "whole document"}

Classes == {"extractive", "inventory", "visual_consistency", "temporal", "exhaustive_synthesis",
            "metadata_comparison", "analytics", "versioned"}

\* The rules of classify, in their order.
Rules(s) ==
  LET Has(x) == x \in s
      metadata == Has("focus") \/ Has("prompt")
      grounded == Has("grounding") \/ Has("citation")
  IN  << <<Has("inventory"), "inventory">>,
         <<Has("visual") /\ ~Has("signature date"), "visual_consistency">>,
         <<Has("temporal"), "temporal">>,
         <<Has("content"), "exhaustive_synthesis">>,
         <<Has("quality") /\ (metadata \/ Has("archive")), "metadata_comparison">>,
         <<Has("validation") /\ (metadata \/ Has("archive")) /\ ~Has("citation") /\ ~Has("comparison"),
           "metadata_comparison">>,
         <<Has("comparison") /\ metadata /\ grounded, "exhaustive_synthesis">>,
         <<Has("comparison") /\ Has("focus") /\ Has("field terms"), "metadata_comparison">>,
         <<Has("aggregate") /\ (metadata \/ Has("aggregate terms")), "analytics">>,
         <<Has("prompt") /\ (Has("aggregate") \/ Has("listing terms")), "analytics">>,
         <<Has("versioned") /\ ~Has("comparison"), "versioned">>,
         <<Has("timeline"), "exhaustive_synthesis">>,
         <<grounded \/ (Has("analysis") /\ Has("comparison") /\ ~Has("focus")), "exhaustive_synthesis">>,
         <<Has("comparison") /\ (metadata \/ Has("archive")), "metadata_comparison">>,
         <<Has("archive") /\ Has("lookup") /\ ~grounded /\ ~Has("analysis") /\ ~Has("comparison"),
           "metadata_comparison">>,
         <<metadata /\ ~Has("analysis") /\ ~Has("citation") /\ ~Has("aggregate"),
           "metadata_comparison">>,
         <<Has("versioned"), "versioned">>,
         <<Has("aggregate"), "analytics">>,
         <<Has("summary"), "exhaustive_synthesis">>,
         <<TRUE, "extractive">> >>

\* classify
Classify(s) == Rules(s)[Min({i \in DOMAIN Rules(s) : Rules(s)[i][1]})][2]
=============================================================================
