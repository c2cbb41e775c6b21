--------------------------- MODULE MCQaConversation ---------------------------
(***************************************************************************)
(* Instances of QaConversation: a conversation of two streams and a plain  *)
(* request, which is about one file, and one of a stream and that request. *)
(***************************************************************************)
EXTENDS QaConversation, TLC

CONSTANTS s1, s2, q1

MCThree == {s1, s2, q1}
MCTwoStreams == {s1, s2}

\* The two streams may be exchanged; no property of these runs is a liveness one.
MCSymmetry == Permutations(MCTwoStreams)

MCTwo == {s1, q1}
MCOneStream == {s1}

MCScoped == {q1}
=============================================================================
