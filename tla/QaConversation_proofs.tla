------------------------- MODULE QaConversation_proofs -------------------------
(***************************************************************************)
(* Proofs about QaConversation, for any requests and any bounds.           *)
(***************************************************************************)
EXTENDS QaConversation, NaturalsInduction, WellFoundedInduction, TLAPS

USE DEF transaction

(* A non-empty set of numbers with a bound has a largest one.              *)
LEMMA Largest ==
  ASSUME NEW S \in SUBSET Nat, NEW b \in Nat, \A x \in S : x <= b, S # {}
  PROVE  Max(S) \in S /\ \A y \in S : Max(S) >= y
<1> DEFINE T == {n \in Nat : \E x \in S : n = b - x}
           Less == {p \in Nat \X Nat : p[1] < p[2]}
<1>1. IsWellFoundedOn(Less, Nat)
  <2>1. IsWellFoundedOn(OpToRel(<, Nat), Nat)
    BY NatLessThanWellFounded
  <2>2. OpToRel(<, Nat) = Less
    BY DEF OpToRel
  <2> QED
    BY <2>1, <2>2
<1>2. T \subseteq Nat /\ T # {}
  <2>1. PICK x \in S : TRUE
    OBVIOUS
  <2>2. b - x \in T
    BY <2>1
  <2> QED
    BY <2>2
<1>3. PICK n \in T : \A m \in T : ~(<<m, n>> \in Less)
  <2> HIDE DEF T, Less
  <2> QED
    BY <1>1, <1>2, WFMin
<1>4. PICK x \in S : n = b - x
  BY <1>3
<1>5. \A y \in S : x >= y
  <2> SUFFICES ASSUME NEW y \in S PROVE x >= y
    OBVIOUS
  <2>1. b - y \in T
    OBVIOUS
  <2>2. ~(b - y < n)
    BY <2>1, <1>2, <1>3
  <2> QED
    BY <2>2, <1>4
<1> QED
  BY <1>5 DEF Max

-----------------------------------------------------------------------------
(* A node of run r other than the last, which leaves the turns alone.      *)
Advance(r, n, v) ==
  /\ Step(r, n, v)
  /\ UNCHANGED <<transaction, shown, raced, dropped>>

(* What the channels hold when node n is about to run: by the time the     *)
(* answer is written, its pages are those that were retrieved for its      *)
(* question.                                                               *)
Sound(n, v) ==
  /\ n \in {"fuse_page_evidence", "maybe_verify_visual", "synthesize_document_answer",
            "persist_turn", "insert", "commit", "report"} => v.evidence \subseteq {v.question}
  /\ n = "synthesize_document_answer" => v.visual \subseteq v.evidence
  /\ n \in {"persist_turn", "insert", "commit", "report"} =>
       v.answer.to = v.question /\ v.answer.from \subseteq v.evidence

(* A node before persist_turn.                                             *)
Thinks(r, n, v) ==
  /\ pc[r] \in Nodes \ {"persist_turn"} /\ n \in Nodes
  /\ v \in Values /\ v.question = values[r].question
  /\ Sound(pc[r], values[r]) => Sound(n, v)
  /\ Advance(r, n, v)

(* A run that ends without an answer.                                      *)
Quits(r, how) ==
  /\ r \in Running /\ how \in {"failed", "gone"}
  /\ End(r, how) /\ UNCHANGED shown

(* A run is about its own question.                                        *)
Asking == \A r \in Running : values[r].question = r

(* The nodes before persist_turn overwrite every channel an answer is made  *)
(* of, on each route.                                                      *)
LEMMA Thinking ==
  ASSUME TypeOK, Asking, NEW r \in Requests,
         \/ ClassifyIntent(r) \/ SearchResponse(r) \/ Pass(r) \/ DecideAnswerability(r)
         \/ RetrieveCandidates(r) \/ MaybeVerifyVisual(r) \/ SynthesizeAnswer(r)
  PROVE  \E n, v : Thinks(r, n, v)
<1> DEFINE w == values[r]
<1>1. /\ w \in Values /\ w.question \in Requests \cup {Nobody} /\ w.evidence \subseteq Requests
      /\ w.visual \subseteq Requests /\ w.answer \in Answers
  BY DEF TypeOK, Values
<1>2. CASE ClassifyIntent(r)
  <2>1. PICK n \in {"search_response", "resolve_scope"} : Step(r, n, w)
    BY <1>2 DEF ClassifyIntent
  <2>2. Thinks(r, n, w)
    BY <2>1, <1>1, <1>2 DEF ClassifyIntent, Thinks, Advance, Sound, Nodes
  <2> QED
    BY <2>2
<1>3. CASE SearchResponse(r)
  <2> DEFINE v == [w EXCEPT !.evidence = {}, !.visual = {}, !.answer = [to |-> w.question, from |-> {}]]
  <2>1. v \in Values /\ v.question = w.question /\ v.evidence = {}
        /\ v.answer.to = w.question /\ v.answer.from = {}
    BY <1>1 DEF Values, Answers
  <2>2. Thinks(r, "persist_turn", v)
    BY <2>1, <1>3 DEF SearchResponse, Thinks, Advance, Sound, Nodes
  <2> QED
    BY <2>2
<1>4. CASE Pass(r)
  <2>1. pc[r] \in {"resolve_scope", "classify_question", "resolve_facts", "fuse_page_evidence"}
    BY <1>4 DEF Pass, After
  <2>2. /\ pc[r] = "resolve_scope" => After[pc[r]] = "classify_question"
        /\ pc[r] = "classify_question" => After[pc[r]] = "resolve_facts"
        /\ pc[r] = "resolve_facts" => After[pc[r]] = "decide_answerability"
        /\ pc[r] = "fuse_page_evidence" => After[pc[r]] = "maybe_verify_visual"
    BY DEF After
  <2>3. Advance(r, After[pc[r]], w)
    BY <1>4 DEF Pass, Advance
  <2>4. Thinks(r, After[pc[r]], w)
    BY <2>1, <2>2, <2>3, <1>1 DEF Thinks, Sound, Nodes
  <2> QED
    BY <2>4
<1>5. CASE DecideAnswerability(r)
  <2>1. CASE Step(r, "retrieve_candidates", w)
    <3>1. Thinks(r, "retrieve_candidates", w)
      BY <2>1, <1>1, <1>5 DEF DecideAnswerability, Thinks, Advance, Sound, Nodes
    <3> QED
      BY <3>1
  <2> DEFINE v == [w EXCEPT !.evidence = {}, !.visual = {}]
  <2>2. CASE Step(r, "synthesize_document_answer", v)
    <3>1. v \in Values /\ v.question = w.question /\ v.evidence = {} /\ v.visual = {}
      BY <1>1 DEF Values
    <3>2. Thinks(r, "synthesize_document_answer", v)
      BY <2>2, <3>1, <1>5 DEF DecideAnswerability, Thinks, Advance, Sound, Nodes
    <3> QED
      BY <3>2
  <2> QED
    BY <1>5, <2>1, <2>2 DEF DecideAnswerability
<1>6. CASE RetrieveCandidates(r)
  <2> DEFINE v == [w EXCEPT !.evidence = {w.question}]
  <2>1. w.question = r
    BY <1>6 DEF RetrieveCandidates, Asking, Running, Nodes
  <2>2. v \in Values /\ v.question = w.question /\ v.evidence = {w.question}
    BY <2>1, <1>1 DEF Values
  <2>3. Thinks(r, "fuse_page_evidence", v)
    BY <2>2, <1>6 DEF RetrieveCandidates, Thinks, Advance, Sound, Nodes
  <2> QED
    BY <2>3
<1>7. CASE MaybeVerifyVisual(r)
  <2>1. PICK shownPages \in {{}, w.evidence} :
          Step(r, "synthesize_document_answer", [w EXCEPT !.visual = shownPages])
    BY <1>7 DEF MaybeVerifyVisual
  <2> DEFINE v == [w EXCEPT !.visual = shownPages]
  <2>2. v \in Values /\ v.question = w.question /\ v.evidence = w.evidence /\ v.visual \subseteq w.evidence
    BY <1>1 DEF Values
  <2>3. Thinks(r, "synthesize_document_answer", v)
    BY <2>1, <2>2, <1>7 DEF MaybeVerifyVisual, Thinks, Advance, Sound, Nodes
  <2> QED
    BY <2>3
<1>8. CASE SynthesizeAnswer(r)
  <2> DEFINE v == [w EXCEPT !.answer = [to |-> w.question, from |-> w.evidence \cup w.visual]]
  <2>1. /\ v \in Values /\ v.question = w.question /\ v.evidence = w.evidence
        /\ v.answer.to = w.question /\ v.answer.from = w.evidence \cup w.visual
    BY <1>1 DEF Values, Answers
  <2>2. Thinks(r, "persist_turn", v)
    BY <2>1, <1>8 DEF SynthesizeAnswer, Thinks, Advance, Sound, Nodes
  <2> QED
    BY <2>2
<1> QED
  BY <1>2, <1>3, <1>4, <1>5, <1>6, <1>7, <1>8

(* The steps of the conversation.                                          *)
LEMMA Kinds ==
  ASSUME TypeOK, Asking, [Next]_vars
  PROVE  \/ UNCHANGED vars \/ DeleteFile \/ Restart
         \/ \E r \in Requests :
              \/ Ask(r) \/ ReadIndex(r) \/ InsertTurn(r) \/ CommitTurn(r) \/ LoseTurn(r)
              \/ Answer(r) \/ AnswerStream(r)
              \/ \E n, v : Thinks(r, n, v)
              \/ \E how : Quits(r, how)
<1>1. ASSUME NEW r \in Requests, AnswerMissing(r) PROVE Quits(r, "failed")
  BY <1>1 DEF AnswerMissing, Quits, Running
<1>2. ASSUME NEW r \in Requests, Fail(r) PROVE Quits(r, "failed")
  BY <1>2 DEF Fail, Quits, Running
<1>3. ASSUME NEW r \in Requests, Disconnect(r) PROVE Quits(r, "gone")
  BY <1>3 DEF Disconnect, Quits
<1> QED
  BY <1>1, <1>2, <1>3, Thinking DEF Next

(* What the pieces of Step do.                                             *)
LEMMA Stepping ==
  ASSUME TypeOK, NEW r \in Requests, NEW n, NEW v, Step(r, n, v)
  PROVE  /\ pc' = [pc EXCEPT ![r] = n] /\ pc'[r] = n
         /\ values' = [values EXCEPT ![r] = v] /\ values'[r] = v
         /\ latest' = v /\ stored' \in {stored, v}
         /\ overlapped' = overlapped \cup (Running \ {r})
         /\ UNCHANGED <<deleted, restarts>>
         /\ lost' \in 0..MaxLost
         /\ \A s \in Requests \ {r} : pc'[s] = pc[s] /\ values'[s] = values[s]
BY BoundsAssumption DEF Step, Put, TypeOK

(* A turn index is the next one after some number of turns that were        *)
(* inserted: a row takes an id for itself before the next index is read.   *)
Counted ==
  /\ \A t \in turns : t.index <= saved
  /\ \A r \in Requests : index[r] <= saved + 1
  /\ \A r \in Requests : pc[r] = "insert" => index[r] > 0
  /\ \A r \in Requests : pc[r] = "commit" => index[r] \in 1..saved /\ row[r] > 0

LEMMA Indexing ==
  ASSUME TypeOK, Counted
  PROVE  /\ NextIndex \in Nat \ {0} /\ NextIndex <= saved + 1
         /\ \A t \in turns : t.index < NextIndex
<1> DEFINE S == Indexes \cup {0}
<1>1. S \in SUBSET Nat /\ S # {} /\ saved \in Nat
  BY DEF TypeOK, Turns, Indexes
<1>2. \A x \in S : x <= saved
  BY <1>1 DEF Counted, Indexes
<1>3. Max(S) \in S /\ \A y \in S : Max(S) >= y
  BY <1>1, <1>2, Largest
<1>4. Max(S) \in Nat /\ Max(S) <= saved
  BY <1>1, <1>2, <1>3
<1>5. ASSUME NEW t \in turns PROVE t.index \in S
  BY <1>5 DEF Indexes
<1>6. NextIndex = Max(S) + 1
  BY DEF NextIndex
<1> QED
  BY <1>1, <1>3, <1>4, <1>5, <1>6

Typed == TypeOK /\ Asking /\ Counted

LEMMA TypeInvariance == Spec => []Typed
<1>1. Init => Typed
  <2> SUFFICES ASSUME Init PROVE Typed
    OBVIOUS
  <2>1. NoValues \in Values /\ NoAnswer \in Answers
    BY DEF NoValues, NoAnswer, Values, Answers
  <2>2. TypeOK
    <3>1. 0 \in 0..MaxRestarts /\ 0 \in 0..MaxLost
      BY BoundsAssumption
    <3>2. /\ pc \in [Requests -> Nodes \cup {"idle", "insert", "commit", "report",
                                      "answered", "failed", "gone"}]
          /\ values \in [Requests -> Values]
          /\ index \in [Requests -> Nat] /\ row \in [Requests -> Nat]
          /\ shown \in [Requests -> Answers]
      BY <2>1 DEF Init
    <3> QED
      BY <2>1, <3>1, <3>2 DEF Init, TypeOK
  <2>3. Asking /\ Counted
    BY DEF Init, Asking, Counted, Running, Nodes
  <2> QED
    BY <2>2, <2>3 DEF Init, Typed
<1>2. Typed /\ [Next]_vars => Typed'
  <2> SUFFICES ASSUME Typed, [Next]_vars PROVE Typed'
    OBVIOUS
  <2> USE DEF Typed
  <2>1. CASE UNCHANGED vars
    BY <2>1 DEF vars, checkpoints, history, counters, TypeOK, Asking, Counted, Running
  <2>2. CASE DeleteFile
    BY <2>2 DEF DeleteFile, counters, checkpoints, TypeOK, Asking, Counted, Running, Turns
  <2>3. CASE Restart
    <3>1. NoValues \in Values
      BY DEF NoValues, NoAnswer, Values, Answers
    <3>2. TypeOK'
      BY <2>3, <3>1, BoundsAssumption DEF Restart, history, TypeOK
    <3>3. Running' = {}
      BY <2>3 DEF Restart, Running, Nodes, TypeOK
    <3>4. Counted'
      BY <2>3, <3>3 DEF Restart, Counted, Running, TypeOK
    <3> QED
      BY <3>2, <3>3, <3>4 DEF Asking
  <2>4. ASSUME NEW r \in Requests, Ask(r) PROVE Typed'
    <3> DEFINE v == [Checkpoint EXCEPT !.question = r]
    <3>1. v \in Values /\ v.question = r
      BY DEF Checkpoint, TypeOK, Values
    <3>2. Step(r, "classify_intent", v) /\ UNCHANGED <<transaction, shown, raced, dropped>>
      BY <2>4 DEF Ask
    <3> HIDE DEF v
    <3>3. TypeOK'
      BY <3>1, <3>2, Stepping DEF TypeOK, Nodes, Running
    <3>4. Asking' /\ Counted'
      BY <3>1, <3>2, Stepping DEF Asking, Counted, Running
    <3> QED
      BY <3>2, <3>3, <3>4, Stepping
  <2>5. ASSUME NEW r \in Requests, NEW n, NEW v, Thinks(r, n, v) PROVE Typed'
    <3>1. Step(r, n, v) /\ UNCHANGED <<transaction, shown, raced, dropped>> /\ n \in Nodes
          /\ v \in Values /\ v.question = values[r].question /\ r \in Running
      BY <2>5 DEF Thinks, Advance, Running
    <3>2. TypeOK'
      BY <3>1, Stepping DEF TypeOK, Running
    <3>3. Asking'
      BY <3>1, Stepping DEF Asking, Running
    <3>4. "insert" \notin Nodes /\ "commit" \notin Nodes
      BY DEF Nodes
    <3>5. Counted'
      BY <3>1, <3>4, Stepping DEF Counted
    <3> QED
      BY <3>2, <3>3, <3>5
  <2>6. ASSUME NEW r \in Requests, ReadIndex(r) PROVE Typed'
    <3>1. NextIndex \in Nat \ {0} /\ NextIndex <= saved + 1
      BY Indexing
    <3>2. TypeOK'
      BY <2>6, <3>1 DEF ReadIndex, checkpoints, history, counters, TypeOK
    <3>3. Asking'
      BY <2>6 DEF ReadIndex, Asking, Running, TypeOK, Nodes
    <3>4. Counted'
      BY <2>6, <3>1 DEF ReadIndex, Counted, TypeOK
    <3> QED
      BY <3>2, <3>3, <3>4
  <2>12. ASSUME NEW r \in Requests, InsertTurn(r) PROVE Typed'
    <3>1. TypeOK'
      BY <2>12 DEF InsertTurn, checkpoints, history, counters, TypeOK
    <3>2. Asking'
      BY <2>12 DEF InsertTurn, Asking, Running, TypeOK, Nodes
    <3>3. index[r] \in 1..(saved + 1)
      BY <2>12 DEF InsertTurn, Counted, TypeOK
    <3>4. Counted'
      BY <2>12, <3>3 DEF InsertTurn, Counted, TypeOK, Turns
    <3> QED
      BY <3>1, <3>2, <3>4
  <2>7. ASSUME NEW r \in Requests, CommitTurn(r) PROVE Typed'
    <3> DEFINE t == [id |-> row[r], question |-> values[r].question, index |-> index[r],
                     answer |-> values[r].answer, evidence |-> values[r].evidence]
    <3>1. /\ Step(r, "report", values[r]) /\ turns' = turns \cup {t}
          /\ row' = [row EXCEPT ![r] = 0] /\ raced' = raced \cup ({r} \X Indexed)
          /\ UNCHANGED <<index, saved, shown, dropped>> /\ pc[r] = "commit" /\ r \in Running
      BY <2>7 DEF CommitTurn, Running
    <3>2. t \in Turns /\ t.index = index[r]
      BY <3>1 DEF TypeOK, Values, Turns, Asking, Counted
    <3>3. Indexed \subseteq Requests
      BY DEF Indexed, TypeOK, Turns
    <3> HIDE DEF t
    <3>4. TypeOK'
      BY <3>1, <3>2, <3>3, Stepping DEF TypeOK, Running
    <3>5. Asking'
      BY <3>1, Stepping DEF Asking, Running
    <3>6. Counted'
      BY <3>1, <3>2, Stepping DEF Counted, TypeOK, Turns
    <3> QED
      BY <3>4, <3>5, <3>6
  <2>8. ASSUME NEW r \in Requests, LoseTurn(r) PROVE Typed'
    <3>1. /\ Step(r, "report", values[r]) /\ dropped' = dropped \cup {r} /\ r \in Running
          /\ row' = [row EXCEPT ![r] = 0] /\ UNCHANGED <<index, turns, saved, shown, raced>>
      BY <2>8 DEF LoseTurn, Running
    <3>2. TypeOK'
      BY <3>1, Stepping DEF TypeOK, Running
    <3>3. Asking' /\ Counted'
      BY <3>1, Stepping DEF Asking, Counted, Running
    <3> QED
      BY <3>1, <3>2, <3>3, Stepping
  <2>9. ASSUME NEW r \in Requests, NEW how \in {"answered", "failed", "gone"}, End(r, how),
               shown' \in [Requests -> Answers]
        PROVE  Typed'
    <3>1. NoValues \in Values
      BY DEF NoValues, NoAnswer, Values, Answers
    <3>2. TypeOK'
      BY <2>9, <3>1 DEF End, checkpoints, history, counters, TypeOK
    <3>3. Asking'
      BY <2>9 DEF End, Asking, Running, TypeOK, Nodes
    <3>4. Counted'
      BY <2>9 DEF End, Counted, TypeOK
    <3> QED
      BY <3>2, <3>3, <3>4
  <2>10. ASSUME NEW r \in Requests, Answer(r) \/ AnswerStream(r) PROVE Typed'
    <3>1. \E a \in Answers : shown' = [shown EXCEPT ![r] = a]
      BY <2>10 DEF Answer, AnswerStream, Checkpoint, TypeOK, Values
    <3>2. shown' \in [Requests -> Answers]
      BY <3>1 DEF TypeOK
    <3> QED
      BY <2>9, <2>10, <3>2 DEF Answer, AnswerStream
  <2>11. ASSUME NEW r \in Requests, NEW how, Quits(r, how) PROVE Typed'
    BY <2>9, <2>11 DEF Quits, TypeOK
  <2> QED
    BY <2>1, <2>2, <2>3, <2>4, <2>5, <2>6, <2>12, <2>7, <2>8, <2>10, <2>11, Kinds
<1> QED
  BY <1>1, <1>2, PTL DEF Spec

(* The variables of the conversation keep their types; a turn index is a    *)
(* positive number because the largest of the saved ones exists.           *)
THEOREM TypeCorrect == Spec => []TypeOK
<1>1. Typed => TypeOK
  BY DEF Typed
<1> QED
  BY <1>1, TypeInvariance, PTL

-----------------------------------------------------------------------------
(* What a run holds is sound for the node it is at.                        *)
Grounded ==
  /\ \A r \in Running : Sound(pc[r], values[r])
  /\ GroundedTurns

(* Every turn has an answer to its own question, drawn from evidence that   *)
(* was retrieved for it: a run may start from any checkpoint, yet passes    *)
(* nodes that overwrite its channels before one of them is used.            *)
THEOREM TurnsAreGrounded == Spec => []GroundedTurns
<1>1. Init => Grounded
  BY DEF Init, Grounded, GroundedTurns, Running, Nodes
<1>2. Typed /\ Grounded /\ [Next]_vars => Grounded'
  <2> SUFFICES ASSUME Typed, Grounded, [Next]_vars PROVE Grounded'
    OBVIOUS
  <2> USE DEF Typed
  <2>1. CASE UNCHANGED vars
    BY <2>1 DEF vars, Grounded, GroundedTurns, Running
  <2>2. CASE DeleteFile
    BY <2>2 DEF DeleteFile, Grounded, GroundedTurns, Running
  <2>3. CASE Restart
    <3>1. Running' = {}
      BY <2>3 DEF Restart, Running, Nodes, TypeOK
    <3> QED
      BY <2>3, <3>1 DEF Restart, Grounded, GroundedTurns
  <2>4. ASSUME NEW r \in Requests, NEW n, NEW v, Step(r, n, v), Sound(n, v), turns' = turns
        PROVE  Grounded'
    <3>1. \A q \in Running' : Sound(pc'[q], values'[q])
      BY <2>4, Stepping DEF Grounded, Running
    <3> QED
      BY <2>4, <3>1 DEF Grounded, GroundedTurns
  <2>5. ASSUME NEW r \in Requests, Ask(r) PROVE Grounded'
    BY <2>4, <2>5 DEF Ask, Sound
  <2>6. ASSUME NEW r \in Requests, NEW n, NEW v, Thinks(r, n, v) PROVE Grounded'
    BY <2>4, <2>6 DEF Thinks, Advance, Grounded, Running
  <2>7. ASSUME NEW r \in Requests, ReadIndex(r) PROVE Grounded'
    <3>1. pc'[r] = "insert" /\ \A q \in Requests \ {r} : pc'[q] = pc[q]
      BY <2>7 DEF ReadIndex, TypeOK
    <3>2. Sound(pc[r], values[r]) /\ pc[r] = "persist_turn" /\ UNCHANGED <<values, turns>>
      BY <2>7 DEF ReadIndex, Grounded, Running, Nodes
    <3>3. Sound("insert", values[r])
      BY <3>2 DEF Sound
    <3>4. \A q \in Running' : Sound(pc'[q], values'[q])
      BY <3>1, <3>2, <3>3 DEF Grounded, Running
    <3> QED
      BY <3>2, <3>4 DEF Grounded, GroundedTurns
  <2>12. ASSUME NEW r \in Requests, InsertTurn(r) PROVE Grounded'
    <3>1. pc'[r] = "commit" /\ \A q \in Requests \ {r} : pc'[q] = pc[q]
      BY <2>12 DEF InsertTurn, TypeOK
    <3>2. Sound(pc[r], values[r]) /\ pc[r] = "insert" /\ UNCHANGED <<values, turns>>
      BY <2>12 DEF InsertTurn, Grounded, Running
    <3>3. Sound("commit", values[r])
      BY <3>2 DEF Sound
    <3>4. \A q \in Running' : Sound(pc'[q], values'[q])
      BY <3>1, <3>2, <3>3 DEF Grounded, Running
    <3> QED
      BY <3>2, <3>4 DEF Grounded, GroundedTurns
  <2>8. ASSUME NEW r \in Requests, CommitTurn(r) PROVE Grounded'
    <3> DEFINE t == [id |-> row[r], question |-> values[r].question, index |-> index[r],
                     answer |-> values[r].answer, evidence |-> values[r].evidence]
    <3>1. Step(r, "report", values[r]) /\ turns' = turns \cup {t} /\ pc[r] = "commit"
      BY <2>8 DEF CommitTurn
    <3>2. Sound("commit", values[r])
      BY <3>1 DEF Grounded, Running
    <3>3. /\ t.answer.to = t.question /\ t.answer.from \subseteq t.evidence
          /\ t.evidence \subseteq {t.question}
      BY <3>2 DEF Sound
    <3> HIDE DEF t
    <3>4. GroundedTurns'
      BY <3>1, <3>3 DEF Grounded, GroundedTurns
    <3>5. Sound("report", values[r])
      BY <3>2 DEF Sound
    <3>6. \A q \in Running' : Sound(pc'[q], values'[q])
      BY <3>1, <3>5, Stepping DEF Grounded, Running
    <3> QED
      BY <3>4, <3>6 DEF Grounded
  <2>9. ASSUME NEW r \in Requests, LoseTurn(r) PROVE Grounded'
    <3>1. Sound("report", values[r])
      BY <2>9 DEF LoseTurn, Grounded, Running, Sound
    <3> QED
      BY <2>4, <2>9, <3>1 DEF LoseTurn
  <2>10. ASSUME NEW r \in Requests, NEW how \in {"answered", "failed", "gone"}, End(r, how)
         PROVE  Grounded'
    <3>1. Running' \subseteq Running \ {r} /\ turns' = turns
      BY <2>10 DEF End, Running, TypeOK, Nodes
    <3>2. \A q \in Running' : pc'[q] = pc[q] /\ values'[q] = values[q]
      BY <2>10, <3>1 DEF End, TypeOK, Running
    <3> QED
      BY <3>1, <3>2 DEF Grounded, GroundedTurns
  <2> QED
    BY <2>1, <2>2, <2>3, <2>5, <2>6, <2>7, <2>12, <2>8, <2>9, <2>10, Kinds
       DEF Answer, AnswerStream, Quits
<1>3. Grounded => GroundedTurns
  BY DEF Grounded
<1> QED
  BY <1>1, <1>2, <1>3, TypeInvariance, PTL DEF Spec

-----------------------------------------------------------------------------
(* The runs are sound; the newest checkpoint is that of a run nobody has    *)
(* written beside.                                                         *)
Owned ==
  /\ \A r \in Running : Sound(pc[r], values[r])
  /\ \A r \in Running \ overlapped : latest = values[r]
  /\ AnswersOwnQuestion

(* A client is shown the answer to its own question: a plain request that   *)
(* of its run, a stream that of the newest checkpoint, which is its own     *)
(* unless another request has written one.                                 *)
THEOREM AnswersAreOwn == Spec => []AnswersOwnQuestion
<1>1. Init => Owned
  BY DEF Init, Owned, AnswersOwnQuestion, Running, Nodes
<1>2. Typed /\ Owned /\ [Next]_vars => Owned'
  <2> SUFFICES ASSUME Typed, Owned, [Next]_vars PROVE Owned'
    OBVIOUS
  <2> USE DEF Typed
  <2>1. CASE UNCHANGED vars
    BY <2>1 DEF vars, history, checkpoints, Owned, AnswersOwnQuestion, Running
  <2>2. CASE DeleteFile
    BY <2>2 DEF DeleteFile, checkpoints, Owned, AnswersOwnQuestion, Running
  <2>3. CASE Restart
    <3>1. Running' = {} /\ UNCHANGED <<shown, overlapped>>
      BY <2>3 DEF Restart, Running, Nodes, TypeOK, history
    <3>2. \A r \in Requests : pc'[r] = "answered" => pc[r] = "answered"
      BY <2>3 DEF Restart
    <3> QED
      BY <3>1, <3>2 DEF Owned, AnswersOwnQuestion
  <2>4. ASSUME NEW r \in Requests, NEW n, NEW v, Step(r, n, v), Sound(n, v), shown' = shown,
               n # "answered"
        PROVE  Owned'
    <3>1. \A q \in Running' : Sound(pc'[q], values'[q])
      BY <2>4, Stepping DEF Owned, Running
    <3>2. \A q \in Running' \ overlapped' : latest' = values'[q]
      BY <2>4, Stepping DEF Running
    <3>3. AnswersOwnQuestion'
      BY <2>4, Stepping DEF Owned, AnswersOwnQuestion
    <3> QED
      BY <3>1, <3>2, <3>3 DEF Owned
  <2>5. ASSUME NEW r \in Requests, Ask(r) PROVE Owned'
    BY <2>4, <2>5 DEF Ask, Sound
  <2>6. ASSUME NEW r \in Requests, NEW n, NEW v, Thinks(r, n, v) PROVE Owned'
    <3>1. "answered" \notin Nodes
      BY DEF Nodes
    <3> QED
      BY <2>4, <2>6, <3>1 DEF Thinks, Advance, Owned, Running
  <2>7. ASSUME NEW r \in Requests, ReadIndex(r) PROVE Owned'
    <3>1. pc'[r] = "insert" /\ \A q \in Requests \ {r} : pc'[q] = pc[q]
      BY <2>7 DEF ReadIndex, TypeOK
    <3>2. /\ Sound(pc[r], values[r]) /\ pc[r] = "persist_turn" /\ r \in Running
          /\ UNCHANGED <<values, latest, overlapped, shown>>
      BY <2>7 DEF ReadIndex, Owned, Running, Nodes, checkpoints, history
    <3>3. Sound("insert", values[r])
      BY <3>2 DEF Sound
    <3>4. Running' = Running
      BY <3>1, <3>2 DEF Running
    <3>5. \A q \in Running' : Sound(pc'[q], values'[q])
      BY <3>1, <3>2, <3>3, <3>4 DEF Owned, Running
    <3>6. AnswersOwnQuestion'
      BY <3>1, <3>2 DEF Owned, AnswersOwnQuestion
    <3> QED
      BY <3>2, <3>4, <3>5, <3>6 DEF Owned
  <2>12. ASSUME NEW r \in Requests, InsertTurn(r) PROVE Owned'
    <3>1. pc'[r] = "commit" /\ \A q \in Requests \ {r} : pc'[q] = pc[q]
      BY <2>12 DEF InsertTurn, TypeOK
    <3>2. /\ Sound(pc[r], values[r]) /\ pc[r] = "insert" /\ r \in Running
          /\ UNCHANGED <<values, latest, overlapped, shown>>
      BY <2>12 DEF InsertTurn, Owned, Running, checkpoints, history
    <3>3. Sound("commit", values[r])
      BY <3>2 DEF Sound
    <3>4. Running' = Running
      BY <3>1, <3>2 DEF Running
    <3>5. \A q \in Running' : Sound(pc'[q], values'[q])
      BY <3>1, <3>2, <3>3, <3>4 DEF Owned, Running
    <3>6. AnswersOwnQuestion'
      BY <3>1, <3>2 DEF Owned, AnswersOwnQuestion
    <3> QED
      BY <3>2, <3>4, <3>5, <3>6 DEF Owned
  <2>8. ASSUME NEW r \in Requests, CommitTurn(r) \/ LoseTurn(r) PROVE Owned'
    <3>1. Sound("report", values[r])
      BY <2>8 DEF CommitTurn, LoseTurn, Owned, Running, Sound
    <3> QED
      BY <2>4, <2>8, <3>1 DEF CommitTurn, LoseTurn
  <2>9. ASSUME NEW r \in Requests, NEW how \in {"answered", "failed", "gone"}, End(r, how)
        PROVE  /\ \A q \in Running' : Sound(pc'[q], values'[q])
               /\ \A q \in Running' \ overlapped' : latest' = values'[q]
               /\ \A q \in Requests \ {r} : pc'[q] = pc[q]
               /\ pc'[r] = how /\ overlapped' = overlapped
    <3>1. Running' \subseteq Running \ {r} /\ UNCHANGED <<latest, overlapped>>
      BY <2>9 DEF End, Running, TypeOK, Nodes, checkpoints, history
    <3>2. \A q \in Running' : pc'[q] = pc[q] /\ values'[q] = values[q]
      BY <2>9, <3>1 DEF End, TypeOK, Running
    <3>3. (\A q \in Requests \ {r} : pc'[q] = pc[q]) /\ pc'[r] = how
      BY <2>9 DEF End, TypeOK
    <3> QED
      BY <3>1, <3>2, <3>3 DEF Owned
  <2>10. ASSUME NEW r \in Requests, Answer(r) \/ AnswerStream(r) PROVE Owned'
    <3>1. pc[r] = "report" /\ End(r, "answered")
      BY <2>10 DEF Answer, AnswerStream
    <3>2. values[r].question = r /\ values[r].answer.to = r /\ values[r].answer.from \subseteq {r}
      BY <3>1 DEF Asking, Owned, Running, Sound
    <3>3. PICK v \in Values : /\ shown' = [shown EXCEPT ![r] = v.answer]
                              /\ r \in Streams => v \in {Checkpoint, values[r]}
                              /\ r \notin Streams => v = values[r]
      BY <2>10 DEF Answer, AnswerStream, Checkpoint, TypeOK
    <3>4. ASSUME r \in Streams => r \notin overlapped
          PROVE  v = values[r]
      <4>1. CASE r \in Streams
        <5>1. latest = values[r]
          BY <3>1, <3>4, <4>1 DEF Owned, Running
        <5>2. values[r] # NoValues
          BY <3>2, RequestsAssumption DEF NoValues
        <5> QED
          BY <3>3, <4>1, <5>1, <5>2 DEF Checkpoint
      <4> QED
        BY <3>3, <4>1
    <3>5. shown'[r] = v.answer /\ \A q \in Requests \ {r} : shown'[q] = shown[q]
      BY <3>3 DEF TypeOK
    <3>6. AnswersOwnQuestion'
      BY <2>9, <3>1, <3>2, <3>4, <3>5 DEF Owned, AnswersOwnQuestion
    <3> QED
      BY <2>9, <3>1, <3>6 DEF Owned
  <2>11. ASSUME NEW r \in Requests, NEW how, Quits(r, how) PROVE Owned'
    <3>1. how \in {"failed", "gone"} /\ End(r, how) /\ shown' = shown
      BY <2>11 DEF Quits
    <3>2. AnswersOwnQuestion'
      BY <2>9, <3>1 DEF Owned, AnswersOwnQuestion
    <3> QED
      BY <2>9, <3>1, <3>2 DEF Owned
  <2> QED
    BY <2>1, <2>2, <2>3, <2>5, <2>6, <2>7, <2>12, <2>8, <2>10, <2>11, Kinds
<1>3. Owned => AnswersOwnQuestion
  BY DEF Owned
<1> QED
  BY <1>1, <1>2, <1>3, TypeInvariance, PTL DEF Spec

-----------------------------------------------------------------------------
(* An index that was read and whose turn is not committed yet is above that *)
(* of every turn, other than those committed since.                        *)
Numbered ==
  /\ \A r \in Requests, t \in turns :
       pc[r] \in {"insert", "commit"} /\ <<t.question, r>> \notin raced => t.index < index[r]
  /\ TurnsAreOrdered

(* Turns are numbered in the order of their rows, unless the earlier one was *)
(* committed after the index of the later one had been read; deletions leave *)
(* gaps and never a number that is handed out twice.                        *)
THEOREM OrderHolds == Spec => []TurnsAreOrdered
<1> DEFINE Saves(r) == pc[r] \in {"insert", "commit"}
<1>1. Init => Numbered
  BY DEF Init, Numbered, TurnsAreOrdered
<1>2. Typed /\ Numbered /\ [Next]_vars => Numbered'
  <2> SUFFICES ASSUME Typed, Numbered, [Next]_vars PROVE Numbered'
    OBVIOUS
  <2> USE DEF Typed
  <2>1. ASSUME turns' \subseteq turns, raced' = raced,
               \A q \in Requests : Saves(q)' => Saves(q) /\ index'[q] = index[q]
        PROVE  Numbered'
    <3>1. TurnsAreOrdered'
      BY <2>1 DEF Numbered, TurnsAreOrdered
    <3>2. ASSUME NEW q \in Requests, NEW t \in turns', Saves(q)', <<t.question, q>> \notin raced'
          PROVE  t.index < index'[q]
      BY <2>1, <3>2 DEF Numbered
    <3> QED
      BY <3>1, <3>2 DEF Numbered
  <2>2. CASE UNCHANGED vars \/ DeleteFile \/ Restart
    BY <2>1, <2>2 DEF vars, DeleteFile, Restart, history, Running
  <2>3. ASSUME NEW r \in Requests, NEW n, NEW v, Step(r, n, v), n \notin {"insert", "commit"},
               UNCHANGED <<index, turns, raced>>
        PROVE  Numbered'
    BY <2>1, <2>3, Stepping
  <2>4. ASSUME NEW r \in Requests, Ask(r) PROVE Numbered'
    BY <2>3, <2>4 DEF Ask
  <2>5. ASSUME NEW r \in Requests, NEW n, NEW v, Thinks(r, n, v) PROVE Numbered'
    <3>1. "insert" \notin Nodes /\ "commit" \notin Nodes
      BY DEF Nodes
    <3> QED
      BY <2>3, <2>5, <3>1 DEF Thinks, Advance
  <2>6. ASSUME NEW r \in Requests, LoseTurn(r) PROVE Numbered'
    BY <2>3, <2>6 DEF LoseTurn
  <2>7. ASSUME NEW r \in Requests, ReadIndex(r) PROVE Numbered'
    <3>1. index'[r] = NextIndex /\ UNCHANGED <<turns, raced>>
      BY <2>7 DEF ReadIndex, TypeOK, history
    <3>2. \A q \in Requests \ {r} : pc'[q] = pc[q] /\ index'[q] = index[q]
      BY <2>7 DEF ReadIndex, TypeOK
    <3>3. \A t \in turns : t.index < NextIndex
      BY Indexing
    <3> QED
      BY <3>1, <3>2, <3>3 DEF Numbered, TurnsAreOrdered
  <2>8. ASSUME NEW r \in Requests, InsertTurn(r) PROVE Numbered'
    BY <2>1, <2>8 DEF InsertTurn, TypeOK, history
  <2>9. ASSUME NEW r \in Requests, CommitTurn(r) PROVE Numbered'
    <3> DEFINE u == [id |-> row[r], question |-> values[r].question, index |-> index[r],
                     answer |-> values[r].answer, evidence |-> values[r].evidence]
    <3>1. /\ Step(r, "report", values[r]) /\ turns' = turns \cup {u}
          /\ raced' = raced \cup ({r} \X Indexed)
          /\ index' = index /\ pc[r] = "commit"
      BY <2>9 DEF CommitTurn
    <3>2. u.question = r /\ u.index = index[r]
      BY <3>1 DEF Asking, Running
    <3>3. u.id \in Nat
      BY DEF TypeOK
    <3> HIDE DEF u
    <3>4. TurnsAreOrdered'
      <4> SUFFICES ASSUME NEW s \in turns', NEW t \in turns', s.id < t.id,
                          <<s.question, t.question>> \notin raced'
                   PROVE  s.index < t.index
        BY DEF TurnsAreOrdered
      <4>1. CASE s \in turns /\ t \in turns
        BY <3>1, <4>1 DEF Numbered, TurnsAreOrdered
      <4>2. CASE s \in turns /\ t = u
        BY <3>1, <3>2, <4>2 DEF Numbered
      <4>3. CASE s = u /\ t \in turns
        <5>1. t.question \in Indexed
          BY <4>3 DEF Indexed
        <5> QED
          BY <3>1, <3>2, <4>3, <5>1
      <4>4. CASE s = u /\ t = u
        BY <3>3, <4>4
      <4> QED
        BY <3>1, <4>1, <4>2, <4>3, <4>4
    <3>5. ASSUME NEW q \in Requests, NEW t \in turns', Saves(q)', <<t.question, q>> \notin raced'
          PROVE  t.index < index'[q]
      <4>1. q # r /\ Saves(q)
        BY <3>1, <3>5, Stepping
      <4>2. t # u
        BY <3>1, <3>2, <3>5, <4>1 DEF Indexed
      <4> QED
        BY <3>1, <3>5, <4>1, <4>2 DEF Numbered
    <3> QED
      BY <3>4, <3>5 DEF Numbered
  <2>10. ASSUME NEW r \in Requests, NEW how \in {"answered", "failed", "gone"}, End(r, how)
         PROVE  Numbered'
    BY <2>1, <2>10 DEF End, TypeOK, history
  <2> QED
    BY <2>2, <2>4, <2>5, <2>6, <2>7, <2>8, <2>9, <2>10, Kinds DEF Answer, AnswerStream, Quits
<1>3. Numbered => TurnsAreOrdered
  BY DEF Numbered
<1> QED
  BY <1>1, <1>2, <1>3, TypeInvariance, PTL DEF Spec

-----------------------------------------------------------------------------
(* A run that is past the saving of its turn has one, unless it was dropped. *)
Remembered ==
  \A r \in Requests : pc[r] \in {"report", "answered"} /\ r \notin dropped =>
    \E t \in turns : t.question = r

(* An answer that was shown is a turn of the conversation, unless saving it *)
(* failed or its file was deleted: no route reports without having tried.   *)
THEOREM AnswersStay == Spec => []AnswersAreRemembered
<1>1. Init => Remembered
  BY DEF Init, Remembered
<1>2. Typed /\ Remembered /\ [Next]_vars => Remembered'
  <2> SUFFICES ASSUME Typed, Remembered, [Next]_vars,
                      NEW q \in Requests, pc'[q] \in {"report", "answered"}, q \notin dropped'
               PROVE  \E t \in turns' : t.question = q
    BY DEF Remembered
  <2> USE DEF Typed
  <2>1. ASSUME pc[q] \in {"report", "answered"}, turns \subseteq turns', dropped \subseteq dropped'
        PROVE  \E t \in turns' : t.question = q
    BY <2>1 DEF Remembered
  <2>2. CASE UNCHANGED vars
    BY <2>1, <2>2 DEF vars, history
  <2>3. CASE DeleteFile
    <3>1. PICK t \in turns : t.question = q
      BY <2>3 DEF DeleteFile, Remembered
    <3> QED
      BY <2>3, <3>1 DEF DeleteFile
  <2>4. CASE Restart
    BY <2>1, <2>4 DEF Restart, Running, history
  <2>5. ASSUME NEW r \in Requests, NEW n, NEW v, Step(r, n, v), n \notin {"report", "answered"},
               UNCHANGED <<turns, dropped>>
        PROVE  \E t \in turns' : t.question = q
    BY <2>1, <2>5, Stepping
  <2>6. ASSUME NEW r \in Requests, Ask(r) PROVE \E t \in turns' : t.question = q
    BY <2>5, <2>6 DEF Ask
  <2>7. ASSUME NEW r \in Requests, NEW n, NEW v, Thinks(r, n, v) PROVE \E t \in turns' : t.question = q
    <3>1. "report" \notin Nodes /\ "answered" \notin Nodes
      BY DEF Nodes
    <3> QED
      BY <2>5, <2>7, <3>1 DEF Thinks, Advance
  <2>8. ASSUME NEW r \in Requests, ReadIndex(r) PROVE \E t \in turns' : t.question = q
    BY <2>1, <2>8 DEF ReadIndex, TypeOK, history
  <2>13. ASSUME NEW r \in Requests, InsertTurn(r) PROVE \E t \in turns' : t.question = q
    BY <2>1, <2>13 DEF InsertTurn, TypeOK, history
  <2>9. ASSUME NEW r \in Requests, CommitTurn(r) PROVE \E t \in turns' : t.question = q
    <3> DEFINE u == [id |-> row[r], question |-> values[r].question, index |-> index[r],
                     answer |-> values[r].answer, evidence |-> values[r].evidence]
    <3>1. /\ Step(r, "report", values[r]) /\ pc[r] = "commit"
          /\ turns' = turns \cup {u} /\ dropped' = dropped
      BY <2>9 DEF CommitTurn
    <3>2. u.question = r
      BY <3>1 DEF Asking, Running
    <3> HIDE DEF u
    <3>3. CASE q = r
      BY <3>1, <3>2, <3>3
    <3>4. CASE q # r
      BY <2>1, <3>1, <3>4, Stepping
    <3> QED
      BY <3>3, <3>4
  <2>10. ASSUME NEW r \in Requests, LoseTurn(r) PROVE \E t \in turns' : t.question = q
    <3>1. Step(r, "report", values[r]) /\ dropped' = dropped \cup {r} /\ turns' = turns
      BY <2>10 DEF LoseTurn
    <3> QED
      BY <2>1, <3>1, Stepping
  <2>11. ASSUME NEW r \in Requests, Answer(r) \/ AnswerStream(r) PROVE \E t \in turns' : t.question = q
    BY <2>1, <2>11 DEF Answer, AnswerStream, End, TypeOK, history
  <2>12. ASSUME NEW r \in Requests, NEW how, Quits(r, how) PROVE \E t \in turns' : t.question = q
    BY <2>1, <2>12 DEF Quits, End, TypeOK, history
  <2> QED
    BY <2>2, <2>3, <2>4, <2>6, <2>7, <2>8, <2>13, <2>9, <2>10, <2>11, <2>12, Kinds
<1>3. Remembered => AnswersAreRemembered
  BY DEF Remembered, AnswersAreRemembered
<1> QED
  BY <1>1, <1>2, <1>3, TypeInvariance, PTL DEF Spec
=============================================================================
