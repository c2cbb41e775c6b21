---------------------------- MODULE QaConversation ----------------------------
(***************************************************************************)
(* The questions of one conversation (agent/service.py and agent/nodes.py  *)
(* over agent/memory/checkpointer_oracle.py and repositories/              *)
(* chat_turns_repository.py).  Each request runs the graph of              *)
(* agent/document_graph.py in a thread of its own, but all of them under   *)
(* one thread id: a run starts from the newest checkpoint of that thread   *)
(* and leaves one behind after every node.  Requests overlap, streams are  *)
(* closed by their clients, and the process may die between two nodes.     *)
(***************************************************************************)
EXTENDS Naturals, FiniteSets, FiniteSetsExt

CONSTANTS
  Requests,        \* the questions that are asked, one request each
  Streams,         \* the requests of POST /ask/stream, the others are POST /ask
  Scoped,          \* the requests about one file, which their turn names
  Nobody,          \* the request of a channel nobody has written
  MaxRunning,      \* bound: how many requests run at once
  MaxRestarts,     \* bound: how often the process is restarted
  MaxLost          \* bound: how many checkpoints cannot be stored

ASSUME RequestsAssumption ==
  /\ IsFiniteSet(Requests) /\ Nobody \notin Requests
  /\ Streams \subseteq Requests /\ Scoped \subseteq Requests

ASSUME BoundsAssumption ==
  MaxRunning \in Nat /\ MaxRestarts \in Nat /\ MaxLost \in Nat

VARIABLES
  pc,           \* the node each request is about to run
  values,       \* the channels of each run
  latest,       \* the newest checkpoint of the thread in memory
  stored,       \* the newest checkpoint of the thread in agent_checkpoints
  index,        \* the turn index a request has read
  row,          \* the id of the row a request has inserted and not committed
  turns,        \* qa_sessions: rows with the ids of qa_sessions_id_seq
  saved,        \* the last id that sequence has given
  deleted,      \* whether the file of the Scoped requests has been deleted
  shown,        \* the answer each client was given
  overlapped,   \* history: requests under way while another wrote a checkpoint
  raced,        \* history: pairs of requests, the first of which committed its
                \* turn after the second had read its index
  dropped,      \* history: requests whose turn is gone, or was never saved
  restarts, lost   \* counted against the bounds

checkpoints == <<latest, stored>>
history == <<overlapped, raced, dropped>>
counters == <<restarts, lost>>
transaction == <<index, row, turns, saved>>
vars == <<pc, values, checkpoints, transaction, deleted, shown, history, counters>>

NoAnswer == [to |-> Nobody, from |-> {}]

\* The channels of QAGraphState that the input of a run does not reset, and its
\* question; a set of requests says whose retrieval a channel goes back to.
NoValues == [question |-> Nobody, evidence |-> {}, visual |-> {}, answer |-> NoAnswer]

Nodes == {"classify_intent", "search_response", "resolve_scope", "classify_question",
          "resolve_facts", "decide_answerability", "retrieve_candidates",
          "fuse_page_evidence", "maybe_verify_visual", "synthesize_document_answer",
          "persist_turn"}
Running == {r \in Requests : pc[r] \in Nodes \cup {"insert", "commit", "report"}}

Init ==
  /\ pc = [r \in Requests |-> "idle"]
  /\ values = [r \in Requests |-> NoValues]
  /\ latest = NoValues
  /\ stored = NoValues
  /\ index = [r \in Requests |-> 0] /\ row = [r \in Requests |-> 0]
  /\ turns = {} /\ saved = 0
  /\ deleted = FALSE
  /\ shown = [r \in Requests |-> NoAnswer]
  /\ overlapped = {} /\ raced = {} /\ dropped = {}
  /\ restarts = 0 /\ lost = 0

-----------------------------------------------------------------------------
(* Checkpoints                                                              *)

\* put: always in memory; a row that cannot be inserted is only logged.
Put(r, v) ==
  /\ latest' = v
  /\ overlapped' = overlapped \cup (Running \ {r})
  /\ \/ stored' = v /\ UNCHANGED lost
     \/ lost < MaxLost /\ lost' = lost + 1 /\ UNCHANGED stored

\* get_tuple: memory first, the table after a restart.
Checkpoint == IF latest # NoValues THEN latest ELSE stored

\* A node of run r turns its channels into v, and is followed by node n.
Step(r, n, v) ==
  /\ pc' = [pc EXCEPT ![r] = n]
  /\ values' = [values EXCEPT ![r] = v]
  /\ Put(r, v)
  /\ UNCHANGED <<deleted, restarts>>

-----------------------------------------------------------------------------
(* The nodes of the graph                                                   *)

\* run and stream_run: the input goes over the channels of the checkpoint.
Ask(r) ==
  /\ pc[r] = "idle"
  /\ Cardinality(Running) < MaxRunning
  /\ Step(r, "classify_intent", [Checkpoint EXCEPT !.question = r])
  /\ UNCHANGED <<transaction, shown, raced, dropped>>

ClassifyIntent(r) ==
  /\ pc[r] = "classify_intent"
  /\ \E n \in {"search_response", "resolve_scope"} : Step(r, n, values[r])
  /\ UNCHANGED <<transaction, shown, raced, dropped>>

\* Mutant of SearchResponse: small talk is not worth a turn.
SearchResponseEnds(r) ==
  /\ pc[r] = "search_response"
  /\ Step(r, "report", [values[r] EXCEPT !.evidence = {}, !.visual = {},
                                         !.answer = [to |-> @.to, from |-> {}]])
  /\ UNCHANGED <<transaction, shown, raced, dropped>>

SearchResponse(r) ==
  LET v == values[r]
  IN  /\ pc[r] = "search_response"
      /\ Step(r, "persist_turn", [v EXCEPT !.evidence = {}, !.visual = {},
                                           !.answer = [to |-> v.question, from |-> {}]])
      /\ UNCHANGED <<transaction, shown, raced, dropped>>

\* The nodes that leave these channels to the same retrieval: fuse_page_evidence
\* only arranges the pages it is given.
After == [resolve_scope |-> "classify_question",
          classify_question |-> "resolve_facts",
          resolve_facts |-> "decide_answerability",
          fuse_page_evidence |-> "maybe_verify_visual"]

Pass(r) ==
  /\ pc[r] \in DOMAIN After
  /\ Step(r, After[pc[r]], values[r])
  /\ UNCHANGED <<transaction, shown, raced, dropped>>

\* Mutant of DecideAnswerability: the evidence of the turn before is kept.
DecideAnswerabilityKeeps(r) ==
  /\ pc[r] = "decide_answerability"
  /\ \E n \in {"synthesize_document_answer", "retrieve_candidates"} : Step(r, n, values[r])
  /\ UNCHANGED <<transaction, shown, raced, dropped>>

\* The metadata route answers from facts, without retrieval.
DecideAnswerability(r) ==
  /\ pc[r] = "decide_answerability"
  /\ \/ Step(r, "synthesize_document_answer", [values[r] EXCEPT !.evidence = {}, !.visual = {}])
     \/ Step(r, "retrieve_candidates", values[r])
  /\ UNCHANGED <<transaction, shown, raced, dropped>>

RetrieveCandidates(r) ==
  /\ pc[r] = "retrieve_candidates"
  /\ Step(r, "fuse_page_evidence", [values[r] EXCEPT !.evidence = {values[r].question}])
  /\ UNCHANGED <<transaction, shown, raced, dropped>>

\* Mutant of MaybeVerifyVisual: without a page to look at, nothing is written.
MaybeVerifyVisualKeeps(r) ==
  LET v == values[r]
  IN  /\ pc[r] = "maybe_verify_visual"
      /\ \E pages \in {v.visual, v.evidence} :
           Step(r, "synthesize_document_answer", [v EXCEPT !.visual = pages])
      /\ UNCHANGED <<transaction, shown, raced, dropped>>

\* Without a page that needs a look the visual result is an empty one.
MaybeVerifyVisual(r) ==
  LET v == values[r]
  IN  /\ pc[r] = "maybe_verify_visual"
      /\ \E pages \in {{}, v.evidence} :
           Step(r, "synthesize_document_answer", [v EXCEPT !.visual = pages])
      /\ UNCHANGED <<transaction, shown, raced, dropped>>

SynthesizeAnswer(r) ==
  LET v == values[r]
  IN  /\ pc[r] = "synthesize_document_answer"
      /\ Step(r, "persist_turn",
              [v EXCEPT !.answer = [to |-> v.question, from |-> v.evidence \cup v.visual]])
      /\ UNCHANGED <<transaction, shown, raced, dropped>>

-----------------------------------------------------------------------------
(* persist_turn: save_qa_session                                            *)

Indexes == {t.index : t \in turns}

\* Mutants of NextIndex: the number of turns is taken for the last index; the
\* last index is handed out again.
CountIndex == Cardinality(turns) + 1
LastIndex == Max(Indexes \cup {0})

\* SELECT NVL(MAX(qa_sessions_turn_index), 0) + 1
NextIndex == Max(Indexes \cup {0}) + 1

ReadIndex(r) ==
  /\ pc[r] = "persist_turn"
  /\ index' = [index EXCEPT ![r] = NextIndex]
  /\ pc' = [pc EXCEPT ![r] = "insert"]
  /\ UNCHANGED <<values, checkpoints, row, turns, saved, deleted, shown, history, counters>>

\* The INSERT takes the id of the row, which nobody else sees before the COMMIT.
\* A turn cannot name a file that is not there.
InsertTurn(r) ==
  /\ pc[r] = "insert"
  /\ ~(deleted /\ r \in Scoped)
  /\ saved' = saved + 1
  /\ row' = [row EXCEPT ![r] = saved']
  /\ pc' = [pc EXCEPT ![r] = "commit"]
  /\ UNCHANGED <<values, checkpoints, index, turns, deleted, shown, history, counters>>

\* The requests whose index may be that of another turn committed from now on.
Indexed == {r \in Requests : pc[r] \in {"insert", "commit"}} \cup {t.question : t \in turns}

\* The COMMIT, with the UPDATE ahead of it, which locks the conversation until
\* then, and the checkpoint after the node, whose channels the node has not touched.
CommitTurn(r) ==
  LET v == values[r]
  IN  /\ pc[r] = "commit"
      /\ turns' = turns \cup {[id |-> row[r], question |-> v.question, index |-> index[r],
                              answer |-> v.answer, evidence |-> v.evidence]}
      /\ row' = [row EXCEPT ![r] = 0]
      /\ raced' = raced \cup ({r} \X Indexed)
      /\ Step(r, "report", v)
      /\ UNCHANGED <<index, saved, shown, dropped>>

\* Any error, of the INSERT or after it, is rolled back and nobody is told.
LoseTurn(r) ==
  /\ pc[r] \in {"insert", "commit"}
  /\ row' = [row EXCEPT ![r] = 0]
  /\ dropped' = dropped \cup {r}
  /\ Step(r, "report", values[r])
  /\ UNCHANGED <<index, turns, saved, shown, raced>>

-----------------------------------------------------------------------------
(* The answer                                                               *)

End(r, how) ==
  /\ pc' = [pc EXCEPT ![r] = how]
  /\ values' = [values EXCEPT ![r] = NoValues]
  /\ index' = [index EXCEPT ![r] = 0]
  /\ UNCHANGED <<checkpoints, row, turns, saved, deleted, history, counters>>

\* Mutant of Answer: POST /ask reads the checkpoint of the thread, as streams do.
AnswerFromThread(r) ==
  /\ r \notin Streams
  /\ pc[r] = "report"
  /\ shown' = [shown EXCEPT ![r] = Checkpoint.answer]
  /\ End(r, "answered")

\* run: the state invoke has returned.
Answer(r) ==
  /\ r \notin Streams
  /\ pc[r] = "report"
  /\ shown' = [shown EXCEPT ![r] = values[r].answer]
  /\ End(r, "answered")

\* stream_run: get_state reads the newest checkpoint of the thread; when it cannot
\* be read, the updates the run has reported stand for it. A state without an
\* answer makes the run fail.
AnswerStream(r) ==
  /\ r \in Streams
  /\ pc[r] = "report"
  /\ \E v \in {Checkpoint, values[r]} :
       v.answer # NoAnswer /\ shown' = [shown EXCEPT ![r] = v.answer]
  /\ End(r, "answered")

AnswerMissing(r) ==
  /\ r \in Streams
  /\ pc[r] = "report"
  /\ Checkpoint.answer = NoAnswer
  /\ End(r, "failed")
  /\ UNCHANGED shown

\* A node raises, because a model or the database is not there, or put does: it
\* guards the insertion of the row and nothing before it.
Fail(r) ==
  /\ pc[r] \in Nodes \cup {"report"}
  /\ End(r, "failed")
  /\ UNCHANGED shown

\* The client closes the stream: the generator is not resumed any more.
Disconnect(r) ==
  /\ r \in Streams \cap Running
  /\ pc[r] \notin {"insert", "commit"}
  /\ End(r, "gone")
  /\ UNCHANGED shown

-----------------------------------------------------------------------------
\* The file is deleted: the foreign key of qa_sessions cascades to the turns that
\* name it, wherever they are in the conversation, and makes the deletion wait for
\* an inserted one that is not committed.
DeleteFile ==
  LET gone == {t \in turns : t.question \in Scoped}
  IN  /\ ~deleted
      /\ \A r \in Scoped : pc[r] # "commit"
      /\ deleted' = TRUE
      /\ turns' = turns \ gone
      /\ dropped' = dropped \cup {t.question : t \in gone}
      /\ UNCHANGED <<pc, values, checkpoints, index, row, saved, shown, overlapped, raced, counters>>

\* The process dies: the memory of the checkpointer and all runs are gone, and
\* the database rolls their transactions back.
Restart ==
  /\ restarts < MaxRestarts
  /\ restarts' = restarts + 1
  /\ latest' = NoValues
  /\ pc' = [r \in Requests |-> IF r \in Running THEN "gone" ELSE pc[r]]
  /\ values' = [r \in Requests |-> NoValues]
  /\ index' = [r \in Requests |-> 0] /\ row' = [r \in Requests |-> 0]
  /\ UNCHANGED <<stored, turns, saved, deleted, shown, history, lost>>

Next ==
  \/ \E r \in Requests :
       \/ Ask(r) \/ ClassifyIntent(r) \/ SearchResponse(r) \/ Pass(r)
       \/ DecideAnswerability(r) \/ RetrieveCandidates(r) \/ MaybeVerifyVisual(r)
       \/ SynthesizeAnswer(r) \/ ReadIndex(r) \/ InsertTurn(r) \/ CommitTurn(r)
       \/ LoseTurn(r) \/ Answer(r) \/ AnswerStream(r) \/ AnswerMissing(r) \/ Fail(r) \/ Disconnect(r)
  \/ DeleteFile
  \/ Restart

Spec == Init /\ [][Next]_vars

-----------------------------------------------------------------------------
Answers == [to : Requests \cup {Nobody}, from : SUBSET Requests]
Values == [question : Requests \cup {Nobody}, evidence : SUBSET Requests,
           visual : SUBSET Requests, answer : Answers]
Turns == [id : Nat \ {0}, question : Requests, index : Nat \ {0}, answer : Answers, evidence : SUBSET Requests]

TypeOK ==
  /\ pc \in [Requests -> Nodes \cup {"idle", "insert", "commit", "report",
                                  "answered", "failed", "gone"}]
  /\ values \in [Requests -> Values]
  /\ latest \in Values /\ stored \in Values
  /\ index \in [Requests -> Nat] /\ row \in [Requests -> Nat]
  /\ turns \subseteq Turns /\ saved \in Nat
  /\ shown \in [Requests -> Answers]
  /\ overlapped \subseteq Requests /\ raced \subseteq Requests \X Requests /\ dropped \subseteq Requests
  /\ deleted \in BOOLEAN
  /\ restarts \in 0..MaxRestarts /\ lost \in 0..MaxLost

\* Every turn of the conversation has an answer to its own question, drawn from
\* evidence that was retrieved for it and listed with it, whatever the channels
\* hold from earlier turns, from overlapping runs or from before a restart: each
\* route overwrites what the input leaves alone.
GroundedTurns ==
  \A t \in turns :
    /\ t.answer.to = t.question
    /\ t.answer.from \subseteq t.evidence /\ t.evidence \subseteq {t.question}

\* A client is shown the answer to its own question: always by POST /ask, whose
\* runs keep their channels to themselves, and by a stream if no other request of
\* the conversation wrote a checkpoint while it was under way.
AnswersOwnQuestion ==
  \A r \in Requests : pc[r] = "answered" /\ (r \in Streams => r \notin overlapped) =>
    shown[r].to = r /\ shown[r].from \subseteq {r}

\* README.md:50 says that POST /api/questions/ask/stream "streams the same
\* document QA flow" as POST /ask, which answers the question of its request.
StreamAnswersOwnQuestion ==
  \A r \in Streams : pc[r] = "answered" => shown[r].to = r

\* The messages of a conversation are listed by turn index: of two turns the one
\* with the later row comes second, unless the other was committed after its index
\* had been read, and whatever overlaps with them or is deleted meanwhile.
TurnsAreOrdered ==
  \A s, t \in turns :
    s.id < t.id /\ <<s.question, t.question>> \notin raced => s.index < t.index

\* An answer that was shown is a turn of the conversation, unless saving it failed
\* or the file it is about was deleted.
AnswersAreRemembered ==
  \A r \in Requests : pc[r] = "answered" /\ r \notin dropped =>
    \E t \in turns : t.question = r

=============================================================================
