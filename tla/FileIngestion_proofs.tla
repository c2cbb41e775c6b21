-------------------------- MODULE FileIngestion_proofs --------------------------
(***************************************************************************)
(* Proofs about FileIngestion, for any workers, documents, rows and bounds. *)
(***************************************************************************)
EXTENDS FileIngestion, TLAPS

Active == {"select", "insert", "wait", "check", "reset"} \cup WritingPcs

(* What a worker knows of its row at each point of its way.                *)
Settled(w) ==
  /\ pc[w] \in {"wait", "check", "reset"} \cup WritingPcs => stage[w] = "guard"
  /\ pc[w] \in Active \/ w \in Uploads => doc[w] \in Docs
  /\ pc[w] \in {"reset"} \cup WritingPcs =>
       row[w] \in Rows /\ state[row[w]] # "unused" /\ key[row[w]] = doc[w]

Typed ==
  /\ TypeOK
  /\ \A r \in Rows : state[r] # "unused" => key[r] \in Docs
  /\ \A w \in Workers : Settled(w)

LEMMA Located ==
  ASSUME NEW w \in Workers
  PROVE  Lock(w) \in Services \X Paths /\ ServiceOf[w] \in Services
BY WorkersAssumption DEF Lock, Path, Paths, Services, Workers

(* A row that was used stays used, under its document.                     *)
Keeps == \A r \in Rows : state[r] # "unused" => state'[r] # "unused" /\ key'[r] = key[r]

(* A step of worker w that leaves the other workers alone.                 *)
Moves(w, to) ==
  /\ pc' = [pc EXCEPT ![w] = to]
  /\ \A v \in Workers \ {w} : stage'[v] = stage[v] /\ doc'[v] = doc[v] /\ row'[v] = row[v]

LEMMA Settling ==
  ASSUME Typed, Keeps, NEW w \in Workers, NEW to, Moves(w, to),
         \A r \in Rows : state'[r] # "unused" => key'[r] \in Docs, TypeOK',
         Settled(w)'
  PROVE  Typed'
<1>1. ASSUME NEW v \in Workers \ {w} PROVE Settled(v)'
  BY <1>1 DEF Typed, TypeOK, Keeps, Moves, Settled
<1> QED
  BY <1>1 DEF Typed

(* A step that only moves worker w within its row.                         *)
LEMMA Walking ==
  ASSUME Typed, NEW w \in Workers, NEW to, pc' = [pc EXCEPT ![w] = to], UNCHANGED <<state, key, stage, doc, row>>,
         TypeOK', Settled(w)'
  PROVE  Typed'
<1>1. Moves(w, to) /\ Keeps
  BY DEF Moves, Keeps
<1> QED
  BY <1>1, Settling DEF Typed

LEMMA Leaving ==
  ASSUME Typed, NEW w \in Workers, NEW o \in Ended, Leave(w, o), Keeps,
         \A r \in Rows : state'[r] # "unused" => key'[r] \in Docs,
         state' \in [Rows -> States], key' \in [Rows -> Docs \cup {NoDoc}], pageCount' \in [Rows -> Nat],
         guarded' \subseteq guarded, stuck' \subseteq Rows, lost' \in 0..MaxLost,
         UNCHANGED <<pages, embedding, stored, contended, deletes, restarts>>
  PROVE  Typed'
<1>1. TypeOK'
  BY DEF Leave, Goto, Typed, TypeOK, Ended
<1>2. Moves(w, o)
  BY DEF Leave, Goto, Moves, Typed, TypeOK
<1>3. Settled(w)'
  BY <1>2 DEF Leave, Moves, Settled, Typed, TypeOK, Ended, Active, WritingPcs
<1> QED
  BY <1>1, <1>2, <1>3, Settling

LEMMA StatesChange ==
  ASSUME Typed, NEW r \in Rows, NEW x \in States \ {"unused"}, NEW n \in Nat, NEW y
  PROVE  /\ SetState(r, x) => /\ state' \in [Rows -> States]
                              /\ \A q \in Rows : state'[q] = "unused" <=> state[q] = "unused"
         /\ SetPageCount(r, n) => pageCount' \in [Rows -> Nat]
BY DEF Typed, TypeOK, SetState, SetPageCount, Present

LEMMA DeletesRows ==
  ASSUME Typed, NEW R, DeleteRows(R)
  PROVE  /\ state' \in [Rows -> States] /\ embedding' \in [Rows -> BOOLEAN]
         /\ pages' \in [Rows -> SUBSET Page]
         /\ Keeps /\ \A r \in Rows : state'[r] # "unused" => state[r] # "unused" \/ r \in R
BY DEF DeleteRows, Typed, TypeOK, Keeps, States

(* get_or_create_file has returned row r.                                  *)
LEMMA Registering ==
  ASSUME Typed, NEW w \in Workers, NEW r \in Rows, Registered(w, r), pc[w] \in {"select", "insert"},
         state' \in [Rows -> States], key' \in [Rows -> Docs \cup {NoDoc}], Keeps,
         state'[r] # "unused", key'[r] = doc[w],
         \A q \in Rows : state'[q] # "unused" => key'[q] \in Docs,
         UNCHANGED <<pageCount, pages, embedding, stored, doc, page, locks, history, counters>>
  PROVE  Typed'
<1>1. /\ stage[w] \in {"queue", "document", "guard"} /\ row' = [row EXCEPT ![w] = r]
      /\ doc[w] \in Docs
  BY DEF Typed, TypeOK, Registered, Settled, Active
<1>2. PICK to \in {"select", "wait", "reset"}, next \in {"document", "guard"} :
        /\ pc' = [pc EXCEPT ![w] = to] /\ stage' = [stage EXCEPT ![w] = next]
        /\ to \in {"wait", "reset"} => next = "guard"
  <2>1. CASE stage[w] = "queue"
    BY <2>1 DEF Registered, Goto, Typed, TypeOK
  <2>2. CASE stage[w] = "document"
    BY <2>2 DEF Registered, Goto, Typed, TypeOK
  <2>3. CASE stage[w] = "guard"
    BY <2>3 DEF Registered, Goto, Typed, TypeOK
  <2> QED
    BY <1>1, <2>1, <2>2, <2>3
<1>3. TypeOK'
  BY <1>1, <1>2 DEF Typed, TypeOK, locks, history, counters
<1>4. Moves(w, to)
  BY <1>1, <1>2 DEF Moves, Typed, TypeOK
<1>5. Settled(w)'
  BY <1>1, <1>2 DEF Settled, Typed, TypeOK, WritingPcs
<1> QED
  BY <1>3, <1>4, <1>5, Settling

(* Nothing is there, and nobody runs, at first.                            *)
LEMMA Starting == Init => Typed
<1> SUFFICES ASSUME Init PROVE Typed
  OBVIOUS
<1>1. /\ 0 \in 0..MaxDeletes /\ 0 \in 0..MaxRestarts /\ 0 \in 0..MaxLost
  BY BoundsAssumption
<1>2. \A w \in Workers : (w \in Uploads => DocOf[w] \in Docs)
  BY WorkersAssumption
<1>3. TypeOK
  <2>1. /\ state \in [Rows -> States] /\ key \in [Rows -> Docs \cup {NoDoc}] /\ pageCount \in [Rows -> Nat]
        /\ pages \in [Rows -> SUBSET Page]
        /\ embedding \in [Rows -> BOOLEAN] /\ contended \in [Rows -> BOOLEAN]
    BY DEF Init, States
  <2>2. /\ pc \in [Workers -> {"idle", "select", "insert", "wait", "check", "reset"} \cup WritingPcs \cup Ended]
        /\ stage \in [Workers -> {"queue", "document", "guard"}]
        /\ doc \in [Workers -> Docs \cup {NoDoc}]
        /\ row \in [Workers -> Rows \cup {0}] /\ page \in [Workers -> Nat]
    BY <1>2 DEF Init
  <2> QED
    BY <1>1, <2>1, <2>2 DEF Init, TypeOK
<1>4. ASSUME NEW w \in Workers PROVE Settled(w)
  BY <1>2 DEF Init, Settled, Active, WritingPcs
<1> QED
  BY <1>3, <1>4 DEF Typed, Init

LEMMA TypeInvariance == Spec => []Typed
<1>1. Typed /\ [Next]_vars => Typed'
  <2> SUFFICES ASSUME Typed, [Next]_vars PROVE Typed'
    OBVIOUS
  <2> USE DEF Goto
  <2>1. CASE UNCHANGED vars
    BY <2>1 DEF vars, table, locks, thread, history, counters, Typed, TypeOK, Settled
  <2>2. ASSUME NEW w \in Uploads, Submit(w) PROVE Typed'
    <3>1. TypeOK' /\ Settled(w)'
      BY <2>2 DEF Submit, table, locks, thread, history, counters, Typed, TypeOK, Settled, WritingPcs, Workers
    <3> QED
      BY <2>2, <3>1, Walking DEF Submit, table, thread, Workers
  <2>3. ASSUME NEW w \in Uploads, SubmitReplacing(w) PROVE Typed'
    <3>1. w \in Workers /\ pc' = [pc EXCEPT ![w] = "select"] /\ UNCHANGED <<thread, key, pageCount>>
      BY <2>3 DEF SubmitReplacing, Workers, DeleteRows
    <3>2. /\ state' \in [Rows -> States] /\ embedding' \in [Rows -> BOOLEAN] /\ Keeps
          /\ pages' \in [Rows -> SUBSET Page]
          /\ \A r \in Rows : state'[r] # "unused" => state[r] # "unused"
      <4>1. \A r \in RowsFor(doc[w]) : state[r] # "unused"
        BY DEF RowsFor, Present
      <4> QED
        BY <2>3, <4>1, DeletesRows DEF SubmitReplacing
    <3>3. deletes' \in 0..MaxDeletes
      BY <2>3, BoundsAssumption DEF SubmitReplacing, Typed, TypeOK
    <3>4. TypeOK'
      BY <2>3, <3>1, <3>2, <3>3 DEF SubmitReplacing, locks, thread, history, Typed, TypeOK
    <3>5. Settled(w)'
      BY <3>1 DEF thread, Settled, Typed, TypeOK, WritingPcs
    <3>6. Moves(w, "select")
      BY <3>1 DEF Moves, thread
    <3> QED
      BY <3>1, <3>2, <3>4, <3>5, <3>6, Settling DEF Typed
  <2>4. ASSUME NEW r \in Rows, Delete(r) PROVE Typed'
    <3>1. /\ state' \in [Rows -> States] /\ embedding' \in [Rows -> BOOLEAN] /\ Keeps
          /\ pages' \in [Rows -> SUBSET Page]
          /\ \A q \in Rows : state'[q] # "unused" => state[q] # "unused"
      BY <2>4, DeletesRows DEF Delete, Present
    <3>2. deletes' \in 0..MaxDeletes
      BY <2>4, BoundsAssumption DEF Delete, Typed, TypeOK
    <3>3. TypeOK'
      BY <2>4, <3>1, <3>2 DEF Delete, DeleteRows, locks, thread, history, Typed, TypeOK
    <3>4. ASSUME NEW w \in Workers PROVE Settled(w)'
      BY <2>4, <3>1 DEF Delete, thread, Settled, Typed, Keeps
    <3> QED
      BY <2>4, <3>1, <3>3, <3>4 DEF Typed, Delete, DeleteRows
  <2>5. ASSUME NEW w \in Retries, NEW r \in Rows, Retry(w, r) PROVE Typed'
    <3>1. /\ w \in Workers /\ key[r] \in Docs /\ w \notin Uploads
          /\ pc' = [pc EXCEPT ![w] = "select"]
          /\ doc' = [doc EXCEPT ![w] = key[r]] /\ stage' = [stage EXCEPT ![w] = "document"]
          /\ UNCHANGED <<table, stored, row, page, locks, history, counters>>
      BY <2>5, WorkersAssumption DEF Retry, Workers, Present, Typed
    <3>2. TypeOK'
      BY <3>1 DEF table, locks, history, counters, Typed, TypeOK
    <3>3. Moves(w, "select") /\ Keeps
      BY <3>1 DEF Moves, Keeps, table, Typed, TypeOK
    <3>4. Settled(w)'
      BY <3>1 DEF Settled, Typed, TypeOK, WritingPcs
    <3> QED
      BY <3>1, <3>2, <3>3, <3>4, Settling DEF Typed, table
  <2>6. ASSUME NEW w \in Retries, NEW r \in Rows, RetryUnavailable(w, r) PROVE Typed'
    <3>1. /\ w \in Workers /\ w \notin Uploads /\ r \in Present /\ pc' = [pc EXCEPT ![w] = "failed"]
          /\ state' = [state EXCEPT ![r] = "failed"]
          /\ UNCHANGED <<key, pageCount, pages, embedding, stored, thread, locks, history, counters>>
      BY <2>6, WorkersAssumption DEF RetryUnavailable, Workers
    <3>2. TypeOK'
      BY <3>1 DEF thread, locks, history, counters, Typed, TypeOK, States, Ended
    <3>3. Moves(w, "failed") /\ Keeps
      BY <3>1 DEF Moves, Keeps, thread, Typed, TypeOK
    <3>4. Settled(w)'
      BY <3>1 DEF Settled, Typed, TypeOK, WritingPcs, Active
    <3>5. \A q \in Rows : state'[q] # "unused" => key'[q] \in Docs
      BY <3>1 DEF Typed, TypeOK, Present
    <3> QED
      BY <3>1, <3>2, <3>3, <3>4, <3>5, Settling
  <2>7. ASSUME NEW w \in Workers, SelectRow(w) PROVE Typed'
    <3>1. CASE RowsFor(doc[w]) = {}
      <4>1. pc' = [pc EXCEPT ![w] = "insert"] /\ UNCHANGED <<table, thread, stored, locks, history, counters>>
        BY <2>7, <3>1 DEF SelectRow, thread
      <4>2. TypeOK' /\ Settled(w)'
        BY <2>7, <4>1 DEF SelectRow, table, locks, thread, history, counters, Typed, TypeOK, Settled,
                          WritingPcs, Active
      <4> QED
        BY <4>1, <4>2, Walking DEF table, thread
    <3>2. CASE RowsFor(doc[w]) # {}
      <4>1. PICK r \in RowsFor(doc[w]) : Registered(w, r)
        BY <2>7, <3>2 DEF SelectRow
      <4>2. r \in Rows /\ state[r] # "unused" /\ key[r] = doc[w]
        BY DEF RowsFor, Present
      <4>3. UNCHANGED <<state, key, pageCount, pages, embedding, stored, doc, page, locks, history, counters>>
        BY <2>7 DEF SelectRow, table
      <4> QED
        BY <2>7, <4>1, <4>2, <4>3, Registering DEF SelectRow, Keeps, Typed, TypeOK
    <3> QED
      BY <3>1, <3>2
  <2>8. ASSUME NEW w \in Workers, InsertRow(w) PROVE Typed'
    <3>1. PICK r \in Rows : /\ state[r] = "unused" /\ state' = [state EXCEPT ![r] = "registered"]
                            /\ key' = [key EXCEPT ![r] = doc[w]] /\ Registered(w, r)
      BY <2>8 DEF InsertRow
    <3>2. doc[w] \in Docs /\ pc[w] = "insert"
      BY <2>8 DEF InsertRow, Typed, Settled, Active
    <3>3. /\ state' \in [Rows -> States] /\ key' \in [Rows -> Docs \cup {NoDoc}] /\ Keeps
          /\ state'[r] # "unused" /\ key'[r] = doc[w]
          /\ \A q \in Rows : state'[q] # "unused" => key'[q] \in Docs
      BY <3>1, <3>2 DEF Typed, TypeOK, Keeps, States
    <3> QED
      BY <2>8, <3>1, <3>2, <3>3, Registering DEF InsertRow
  <2>9. ASSUME NEW w \in Workers, LockPath(w) \/ TakeGuard(w) PROVE Typed'
    <3>1. PICK to \in {"check", "select"} : pc' = [pc EXCEPT ![w] = to]
      BY <2>9 DEF LockPath, TakeGuard
    <3>2. TypeOK'
      BY <2>9, Located DEF LockPath, TakeGuard, table, thread, history, counters, Typed, TypeOK, WritingPcs
    <3>3. Settled(w)'
      BY <2>9 DEF LockPath, TakeGuard, table, thread, Typed, TypeOK, Settled, WritingPcs, Active
    <3> QED
      BY <2>9, <3>1, <3>2, <3>3, Walking DEF LockPath, TakeGuard, table, thread
  <2>10. ASSUME NEW w \in Workers, RejectPdf(w) \/ RegistrationFails(w) PROVE Typed'
    <3>1. Leave(w, "failed") /\ guarded' \subseteq guarded /\ UNCHANGED <<table, stored, history, counters>>
      BY <2>10 DEF RejectPdf, RegistrationFails
    <3> QED
      BY <3>1, Leaving DEF table, history, counters, Keeps, Typed, TypeOK, Ended
  <2>11. ASSUME NEW w \in Workers, ResetDerivatives(w) PROVE Typed'
    <3>1. row[w] \in Rows /\ pc' = [pc EXCEPT ![w] = "mark"] /\ UNCHANGED <<key, thread, stored, locks, counters>>
      BY <2>11 DEF ResetDerivatives, Typed, Settled
    <3>2. /\ state' \in [Rows -> States] /\ pageCount' \in [Rows -> Nat]
          /\ pages' \in [Rows -> SUBSET Page]
          /\ embedding' \in [Rows -> BOOLEAN] /\ contended' \in [Rows -> BOOLEAN] /\ stuck' \subseteq Rows
          /\ \A q \in Rows : state'[q] = "unused" <=> state[q] = "unused"
      BY <2>11, <3>1 DEF ResetDerivatives, Present, Typed, TypeOK, States
    <3>3. TypeOK'
      BY <3>1, <3>2 DEF thread, locks, counters, Typed, TypeOK, WritingPcs
    <3>4. Moves(w, "mark") /\ Keeps
      BY <3>1, <3>2 DEF Moves, Keeps, thread
    <3>5. Settled(w)'
      BY <2>11, <3>1, <3>4 DEF ResetDerivatives, Settled, Typed, TypeOK, WritingPcs, Active, Keeps, thread
    <3> QED
      BY <3>1, <3>2, <3>3, <3>4, <3>5, Settling DEF Typed
  <2>12. ASSUME NEW w \in Workers, MarkProcessing(w) \/ Render(w) PROVE Typed'
    <3>1. row[w] \in Rows /\ doc[w] \in Docs /\ PagesOf[doc[w]] \in Nat /\ pc[w] \in WritingPcs
      BY <2>12, DocsAssumption DEF MarkProcessing, Render, Typed, Settled, WritingPcs, Active
    <3>2. PICK to \in {"upload", "page"} : pc' = [pc EXCEPT ![w] = to]
      BY <2>12 DEF MarkProcessing, Render
    <3>3. /\ state' \in [Rows -> States] /\ pageCount' \in [Rows -> Nat]
          /\ \A q \in Rows : state'[q] = "unused" <=> state[q] = "unused"
      BY <2>12, <3>1, StatesChange DEF MarkProcessing, Render, States
    <3>4. /\ page' \in [Workers -> Nat] /\ locked' = locked /\ guarded' \subseteq guarded
          /\ UNCHANGED <<key, pages, embedding, stored, stage, doc, row, history, counters>>
      BY <2>12 DEF MarkProcessing, Render, thread, locks, Typed, TypeOK
    <3>5. TypeOK'
      BY <3>2, <3>3, <3>4 DEF history, counters, Typed, TypeOK, WritingPcs
    <3>6. Moves(w, to) /\ Keeps
      BY <3>2, <3>3, <3>4 DEF Moves, Keeps
    <3>7. Settled(w)'
      BY <3>1, <3>2, <3>4, <3>6 DEF Settled, Typed, TypeOK, WritingPcs, Active, Keeps
    <3> QED
      BY <3>3, <3>4, <3>5, <3>6, <3>7, Settling DEF Typed
  <2>13. ASSUME NEW w \in Workers,
                \/ UploadSource(w) \/ AddPage(w) \/ AddBlankPage(w) \/ AddEmbedding(w)
                \/ Finalize(w) \/ StepFails(w)
         PROVE  Typed'
    <3>1. row[w] \in Rows /\ doc[w] \in Docs /\ page[w] \in Nat /\ pc[w] \in WritingPcs
      BY <2>13 DEF UploadSource, AddPage, AddBlankPage, AddEmbedding, Finalize, StepFails, Typed, TypeOK,
                   Settled, WritingPcs, Active
    <3>2. PICK to \in WritingPcs : pc' = [pc EXCEPT ![w] = to]
      BY <2>13 DEF UploadSource, AddPage, AddBlankPage, AddEmbedding, Finalize, StepFails, WritingPcs
    <3>3. UNCHANGED <<state, key, pageCount, stage, doc, row, locks, history, counters>>
      BY <2>13 DEF UploadSource, AddPage, AddBlankPage, AddEmbedding, Finalize, StepFails, table, thread
    <3>4. pages' \in [Rows -> SUBSET Page]
      <4>1. ASSUME NEW text \in BOOLEAN
            PROVE  PageRow(w, text) \in Page /\ [PageRow(w, text) EXCEPT !.embedded = TRUE] \in Page
        BY <3>1 DEF PageRow, Page
      <4>2. CASE AddPage(w) \/ AddBlankPage(w)
        <5>1. PICK text \in BOOLEAN : pages' = [pages EXCEPT ![row[w]] = @ \cup {PageRow(w, text)}]
          BY <4>2 DEF AddPage, AddBlankPage
        <5>2. PageRow(w, text) \in Page
          BY <4>1
        <5> QED
          BY <3>1, <5>1, <5>2 DEF Typed, TypeOK
      <4>3. CASE AddEmbedding(w)
        <5> DEFINE bare == PageRow(w, TRUE)
                   whole == [bare EXCEPT !.embedded = TRUE]
        <5>1. whole \in Page
          BY <4>1
        <5>2. pages' = [pages EXCEPT ![row[w]] = (@ \ {bare}) \cup {whole}]
          BY <4>3 DEF AddEmbedding
        <5> HIDE DEF bare, whole
        <5> QED
          BY <3>1, <5>1, <5>2 DEF Typed, TypeOK
      <4>4. CASE UploadSource(w) \/ StepFails(w) \/ Finalize(w)
        <5>1. pages' = pages
          BY <4>4 DEF UploadSource, Finalize, StepFails, table
        <5> QED
          BY <5>1 DEF Typed, TypeOK
      <4> QED
        BY <2>13, <4>2, <4>3, <4>4
    <3>5. embedding' \in [Rows -> BOOLEAN]
      <4>1. embedding' = embedding \/ embedding' = [embedding EXCEPT ![row[w]] = TRUE]
        BY <2>13 DEF UploadSource, AddPage, AddBlankPage, AddEmbedding, Finalize, StepFails, table
      <4> QED
        BY <3>1, <4>1 DEF Typed, TypeOK
    <3>6. page' \in [Workers -> Nat]
      <4>1. page' = page \/ page' = [page EXCEPT ![w] = @ + 1]
        BY <2>13 DEF UploadSource, AddPage, AddBlankPage, AddEmbedding, Finalize, StepFails, thread
      <4> QED
        BY <3>1, <4>1 DEF Typed, TypeOK
    <3>7. stored' \subseteq Docs
      <4>1. stored' = stored \/ stored' = stored \cup {doc[w]}
        BY <2>13 DEF UploadSource, AddPage, AddBlankPage, AddEmbedding, Finalize, StepFails
      <4> QED
        BY <3>1, <4>1 DEF Typed, TypeOK
    <3>8. TypeOK'
      BY <3>2, <3>3, <3>4, <3>5, <3>6, <3>7 DEF locks, history, counters, Typed, TypeOK
    <3>9. Settled(w)'
      BY <3>1, <3>2, <3>3 DEF Settled, Typed, TypeOK, Active
    <3> QED
      BY <3>2, <3>3, <3>8, <3>9, Walking
  <2>14. ASSUME NEW w \in Workers, Complete(w) \/ WriteFailure(w) \/ LoseFailure(w) PROVE Typed'
    <3>1. row[w] \in Rows /\ doc[w] \in Docs /\ PagesOf[doc[w]] \in Nat
      BY <2>14, DocsAssumption DEF Complete, WriteFailure, LoseFailure, Typed, Settled, WritingPcs, Active
    <3>2. /\ state' \in [Rows -> States] /\ pageCount' \in [Rows -> Nat]
          /\ \A q \in Rows : state'[q] = "unused" <=> state[q] = "unused"
      BY <2>14, <3>1, StatesChange DEF Complete, WriteFailure, LoseFailure, States, table, Typed, TypeOK
    <3>3. UNCHANGED <<key, pages, embedding, stored, contended, deletes, restarts, guarded>>
      BY <2>14 DEF Complete, WriteFailure, LoseFailure, table, history, counters
    <3>4. stuck' \subseteq Rows /\ lost' \in 0..MaxLost
      <4>1. CASE Complete(w) \/ WriteFailure(w)
        <5>1. UNCHANGED <<stuck, lost>>
          BY <4>1 DEF Complete, WriteFailure, history, counters
        <5> QED
          BY <5>1 DEF Typed, TypeOK
      <4>2. CASE LoseFailure(w)
        <5>1. lost < MaxLost /\ lost' = lost + 1 /\ stuck' = stuck \cup {row[w]} /\ lost \in 0..MaxLost
          BY <4>2 DEF LoseFailure, Typed, TypeOK
        <5>2. lost' \in 0..MaxLost
          BY <5>1, BoundsAssumption
        <5>3. stuck' \subseteq Rows
          BY <3>1, <5>1 DEF Typed, TypeOK
        <5> QED
          BY <5>2, <5>3
      <4> QED
        BY <2>14, <4>1, <4>2
    <3>5. \E o \in Ended : Leave(w, o)
      BY <2>14 DEF Complete, WriteFailure, LoseFailure, Ended
    <3> QED
      BY <3>2, <3>3, <3>4, <3>5, Leaving DEF Keeps, Typed, TypeOK
  <2>15. ASSUME NEW recovered \in BOOLEAN, Restart(recovered) PROVE Typed'
    <3>1. /\ state' \in [Rows -> States] /\ stuck' \subseteq Rows /\ restarts' \in 0..MaxRestarts
          /\ \A q \in Rows : state'[q] = "unused" <=> state[q] = "unused"
      BY <2>15, BoundsAssumption DEF Restart, Typed, TypeOK, States
    <3>2. /\ pc' \in [Workers -> {"idle"} \cup Ended] /\ \A w \in Workers : pc'[w] \notin Active
      BY <2>15 DEF Restart, Ended, Active, WritingPcs
    <3>3. TypeOK'
      BY <2>15, <3>1, <3>2 DEF Restart, Typed, TypeOK, Ended
    <3>4. ASSUME NEW w \in Workers PROVE Settled(w)'
      BY <2>15, <3>2 DEF Restart, Settled, Typed, Active
    <3> QED
      BY <2>15, <3>1, <3>3, <3>4 DEF Typed, Restart
  <2>16. ASSUME NEW w \in Workers, SkipRegistration(w) \/ PreRegistrationFails(w) PROVE Typed'
    <3>1. PICK to \in {"select", "failed"} : pc' = [pc EXCEPT ![w] = to]
      BY <2>16 DEF SkipRegistration, PreRegistrationFails
    <3>2. TypeOK'
      BY <2>16 DEF SkipRegistration, PreRegistrationFails, table, locks, history, counters, Typed, TypeOK, Ended
    <3>3. Moves(w, to) /\ Keeps
      BY <2>16, <3>1 DEF SkipRegistration, PreRegistrationFails, table, Moves, Keeps, Typed, TypeOK
    <3>4. Settled(w)'
      BY <2>16 DEF SkipRegistration, PreRegistrationFails, Settled, Typed, TypeOK, WritingPcs, Active
    <3> QED
      BY <2>16, <3>2, <3>3, <3>4, Settling DEF SkipRegistration, PreRegistrationFails, table, Typed
  <2> QED
    BY <2>1, <2>2, <2>3, <2>4, <2>5, <2>6, <2>7, <2>8, <2>9, <2>10, <2>11, <2>12, <2>13, <2>14, <2>15, <2>16
       DEF Next, Step
<1> QED
  BY <1>1, Starting, PTL DEF Spec

(* The tables and the threads keep their types, whatever fails or is        *)
(* deleted under a thread.                                                 *)
THEOREM TypeCorrect == Spec => []TypeOK
<1>1. Typed => TypeOK
  BY DEF Typed
<1> QED
  BY <1>1, TypeInvariance, PTL

-----------------------------------------------------------------------------
(* The locks                                                               *)

(* One thread per lock that is taken, and per guard.                       *)
LockInvariant ==
  /\ \A w \in Workers : pc[w] = "idle" => stage[w] # "guard"
  /\ \A w \in Workers : HoldsLock(w) => Lock(w) \in locked
  /\ \A v, w \in Workers : HoldsLock(v) /\ HoldsLock(w) /\ v # w => Lock(v) # Lock(w)
  /\ \A w \in Workers : HoldsGuard(w) => ServiceOf[w] \in guarded
  /\ \A v, w \in Workers : HoldsGuard(v) /\ HoldsGuard(w) /\ v # w => ServiceOf[v] # ServiceOf[w]
  /\ LocksAreHeld

(* What a step of worker w may do to its lock, and to its guard.           *)
KeepsLock(w) == locked' = locked /\ (HoldsLock(w)' <=> HoldsLock(w))
TakesLock(w) == Lock(w) \notin locked /\ locked' = locked \cup {Lock(w)} /\ HoldsLock(w)'
GivesLock(w) == HoldsLock(w) /\ locked' = locked \ {Lock(w)} /\ ~HoldsLock(w)'
KeepsGuard(w) == guarded' = guarded /\ (HoldsGuard(w)' <=> HoldsGuard(w))
TakesGuard(w) == ServiceOf[w] \notin guarded /\ guarded' = guarded \cup {ServiceOf[w]} /\ HoldsGuard(w)'
GivesGuard(w) == HoldsGuard(w) /\ guarded' = guarded \ {ServiceOf[w]} /\ ~HoldsGuard(w)'

LEMMA Locking ==
  ASSUME LockInvariant, NEW w \in Workers,
         \A v \in Workers \ {w} : pc'[v] = pc[v] /\ stage'[v] = stage[v],
         pc'[w] = "idle" => stage'[w] # "guard",
         KeepsLock(w) \/ TakesLock(w) \/ GivesLock(w),
         KeepsGuard(w) \/ TakesGuard(w) \/ GivesGuard(w)
  PROVE  LockInvariant'
<1>1. ASSUME NEW v \in Workers \ {w}
      PROVE  (HoldsLock(v)' <=> HoldsLock(v)) /\ (HoldsGuard(v)' <=> HoldsGuard(v))
  BY DEF HoldsLock, HoldsGuard
<1>2. \A v \in Workers : Lock(v)' = Lock(v)
  BY DEF Lock, Path
<1>3. /\ \A v \in Workers : HoldsLock(v)' => Lock(v) \in locked'
      /\ \A u, v \in Workers : HoldsLock(u)' /\ HoldsLock(v)' /\ u # v => Lock(u) # Lock(v)
      /\ \A l \in locked' : \E v \in Workers : Lock(v) = l /\ HoldsLock(v)'
  <2> USE <1>1 DEF LockInvariant, LocksAreHeld
  <2>1. CASE KeepsLock(w)
    BY <2>1 DEF KeepsLock
  <2>2. CASE TakesLock(w)
    BY <2>2 DEF TakesLock
  <2>3. CASE GivesLock(w)
    BY <2>3 DEF GivesLock
  <2> QED
    BY <2>1, <2>2, <2>3
<1>4. /\ \A v \in Workers : HoldsGuard(v)' => ServiceOf[v] \in guarded'
      /\ \A u, v \in Workers : HoldsGuard(u)' /\ HoldsGuard(v)' /\ u # v => ServiceOf[u] # ServiceOf[v]
      /\ \A s \in guarded' : \E v \in Workers : ServiceOf[v] = s /\ HoldsGuard(v)'
  <2> USE <1>1 DEF LockInvariant, LocksAreHeld
  <2>1. CASE KeepsGuard(w)
    BY <2>1 DEF KeepsGuard
  <2>2. CASE TakesGuard(w)
    BY <2>2 DEF TakesGuard
  <2>3. CASE GivesGuard(w)
    BY <2>3 DEF GivesGuard
  <2> QED
    BY <2>1, <2>2, <2>3
<1>5. \A v \in Workers : pc'[v] = "idle" => stage'[v] # "guard"
  BY DEF LockInvariant
<1> QED
  BY <1>2, <1>3, <1>4, <1>5 DEF LockInvariant, LocksAreHeld

LEMMA LockInvariance == Spec => []LockInvariant
<1>1. Init => LockInvariant
  BY DEF Init, LockInvariant, LocksAreHeld, HoldsLock, HoldsGuard, WritingPcs
<1>2. Typed /\ LockInvariant /\ [Next]_vars => LockInvariant'
  <2> SUFFICES ASSUME Typed, LockInvariant, [Next]_vars PROVE LockInvariant'
    OBVIOUS
  <2> USE DEF Goto
  <2>1. CASE UNCHANGED vars
    BY <2>1 DEF vars, thread, locks, LockInvariant, LocksAreHeld, HoldsLock, HoldsGuard, Lock, Path
  <2>2. ASSUME NEW w \in Uploads, Submit(w) \/ SubmitReplacing(w) PROVE LockInvariant'
    <3>1. w \in Workers /\ pc[w] = "idle" /\ pc' = [pc EXCEPT ![w] = "select"] /\ UNCHANGED <<thread, locks>>
      BY <2>2 DEF Submit, SubmitReplacing, Workers
    <3>2. KeepsLock(w) /\ KeepsGuard(w)
      BY <3>1 DEF KeepsLock, KeepsGuard, HoldsLock, HoldsGuard, LockInvariant, thread, locks, Typed, TypeOK,
                  WritingPcs
    <3> QED
      BY <3>1, <3>2, Locking DEF thread, Typed, TypeOK
  <2>3. ASSUME NEW r \in Rows, Delete(r) PROVE LockInvariant'
    BY <2>3 DEF Delete, thread, locks, LockInvariant, LocksAreHeld, HoldsLock, HoldsGuard, Lock, Path
  <2>4. ASSUME NEW w \in Retries, NEW r \in Rows, Retry(w, r) \/ RetryUnavailable(w, r) PROVE LockInvariant'
    <3>1. /\ w \in Workers /\ pc[w] = "idle" /\ UNCHANGED locks
          /\ pc' = [pc EXCEPT ![w] = "select"] \/ pc' = [pc EXCEPT ![w] = "failed"]
          /\ stage' = [stage EXCEPT ![w] = "document"] \/ stage' = stage
      BY <2>4 DEF Retry, RetryUnavailable, Workers, thread
    <3>2. stage[w] # "guard" /\ stage'[w] # "guard"
      BY <3>1 DEF LockInvariant, Typed, TypeOK
    <3>3. KeepsLock(w) /\ KeepsGuard(w)
      BY <3>1, <3>2 DEF KeepsLock, KeepsGuard, HoldsLock, HoldsGuard, locks, Typed, TypeOK, WritingPcs
    <3> QED
      BY <3>1, <3>2, <3>3, Locking DEF Typed, TypeOK
  <2>5. ASSUME NEW w \in Workers, SelectRow(w) \/ InsertRow(w) PROVE LockInvariant'
    <3>1. pc[w] \in {"select", "insert"} /\ UNCHANGED locks
      BY <2>5 DEF SelectRow, InsertRow
    <3>2. \/ pc' = [pc EXCEPT ![w] = "insert"] /\ stage' = stage
          \/ \E r \in Rows : Registered(w, r)
      BY <2>5 DEF SelectRow, InsertRow, RowsFor, Present
    <3>3. CASE pc' = [pc EXCEPT ![w] = "insert"] /\ stage' = stage
      <4>1. KeepsLock(w) /\ KeepsGuard(w)
        BY <3>1, <3>3 DEF KeepsLock, KeepsGuard, HoldsLock, HoldsGuard, locks, Typed, TypeOK, WritingPcs
      <4> QED
        BY <3>3, <4>1, Locking DEF Typed, TypeOK
    <3>4. CASE \E r \in Rows : Registered(w, r)
      <4>1. PICK to \in {"select", "wait", "reset"}, next \in {"document", "guard"} :
              /\ pc' = [pc EXCEPT ![w] = to] /\ stage' = [stage EXCEPT ![w] = next]
              /\ stage[w] = "guard" <=> to = "reset"
              /\ to = "reset" => next = "guard"
              /\ to = "select" => next = "document"
        <5>1. CASE stage[w] = "queue"
          BY <3>4, <5>1 DEF Registered, Typed, TypeOK
        <5>2. CASE stage[w] = "document"
          BY <3>4, <5>2 DEF Registered, Typed, TypeOK
        <5>3. CASE stage[w] = "guard"
          BY <3>4, <5>3 DEF Registered, Typed, TypeOK
        <5> QED
          BY <5>1, <5>2, <5>3 DEF Typed, TypeOK
      <4>2. KeepsLock(w) /\ KeepsGuard(w)
        BY <3>1, <4>1 DEF KeepsLock, KeepsGuard, HoldsLock, HoldsGuard, locks, Typed, TypeOK, WritingPcs
      <4> QED
        BY <4>1, <4>2, Locking DEF Typed, TypeOK
    <3> QED
      BY <3>2, <3>3, <3>4
  <2>6. ASSUME NEW w \in Workers, LockPath(w) PROVE LockInvariant'
    <3>1. TakesLock(w) /\ KeepsGuard(w)
      BY <2>6 DEF LockPath, TakesLock, KeepsGuard, HoldsLock, HoldsGuard, Typed, TypeOK, WritingPcs
    <3> QED
      BY <2>6, <3>1, Locking DEF LockPath, thread, Typed, TypeOK
  <2>7. ASSUME NEW w \in Workers, TakeGuard(w) PROVE LockInvariant'
    <3>1. stage[w] = "guard"
      BY <2>7 DEF TakeGuard, Typed, Settled
    <3>2. KeepsLock(w) /\ TakesGuard(w)
      BY <2>7, <3>1 DEF TakeGuard, TakesGuard, KeepsLock, HoldsLock, HoldsGuard, Typed, TypeOK, WritingPcs, thread
    <3> QED
      BY <2>7, <3>2, Locking DEF TakeGuard, thread, Typed, TypeOK
  <2>8. ASSUME NEW w \in Workers, ResetDerivatives(w) PROVE LockInvariant'
    <3>1. KeepsLock(w) /\ KeepsGuard(w)
      BY <2>8 DEF ResetDerivatives, KeepsLock, KeepsGuard, HoldsLock, HoldsGuard, Typed, TypeOK, WritingPcs,
                  thread, locks, Settled
    <3> QED
      BY <2>8, <3>1, Locking DEF ResetDerivatives, thread, Typed, TypeOK
  <2>9. ASSUME NEW w \in Workers, MarkProcessing(w) PROVE LockInvariant'
    <3>1. stage[w] = "guard"
      BY <2>9 DEF MarkProcessing, Typed, Settled, WritingPcs
    <3>2. KeepsLock(w) /\ GivesGuard(w)
      BY <2>9, <3>1 DEF MarkProcessing, KeepsLock, GivesGuard, HoldsLock, HoldsGuard, Typed, TypeOK,
                        WritingPcs, thread
    <3> QED
      BY <2>9, <3>2, Locking DEF MarkProcessing, thread, Typed, TypeOK
  <2>10. ASSUME NEW w \in Workers, RegistrationFails(w) PROVE LockInvariant'
    <3>1. GivesLock(w) /\ GivesGuard(w)
      BY <2>10 DEF RegistrationFails, Leave, GivesLock, GivesGuard, HoldsLock, HoldsGuard, Typed, TypeOK,
                   WritingPcs
    <3> QED
      BY <2>10, <3>1, Locking DEF RegistrationFails, Leave, Typed, TypeOK
  <2>11. ASSUME NEW w \in Workers, RejectPdf(w) \/ Complete(w) \/ WriteFailure(w) \/ LoseFailure(w) PROVE LockInvariant'
    <3>1. /\ pc[w] \in {"check", "finish", "failing"} /\ guarded' = guarded /\ stage' = stage
          /\ locked' = locked \ {Lock(w)}
          /\ pc' = [pc EXCEPT ![w] = "failed"] \/ pc' = [pc EXCEPT ![w] = "done"]
      BY <2>11 DEF RejectPdf, Complete, WriteFailure, LoseFailure, Leave
    <3>2. GivesLock(w) /\ KeepsGuard(w)
      BY <3>1 DEF GivesLock, KeepsGuard, HoldsLock, HoldsGuard, Typed, TypeOK, WritingPcs
    <3> QED
      BY <3>1, <3>2, Locking DEF Typed, TypeOK
  <2>12. ASSUME NEW w \in Workers,
                UploadSource(w) \/ Render(w) \/ AddPage(w) \/ AddBlankPage(w) \/ AddEmbedding(w) \/ Finalize(w) \/ StepFails(w)
         PROVE  LockInvariant'
    <3>1. /\ pc[w] \in WritingPcs \ {"mark"} /\ UNCHANGED <<stage, locks>>
          /\ \E to \in WritingPcs \ {"mark"} : pc' = [pc EXCEPT ![w] = to]
      BY <2>12 DEF UploadSource, Render, AddPage, AddBlankPage, AddEmbedding, Finalize, StepFails, thread,
                   WritingPcs
    <3>2. KeepsLock(w) /\ KeepsGuard(w)
      BY <3>1 DEF KeepsLock, KeepsGuard, HoldsLock, HoldsGuard, locks, Typed, TypeOK, WritingPcs
    <3> QED
      BY <3>1, <3>2, Locking DEF Typed, TypeOK, WritingPcs
  <2>13. ASSUME NEW recovered \in BOOLEAN, Restart(recovered) PROVE LockInvariant'
    BY <2>13 DEF Restart, LockInvariant, LocksAreHeld, HoldsLock, HoldsGuard, WritingPcs
  <2>14. ASSUME NEW w \in Workers, SkipRegistration(w) \/ PreRegistrationFails(w) PROVE LockInvariant'
    <3>1. /\ pc[w] \in {"select", "insert"} /\ stage[w] # "guard" /\ UNCHANGED locks
          /\ pc' = [pc EXCEPT ![w] = "select"] \/ pc' = [pc EXCEPT ![w] = "failed"]
          /\ stage' = [stage EXCEPT ![w] = "document"] \/ stage' = stage
      BY <2>14 DEF SkipRegistration, PreRegistrationFails
    <3>2. KeepsLock(w) /\ KeepsGuard(w)
      BY <3>1 DEF KeepsLock, KeepsGuard, HoldsLock, HoldsGuard, locks, Typed, TypeOK, WritingPcs
    <3> QED
      BY <3>1, <3>2, Locking DEF Typed, TypeOK
  <2> QED
    BY <2>1, <2>2, <2>3, <2>4, <2>5, <2>6, <2>7, <2>8, <2>9, <2>10, <2>11, <2>12, <2>13, <2>14 DEF Next, Step
<1> QED
  BY <1>1, <1>2, TypeInvariance, PTL DEF Spec

(* No failure leaks a lock or the registration guard, and none is given     *)
(* back twice.                                                             *)
THEOREM LocksHeld == Spec => []LocksAreHeld
<1>1. LockInvariant => LocksAreHeld
  BY DEF LockInvariant
<1> QED
  BY <1>1, LockInvariance, PTL

(* One PDF on disk is written from by one thread of a service at a time.    *)
THEOREM OneWriter == Spec => []OneWriterPerPath
<1>1. LockInvariant => OneWriterPerPath
  BY DEF LockInvariant, OneWriterPerPath, Writers, HoldsLock
<1> QED
  BY <1>1, LockInvariance, PTL

-----------------------------------------------------------------------------
(* Rows in state processing                                                *)

(* The worker that has marked its row, and has not left it.                *)
Attends(w, r) == pc[w] \in WritingPcs \ {"mark"} /\ row[w] = r

Attended ==
  \A r \in Rows : state[r] = "processing" => r \in stuck \/ \E w \in Workers : Attends(w, r)

(* A step of worker w leaves the rows it does not write to attended by the  *)
(* others.                                                                 *)
LEMMA Attending ==
  ASSUME Attended, NEW w \in Workers,
         \A v \in Workers \ {w} : pc'[v] = pc[v] /\ row'[v] = row[v],
         \A r \in Rows : state'[r] = "processing" =>
           \/ Attends(w, r)' \/ r \in stuck'
           \/ state[r] = "processing" /\ ~Attends(w, r) /\ (r \in stuck => r \in stuck')
  PROVE  Attended'
<1>1. ASSUME NEW v \in Workers \ {w}, NEW r \in Rows PROVE Attends(v, r)' <=> Attends(v, r)
  BY DEF Attends
<1> QED
  BY <1>1 DEF Attended

LEMMA Attendance == Spec => []Attended
<1>1. Init => Attended
  BY DEF Init, Attended
<1>2. Typed /\ Attended /\ [Next]_vars => Attended'
  <2> SUFFICES ASSUME Typed, Attended, [Next]_vars PROVE Attended'
    OBVIOUS
  <2> USE DEF Goto
  <2>1. CASE UNCHANGED vars
    BY <2>1 DEF vars, table, thread, history, Attended, Attends
  <2>2. ASSUME NEW w \in Uploads, Submit(w) \/ SubmitReplacing(w) PROVE Attended'
    <3>1. w \in Workers /\ pc[w] = "idle" /\ pc' = [pc EXCEPT ![w] = "select"] /\ UNCHANGED <<row, stuck>>
      BY <2>2 DEF Submit, SubmitReplacing, Workers, thread, history
    <3>2. \A r \in Rows : state'[r] = "processing" => state[r] = "processing"
      BY <2>2 DEF Submit, SubmitReplacing, DeleteRows, table
    <3> QED
      BY <3>1, <3>2, Attending DEF Attends, WritingPcs, Typed, TypeOK
  <2>3. ASSUME NEW r \in Rows, Delete(r) PROVE Attended'
    BY <2>3 DEF Delete, DeleteRows, thread, history, Attended, Attends
  <2>4. ASSUME NEW w \in Retries, NEW r \in Rows, Retry(w, r) \/ RetryUnavailable(w, r) PROVE Attended'
    <3>1. /\ w \in Workers /\ pc[w] = "idle" /\ UNCHANGED <<row, stuck>>
          /\ pc' = [pc EXCEPT ![w] = "select"] \/ pc' = [pc EXCEPT ![w] = "failed"]
      BY <2>4 DEF Retry, RetryUnavailable, Workers, thread, history
    <3>2. \A q \in Rows : state'[q] = "processing" => state[q] = "processing"
      BY <2>4 DEF Retry, RetryUnavailable, table, Typed, TypeOK
    <3> QED
      BY <3>1, <3>2, Attending DEF Attends, WritingPcs, Typed, TypeOK
  <2>5. ASSUME NEW w \in Workers,
               \/ SelectRow(w) \/ InsertRow(w) \/ SkipRegistration(w) \/ PreRegistrationFails(w)
               \/ LockPath(w) \/ TakeGuard(w) \/ RejectPdf(w)
        PROVE  Attended'
    <3>1. pc[w] \in {"select", "insert", "wait", "check"} /\ UNCHANGED stuck
      BY <2>5 DEF SelectRow, InsertRow, SkipRegistration, PreRegistrationFails, LockPath, TakeGuard, RejectPdf,
                  history
    <3>2. \A v \in Workers \ {w} : pc'[v] = pc[v] /\ row'[v] = row[v]
      BY <2>5 DEF SelectRow, InsertRow, SkipRegistration, PreRegistrationFails, LockPath, TakeGuard, RejectPdf,
                  Registered, Leave, thread, Typed, TypeOK
    <3>3. \A q \in Rows : state'[q] = "processing" => state[q] = "processing"
      BY <2>5 DEF SelectRow, InsertRow, SkipRegistration, PreRegistrationFails, LockPath, TakeGuard, RejectPdf,
                  table, Typed, TypeOK
    <3> QED
      BY <3>1, <3>2, <3>3, Attending DEF Attends, WritingPcs
  <2>6. ASSUME NEW w \in Workers, ResetDerivatives(w) PROVE Attended'
    <3>1. row[w] \in Rows /\ pc[w] = "reset"
      BY <2>6 DEF ResetDerivatives, Typed, Settled
    <3>2. \A q \in Rows : state'[q] = "processing" => state[q] = "processing" /\ q # row[w]
      BY <2>6, <3>1 DEF ResetDerivatives, Present, Typed, TypeOK
    <3>3. \A q \in Rows : q # row[w] /\ q \in stuck => q \in stuck'
      BY <2>6 DEF ResetDerivatives
    <3> QED
      BY <2>6, <3>1, <3>2, <3>3, Attending DEF ResetDerivatives, Attends, WritingPcs, thread, Typed, TypeOK
  <2>7. ASSUME NEW w \in Workers, RegistrationFails(w) PROVE Attended'
    BY <2>7, Attending DEF RegistrationFails, Leave, table, history, Attends, WritingPcs, Typed, TypeOK
  <2>8. ASSUME NEW w \in Workers,
               \/ MarkProcessing(w) \/ UploadSource(w) \/ Render(w) \/ AddPage(w) \/ AddBlankPage(w) \/ AddEmbedding(w)
               \/ Finalize(w) \/ StepFails(w)
        PROVE  Attended'
    <3>1. pc[w] \in WritingPcs /\ row[w] \in Rows
      BY <2>8 DEF MarkProcessing, UploadSource, Render, AddPage, AddBlankPage, AddEmbedding, Finalize, StepFails,
                  Typed, Settled, WritingPcs
    <3>2. UNCHANGED <<row, stuck>> /\ \E to \in WritingPcs \ {"mark"} : pc' = [pc EXCEPT ![w] = to]
      BY <2>8 DEF MarkProcessing, UploadSource, Render, AddPage, AddBlankPage, AddEmbedding, Finalize, StepFails,
                  thread, history, WritingPcs
    <3>3. \A q \in Rows \ {row[w]} : state'[q] = state[q]
      BY <2>8, <3>1 DEF MarkProcessing, UploadSource, Render, AddPage, AddBlankPage, AddEmbedding, Finalize,
                        StepFails,
                        SetState, table, Typed, TypeOK
    <3>4. Attends(w, row[w])'
      BY <3>2 DEF Attends, Typed, TypeOK, WritingPcs
    <3>5. ASSUME NEW q \in Rows, q # row[w] PROVE ~Attends(w, q)
      BY <3>5 DEF Attends
    <3> QED
      BY <3>2, <3>3, <3>4, <3>5, Attending DEF Typed, TypeOK
  <2>9. ASSUME NEW w \in Workers, Complete(w) \/ WriteFailure(w) PROVE Attended'
    <3>1. row[w] \in Rows
      BY <2>9 DEF Complete, WriteFailure, Typed, Settled, WritingPcs
    <3>2. UNCHANGED stuck /\ \A v \in Workers \ {w} : pc'[v] = pc[v] /\ row'[v] = row[v]
      BY <2>9 DEF Complete, WriteFailure, Leave, history, Typed, TypeOK
    <3>3. \A q \in Rows : state'[q] = "processing" => state[q] = "processing" /\ q # row[w]
      BY <2>9, <3>1 DEF Complete, WriteFailure, SetState, Present, Typed, TypeOK
    <3>4. ASSUME NEW q \in Rows, q # row[w] PROVE ~Attends(w, q)
      BY <3>4 DEF Attends
    <3> QED
      BY <3>2, <3>3, <3>4, Attending
  <2>10. ASSUME NEW w \in Workers, LoseFailure(w) PROVE Attended'
    <3>1. \A v \in Workers \ {w} : pc'[v] = pc[v] /\ row'[v] = row[v]
      BY <2>10 DEF LoseFailure, Leave, Typed, TypeOK
    <3>2. state' = state /\ stuck' = stuck \cup {row[w]}
      BY <2>10 DEF LoseFailure, table
    <3> QED
      BY <3>1, <3>2, Attending DEF Attends
  <2>11. ASSUME NEW recovered \in BOOLEAN, Restart(recovered) PROVE Attended'
    BY <2>11 DEF Restart, Attended
  <2> QED
    BY <2>1, <2>2, <2>3, <2>4, <2>5, <2>6, <2>7, <2>8, <2>9, <2>10, <2>11 DEF Next, Step
<1> QED
  BY <1>1, <1>2, TypeInvariance, PTL DEF Spec

(* Nothing but a status that could not be written leaves a document in      *)
(* state processing with no thread at work on it: not a deletion, not a     *)
(* retry of the same document, not a restart that recovers.                *)
THEOREM ProcessingIsAttended == Spec => []ProcessingHasWorker
<1>1. Attended => ProcessingHasWorker
  BY DEF Attended, Attends, ProcessingHasWorker, Writers
<1> QED
  BY <1>1, Attendance, PTL

-----------------------------------------------------------------------------
(* Completed rows                                                          *)

(* The pages 1..n in S, each once, and with the embedding of its text.     *)
Wrote(n, S) ==
  /\ \A p \in S : p.number \in 1..n
  /\ \A k \in 1..n : \E p \in S : /\ p.number = k /\ (p.text => p.embedded)
                                 /\ \A q \in S : q.number = k => q = p

(* How far the only worker of a row has come.                              *)
Progress(w) ==
  LET r == row[w]
      last == PagesOf[doc[w]]
  IN  /\ pc[w] \in {"mark", "upload", "render"} => pages[r] = {}
      /\ pc[w] \in {"render", "page", "embed", "finish"} => doc[w] \in stored
      /\ pc[w] \in {"page", "embed", "finish"} => pageCount[r] = last
      /\ pc[w] = "page" => page[w] \in 1..(last + 1) /\ Wrote(page[w] - 1, pages[r])
      /\ pc[w] = "embed" => page[w] \in 1..last /\ Wrote(page[w] - 1, pages[r] \ {PageRow(w, TRUE)})
      /\ pc[w] = "finish" => embedding[r] /\ Wrote(last, pages[r])

Whole(r) ==
  ~contended[r] =>
    /\ \A v, w \in Writers(r) : v = w
    /\ r \in Present => \A w \in Writers(r) : Progress(w)
    /\ state[r] = "completed" => Writers(r) = {} /\ Ready(r)

Wholes == \A r \in Rows : Whole(r)

(* A step that does not write to row r, nor add a writer to it.            *)
Spares(r) ==
  /\ state'[r] = state[r] /\ key'[r] = key[r] /\ pageCount'[r] = pageCount[r]
  /\ pages'[r] = pages[r] /\ embedding'[r] = embedding[r] /\ contended'[r] = contended[r]
  /\ \A w \in Workers : pc'[w] \in WritingPcs /\ row'[w] = r =>
       pc'[w] = pc[w] /\ row'[w] = row[w] /\ doc'[w] = doc[w] /\ page'[w] = page[w]

LEMMA Sparing ==
  ASSUME NEW r \in Rows, Whole(r), Spares(r), stored \subseteq stored'
  PROVE  Whole(r)'
<1>1. Writers(r)' \subseteq Writers(r)
  BY DEF Writers, Spares
<1>2. ASSUME NEW w \in Writers(r)', Progress(w) PROVE Progress(w)'
  <2>1. pc'[w] = pc[w] /\ row'[w] = row[w] /\ row[w] = r /\ doc'[w] = doc[w] /\ page'[w] = page[w]
    BY DEF Writers, Spares
  <2> QED
    BY <1>2, <2>1 DEF Progress, PageRow, Spares
<1>3. (r \in Present)' <=> r \in Present
  BY DEF Present, Spares
<1>4. Ready(r) => Ready(r)'
  BY DEF Ready, Spares
<1>5. CASE contended[r]
  BY <1>5 DEF Whole, Spares
<1>6. CASE ~contended[r]
  <2>1. /\ \A v, w \in Writers(r) : v = w
        /\ r \in Present => \A w \in Writers(r) : Progress(w)
        /\ state[r] = "completed" => Writers(r) = {} /\ Ready(r)
    BY <1>6 DEF Whole
  <2>2. \A v, w \in Writers(r)' : v = w
    BY <1>1, <2>1
  <2>3. (r \in Present)' => \A w \in Writers(r)' : Progress(w)'
    BY <1>1, <1>2, <1>3, <2>1
  <2>4. (state[r] = "completed")' => Writers(r)' = {} /\ Ready(r)'
    BY <1>1, <1>4, <2>1 DEF Spares
  <2> QED
    BY <2>2, <2>3, <2>4 DEF Whole
<1> QED
  BY <1>5, <1>6

(* A step that takes row r out of the states of a document that is there,  *)
(* or out of completed, and leaves its writers alone.                      *)
LEMMA Closing ==
  ASSUME NEW r \in Rows, Whole(r), contended'[r] = contended[r], state'[r] # "completed",
         UNCHANGED <<row, doc, page, stored, key, pageCount>>,
         \A w \in Workers : pc'[w] \in WritingPcs /\ row[w] = r => pc'[w] = pc[w],
         \/ state'[r] = "deleted"
         \/ state[r] \notin {"unused", "deleted"} /\ pages'[r] = pages[r] /\ embedding'[r] = embedding[r]
  PROVE  Whole(r)'
<1>1. Writers(r)' \subseteq Writers(r)
  BY DEF Writers
<1>2. CASE contended[r]
  BY <1>2 DEF Whole
<1>3. CASE ~contended[r]
  <2>1. \A v, w \in Writers(r)' : v = w
    BY <1>1, <1>3 DEF Whole
  <2>2. ASSUME (r \in Present)', NEW w \in Writers(r)' PROVE Progress(w)'
    <3>1. r \in Present /\ pages'[r] = pages[r] /\ embedding'[r] = embedding[r]
      BY <2>2 DEF Present
    <3>2. Progress(w) /\ row[w] = r /\ pc'[w] = pc[w]
      BY <1>1, <1>3, <3>1 DEF Whole, Writers
    <3> QED
      BY <3>1, <3>2 DEF Progress, PageRow
  <2> QED
    BY <2>1, <2>2 DEF Whole
<1> QED
  BY <1>2, <1>3

(* A step of a worker spares the rows it does not write to.                *)
LEMMA Elsewhere ==
  ASSUME Typed, NEW w \in Workers, NEW r \in Rows, NEW to,
         pc' = [pc EXCEPT ![w] = to], to \in WritingPcs => row'[w] # r,
         \A v \in Workers \ {w} : row'[v] = row[v] /\ doc'[v] = doc[v] /\ page'[v] = page[v],
         state'[r] = state[r], key'[r] = key[r], pageCount'[r] = pageCount[r],
         pages'[r] = pages[r], embedding'[r] = embedding[r], contended'[r] = contended[r]
  PROVE  Spares(r)
BY DEF Spares, Typed, TypeOK

(* A step of a worker on its own row, which stays its own.                 *)
LEMMA Writing ==
  ASSUME Typed, NEW w \in Workers, Whole(row[w]), row[w] \in Rows, pc[w] \in WritingPcs, NEW to \in WritingPcs,
         pc' = [pc EXCEPT ![w] = to], UNCHANGED <<row, doc>>, contended'[row[w]] = contended[row[w]],
         state'[row[w]] = "completed" => state[row[w]] = "completed",
         state'[row[w]] \notin {"unused", "deleted"} => state[row[w]] \notin {"unused", "deleted"},
         row[w] \in Present /\ Progress(w) => Progress(w)'
  PROVE  Whole(row[w])'
<1> DEFINE r == row[w]
<1>1. Writers(r)' = Writers(r) /\ w \in Writers(r) /\ r' = r
  BY DEF Writers, Typed, TypeOK
<1>2. CASE contended[r]
  BY <1>2 DEF Whole
<1>3. CASE ~contended[r]
  <2>1. Writers(r) = {w} /\ state[r] # "completed"
    BY <1>1, <1>3 DEF Whole
  <2>2. r \in Present => Progress(w)
    BY <1>1, <1>3 DEF Whole
  <2>3. (r \in Present)' => r \in Present
    BY DEF Present
  <2> QED
    BY <1>1, <2>1, <2>2, <2>3 DEF Whole
<1> QED
  BY <1>2, <1>3

LEMMA WroteNext ==
  ASSUME NEW n \in Nat, NEW S, Wrote(n, S), NEW p, p.number = n + 1, p.text => p.embedded
  PROVE  Wrote(n + 1, S \cup {p})
<1>1. \A q \in S \cup {p} : q.number \in 1..(n + 1)
  BY DEF Wrote
<1>2. ASSUME NEW k \in 1..(n + 1)
      PROVE  \E x \in S \cup {p} : /\ x.number = k /\ (x.text => x.embedded)
                                   /\ \A q \in S \cup {p} : q.number = k => q = x
  <2>1. CASE k = n + 1
    <3>1. \A q \in S : q.number # k
      BY <2>1 DEF Wrote
    <3> QED
      BY <2>1, <3>1
  <2>2. CASE k # n + 1
    <3>1. k \in 1..n
      BY <2>2
    <3>2. PICK x \in S : /\ x.number = k /\ (x.text => x.embedded)
                        /\ \A q \in S : q.number = k => q = x
      BY <3>1 DEF Wrote
    <3> QED
      BY <2>2, <3>2
  <2> QED
    BY <2>1, <2>2
<1> QED
  BY <1>1, <1>2 DEF Wrote

LEMMA Wholeness == Spec => []Wholes
<1>1. Init => Wholes
  BY DEF Init, Wholes, Whole, Writers, WritingPcs
<1>2. Typed /\ Typed' /\ Wholes /\ [Next]_vars => Wholes'
  <2> SUFFICES ASSUME Typed, Typed', Wholes, [Next]_vars, NEW r \in Rows PROVE Whole(r)'
    BY DEF Wholes
  <2>0. Whole(r)
    BY DEF Wholes
  <2> USE DEF Goto
  <2>1. CASE UNCHANGED vars
    <3>1. Spares(r) /\ stored' = stored
      BY <2>1 DEF vars, table, thread, history, Spares
    <3> QED
      BY <2>0, <3>1, Sparing
  <2>2. ASSUME NEW w \in Uploads, Submit(w) PROVE Whole(r)'
    <3>1. Spares(r) /\ stored' = stored
      BY <2>2, Elsewhere DEF Submit, table, thread, history, Workers, WritingPcs
    <3> QED
      BY <2>0, <3>1, Sparing
  <2>3. ASSUME NEW w \in Uploads, SubmitReplacing(w) PROVE Whole(r)'
    <3>1. /\ w \in Workers /\ pc' = [pc EXCEPT ![w] = "select"] /\ DeleteRows(RowsFor(doc[w]))
          /\ UNCHANGED <<stored, thread, history>>
      BY <2>3 DEF SubmitReplacing, Workers
    <3>2. CASE r \in RowsFor(doc[w])
      BY <2>0, <3>1, <3>2, Closing DEF DeleteRows, thread, history, WritingPcs, Typed, TypeOK
    <3>3. CASE r \notin RowsFor(doc[w])
      <4>1. Spares(r)
        BY <3>1, <3>3, Elsewhere DEF DeleteRows, thread, history, WritingPcs, Typed, TypeOK
      <4> QED
        BY <2>0, <3>1, <4>1, Sparing
    <3> QED
      BY <3>2, <3>3
  <2>4. ASSUME NEW q \in Rows, Delete(q) PROVE Whole(r)'
    <3>1. DeleteRows({q}) /\ UNCHANGED <<stored, pc, thread, history>>
      BY <2>4 DEF Delete
    <3>2. CASE r = q
      BY <2>0, <3>1, <3>2, Closing DEF DeleteRows, thread, history
    <3>3. CASE r # q
      <4>1. Spares(r)
        BY <3>1, <3>3 DEF Spares, DeleteRows, thread, history, Typed, TypeOK
      <4> QED
        BY <2>0, <3>1, <4>1, Sparing
    <3> QED
      BY <3>2, <3>3
  <2>5. ASSUME NEW w \in Retries, NEW q \in Rows, Retry(w, q) PROVE Whole(r)'
    <3>1. Spares(r) /\ stored' = stored
      BY <2>5, Elsewhere DEF Retry, table, history, Workers, WritingPcs, Typed, TypeOK
    <3> QED
      BY <2>0, <3>1, Sparing
  <2>6. ASSUME NEW w \in Retries, NEW q \in Rows, RetryUnavailable(w, q) PROVE Whole(r)'
    <3>1. /\ w \in Workers /\ pc' = [pc EXCEPT ![w] = "failed"] /\ state' = [state EXCEPT ![q] = "failed"]
          /\ q \in Present /\ UNCHANGED <<key, pageCount, pages, embedding, stored, thread, history>>
      BY <2>6 DEF RetryUnavailable, Workers
    <3>2. CASE r = q
      BY <2>0, <3>1, <3>2, Closing DEF Present, thread, history, WritingPcs, Typed, TypeOK
    <3>3. CASE r # q
      <4>1. Spares(r)
        BY <3>1, <3>3, Elsewhere DEF thread, history, WritingPcs, Typed, TypeOK
      <4> QED
        BY <2>0, <3>1, <4>1, Sparing
    <3> QED
      BY <3>2, <3>3
  <2>7. ASSUME NEW w \in Workers,
               \/ SelectRow(w) \/ SkipRegistration(w) \/ PreRegistrationFails(w) \/ LockPath(w)
               \/ RejectPdf(w) \/ TakeGuard(w) \/ RegistrationFails(w) \/ LoseFailure(w)
        PROVE  Whole(r)'
    <3>1. UNCHANGED <<state, key, pageCount, pages, embedding, contended, stored>>
      BY <2>7 DEF SelectRow, SkipRegistration, PreRegistrationFails, LockPath, RejectPdf, TakeGuard,
                  RegistrationFails, LoseFailure, table, history
    <3>2. PICK to \in {"insert", "select", "wait", "reset", "check", "failed"} : pc' = [pc EXCEPT ![w] = to]
      <4>1. CASE SelectRow(w)
        BY <4>1 DEF SelectRow, Registered, Typed, TypeOK
      <4> QED
        BY <2>7, <4>1 DEF SkipRegistration, PreRegistrationFails, LockPath, RejectPdf, TakeGuard,
                          RegistrationFails, LoseFailure, Leave
    <3>3. \A v \in Workers \ {w} : row'[v] = row[v] /\ doc'[v] = doc[v] /\ page'[v] = page[v]
      BY <2>7 DEF SelectRow, Registered, SkipRegistration, PreRegistrationFails, LockPath, RejectPdf,
                  TakeGuard, RegistrationFails, LoseFailure, Leave,
                  thread, Typed, TypeOK
    <3>4. Spares(r)
      BY <3>1, <3>2, <3>3, Elsewhere DEF WritingPcs
    <3> QED
      BY <2>0, <3>1, <3>4, Sparing
  <2>8. ASSUME NEW w \in Workers, InsertRow(w) PROVE Whole(r)'
    <3>1. PICK q \in Rows : /\ state[q] = "unused" /\ state' = [state EXCEPT ![q] = "registered"]
                            /\ key' = [key EXCEPT ![q] = doc[w]] /\ Registered(w, q)
      BY <2>8 DEF InsertRow
    <3>2. PICK to \in {"select", "wait", "reset"} : pc' = [pc EXCEPT ![w] = to]
      BY <3>1 DEF Registered, Typed, TypeOK
    <3>3. UNCHANGED <<pageCount, pages, embedding, stored, doc, page, contended>> /\ row' = [row EXCEPT ![w] = q]
      BY <2>8, <3>1 DEF InsertRow, Registered, history
    <3>4. CASE r = q
      <4>1. Writers(r)' = {}
        BY <3>1, <3>2, <3>3, <3>4 DEF Writers, Typed, TypeOK, Settled, WritingPcs
      <4> QED
        BY <3>1, <3>4, <4>1 DEF Whole, Typed, TypeOK
    <3>5. CASE r # q
      <4>1. Spares(r)
        BY <3>1, <3>2, <3>3, <3>5, Elsewhere DEF WritingPcs, Typed, TypeOK
      <4> QED
        BY <2>0, <3>3, <4>1, Sparing
    <3> QED
      BY <3>4, <3>5
  <2>9. ASSUME NEW w \in Workers, ResetDerivatives(w) PROVE Whole(r)'
    <3>1. /\ pc[w] = "reset" /\ row[w] \in Rows /\ pc' = [pc EXCEPT ![w] = "mark"]
          /\ UNCHANGED <<key, stored, thread>>
      BY <2>9 DEF ResetDerivatives, Typed, Settled
    <3>2. CASE r = row[w]
      <4>1. pages'[r] = {} /\ contended'[r] = (Writers(r) # {}) /\ state'[r] # "completed"
        BY <2>9, <3>1, <3>2 DEF ResetDerivatives, Present, Typed, TypeOK
      <4>2. ASSUME Writers(r) = {} PROVE Writers(r)' = {w} /\ Progress(w)'
        <5>1. Writers(r)' = {w}
          BY <3>1, <3>2, <4>2 DEF Writers, WritingPcs, thread, Typed, TypeOK
        <5>2. pc'[w] = "mark" /\ row'[w] = r
          BY <3>1, <3>2 DEF thread, Typed, TypeOK
        <5> QED
          BY <4>1, <5>1, <5>2 DEF Progress
      <4> QED
        BY <4>1, <4>2 DEF Whole
    <3>3. CASE r # row[w]
      <4>1. /\ state'[r] = state[r] /\ pageCount'[r] = pageCount[r] /\ pages'[r] = pages[r]
            /\ embedding'[r] = embedding[r] /\ contended'[r] = contended[r]
        BY <2>9, <3>1, <3>3 DEF ResetDerivatives, Typed, TypeOK
      <4>2. Spares(r)
        BY <3>1, <3>3, <4>1, Elsewhere DEF thread
      <4> QED
        BY <2>0, <3>1, <4>2, Sparing
    <3> QED
      BY <3>2, <3>3
  <2>10. ASSUME NEW w \in Workers,
                \/ MarkProcessing(w) \/ UploadSource(w) \/ Render(w) \/ AddPage(w) \/ AddBlankPage(w) \/ AddEmbedding(w)
                \/ Finalize(w) \/ StepFails(w)
         PROVE  Whole(r)'
    <3>1. /\ pc[w] \in WritingPcs /\ row[w] \in Rows /\ doc[w] \in Docs /\ page[w] \in Nat
          /\ PagesOf[doc[w]] \in Nat \ {0}
      BY <2>10, DocsAssumption
         DEF MarkProcessing, UploadSource, Render, AddPage, AddBlankPage, AddEmbedding, Finalize, StepFails,
             Typed, TypeOK, Settled, WritingPcs, Active
    <3>2. PICK to \in WritingPcs : pc' = [pc EXCEPT ![w] = to]
      BY <2>10 DEF MarkProcessing, UploadSource, Render, AddPage, AddBlankPage, AddEmbedding, Finalize,
                   StepFails, WritingPcs
    <3>3. UNCHANGED <<row, doc, key, contended>> /\ stored \subseteq stored'
          /\ \A v \in Workers \ {w} : page'[v] = page[v]
      BY <2>10 DEF MarkProcessing, UploadSource, Render, AddPage, AddBlankPage, AddEmbedding, Finalize, StepFails,
                   thread, table, history, Typed, TypeOK
    <3>4. state' = state \/ (state' = [state EXCEPT ![row[w]] = "processing"] /\ row[w] \in Present)
      BY <2>10 DEF MarkProcessing, UploadSource, Render, AddPage, AddBlankPage, AddEmbedding, Finalize, StepFails,
                   SetState, table
    <3>5. ASSUME row[w] \in Present, Progress(w) PROVE Progress(w)'
      <4>0. row'[w] = row[w] /\ doc'[w] = doc[w] /\ pc'[w] = to
        BY <3>2, <3>3 DEF Typed, TypeOK
      <4>1. CASE MarkProcessing(w)
        BY <3>5, <4>0, <4>1 DEF MarkProcessing, Progress, Typed, TypeOK
      <4>2. CASE UploadSource(w)
        BY <3>5, <4>0, <4>2 DEF UploadSource, Progress, table, Typed, TypeOK
      <4>3. CASE Render(w)
        <5>1. /\ pc'[w] = "page" /\ page'[w] = 1 /\ pages' = pages /\ stored' = stored
              /\ pageCount'[row[w]] = PagesOf[doc[w]] /\ pages[row[w]] = {} /\ doc[w] \in stored
          BY <3>1, <3>5, <4>3 DEF Render, SetPageCount, Progress, Typed, TypeOK
        <5>2. Wrote(1 - 1, {})
          BY DEF Wrote
        <5>3. 1 \in 1..(PagesOf[doc[w]] + 1)
          BY <3>1
        <5> QED
          BY <4>0, <5>1, <5>2, <5>3 DEF Progress, Wrote
      <4>4. CASE AddPage(w)
        <5> DEFINE bare == PageRow(w, TRUE)
        <5>1. /\ pc[w] = "page" /\ pc'[w] = "embed" /\ UNCHANGED <<page, stored, pageCount>>
              /\ pages'[row[w]] = pages[row[w]] \cup {bare} /\ page[w] <= PagesOf[doc[w]]
          BY <3>1, <4>4 DEF AddPage, thread, Typed, TypeOK
        <5>2. page[w] \in 1..PagesOf[doc[w]] /\ Wrote(page[w] - 1, pages[row[w]])
          BY <3>1, <3>5, <5>1 DEF Progress
        <5>3. bare \notin pages[row[w]] /\ bare' = bare
          BY <3>1, <4>0, <5>1, <5>2 DEF Wrote, PageRow
        <5> HIDE DEF bare
        <5>4. pages'[row[w]] \ {bare} = pages[row[w]]
          BY <5>1, <5>3
        <5>5. (Wrote(page[w] - 1, pages[row[w]] \ {bare}))'
          BY <4>0, <5>1, <5>2, <5>3, <5>4 DEF Wrote
        <5> USE DEF bare
        <5>6. doc[w] \in stored /\ pageCount[row[w]] = PagesOf[doc[w]]
          BY <3>5, <5>1 DEF Progress
        <5> QED
          BY <4>0, <5>1, <5>2, <5>5, <5>6 DEF Progress
      <4>5. CASE AddEmbedding(w)
        <5> DEFINE bare == PageRow(w, TRUE)
                   whole == [bare EXCEPT !.embedded = TRUE]
        <5>1. /\ pc[w] = "embed" /\ pc'[w] = "page" /\ UNCHANGED <<stored, pageCount>>
              /\ page'[w] = page[w] + 1 /\ pages'[row[w]] = (pages[row[w]] \ {bare}) \cup {whole}
          BY <3>1, <4>5 DEF AddEmbedding, Typed, TypeOK
        <5>2. page[w] \in 1..PagesOf[doc[w]] /\ Wrote(page[w] - 1, pages[row[w]] \ {bare})
          BY <3>5, <5>1 DEF Progress
        <5>3. /\ page[w] - 1 \in Nat /\ (page[w] - 1) + 1 = page[w] /\ page'[w] - 1 = page[w]
              /\ page'[w] \in 1..(PagesOf[doc[w]] + 1)
          BY <3>1, <5>1, <5>2
        <5>4. whole.number = page[w] /\ whole.embedded
          BY DEF PageRow
        <5> HIDE DEF bare, whole
        <5>5. Wrote(page[w], pages'[row[w]])
          BY <5>1, <5>2, <5>3, <5>4, WroteNext
        <5> QED
          BY <3>5, <4>0, <5>1, <5>3, <5>5 DEF Progress, Wrote
      <4>6. CASE Finalize(w)
        <5>1. /\ pc[w] = "page" /\ pc'[w] = "finish" /\ UNCHANGED <<page, stored, pageCount, pages>>
              /\ embedding'[row[w]] /\ page[w] > PagesOf[doc[w]]
          BY <3>1, <4>6 DEF Finalize, thread, Typed, TypeOK
        <5>2. page[w] - 1 = PagesOf[doc[w]]
          BY <3>1, <3>5, <5>1 DEF Progress
        <5> QED
          BY <3>5, <4>0, <5>1, <5>2 DEF Progress, Wrote
      <4>7. CASE StepFails(w)
        BY <4>0, <4>7 DEF StepFails, Progress, Typed, TypeOK
      <4>8. CASE AddBlankPage(w)
        <5> DEFINE blank == PageRow(w, FALSE)
        <5>1. /\ pc[w] = "page" /\ pc'[w] = "page" /\ UNCHANGED <<stored, pageCount>>
              /\ page'[w] = page[w] + 1 /\ page[w] <= PagesOf[doc[w]]
              /\ pages'[row[w]] = pages[row[w]] \cup {blank}
          BY <3>1, <4>8 DEF AddBlankPage, Typed, TypeOK
        <5>2. page[w] \in 1..PagesOf[doc[w]] /\ Wrote(page[w] - 1, pages[row[w]])
          BY <3>1, <3>5, <5>1 DEF Progress
        <5>3. /\ page[w] - 1 \in Nat /\ (page[w] - 1) + 1 = page[w] /\ page'[w] - 1 = page[w]
              /\ page'[w] \in 1..(PagesOf[doc[w]] + 1)
          BY <3>1, <5>1, <5>2
        <5>4. blank.number = page[w] /\ ~blank.text
          BY DEF PageRow
        <5> HIDE DEF blank
        <5>5. Wrote(page[w], pages'[row[w]])
          BY <5>1, <5>2, <5>3, <5>4, WroteNext
        <5> QED
          BY <3>5, <4>0, <5>1, <5>3, <5>5 DEF Progress, Wrote
      <4> QED
        BY <2>10, <4>1, <4>2, <4>3, <4>4, <4>5, <4>6, <4>7, <4>8
    <3>6. CASE r = row[w]
      BY <2>0, <3>1, <3>2, <3>3, <3>4, <3>5, <3>6, Writing DEF Present, Typed, TypeOK
    <3>7. CASE r # row[w]
      <4>1. state'[r] = state[r] /\ pageCount'[r] = pageCount[r] /\ embedding'[r] = embedding[r]
        <5>1. CASE MarkProcessing(w)
          BY <3>1, <3>7, <5>1 DEF MarkProcessing, SetState, SetPageCount, Typed, TypeOK
        <5>2. CASE Render(w)
          BY <3>1, <3>7, <5>2 DEF Render, SetState, SetPageCount, Typed, TypeOK
        <5>3. CASE Finalize(w)
          BY <3>1, <3>7, <5>3 DEF Finalize, Typed, TypeOK
        <5>4. CASE UploadSource(w) \/ StepFails(w)
          BY <5>4 DEF UploadSource, StepFails, table
        <5>5. CASE AddPage(w) \/ AddBlankPage(w) \/ AddEmbedding(w)
          BY <5>5 DEF AddPage, AddBlankPage, AddEmbedding
        <5> QED
          BY <2>10, <5>1, <5>2, <5>3, <5>4, <5>5
      <4>2. pages' = pages \/ \E S : pages' = [pages EXCEPT ![row[w]] = S]
        BY <2>10 DEF MarkProcessing, UploadSource, Render, AddPage, AddBlankPage, AddEmbedding, Finalize,
                     StepFails, table
      <4>3. Spares(r)
        BY <3>2, <3>3, <3>7, <4>1, <4>2, Elsewhere DEF Typed, TypeOK
      <4> QED
        BY <2>0, <3>3, <4>3, Sparing
    <3> QED
      BY <3>6, <3>7
  <2>11. ASSUME NEW w \in Workers, Complete(w) \/ WriteFailure(w) PROVE Whole(r)'
    <3>1. /\ pc[w] \in {"finish", "failing"} /\ row[w] \in Rows /\ key[row[w]] = doc[w]
      BY <2>11 DEF Complete, WriteFailure, Typed, Settled, WritingPcs
    <3>2. PICK o \in {"done", "failed"} : Leave(w, o)
      BY <2>11 DEF Complete, WriteFailure
    <3>3. UNCHANGED <<key, pages, embedding, stored, contended>>
      BY <2>11 DEF Complete, WriteFailure, history
    <3>4. CASE r = row[w]
      <4>1. ASSUME ~contended[r]
            PROVE  /\ Writers(r)' = {}
                   /\ state'[r] = "completed" => Ready(r)'
        <5>1. Writers(r) = {w} /\ (r \in Present => Progress(w)) /\ state[r] # "completed"
          BY <2>0, <3>1, <3>4, <4>1 DEF Whole, Writers, WritingPcs
        <5>2. Writers(r)' = {}
          BY <3>2, <5>1 DEF Leave, Writers, WritingPcs, Typed, TypeOK
        <5>3. ASSUME state'[r] = "completed" PROVE Ready(r)'
          <6>1. /\ pc[w] = "finish" /\ r \in Present /\ pageCount'[r] = PagesOf[doc[w]]
            BY <2>11, <3>1, <3>4, <5>1, <5>3
               DEF Complete, WriteFailure, SetState, SetPageCount, Typed, TypeOK
          <6>2. embedding[r] /\ Wrote(PagesOf[doc[w]], pages[r]) /\ doc[w] \in stored
            BY <3>4, <5>1, <6>1 DEF Progress
          <6> QED
            BY <3>1, <3>3, <3>4, <6>1, <6>2 DEF Ready, Wrote
        <5> QED
          BY <5>2, <5>3
      <4> QED
        BY <3>3, <4>1 DEF Whole
    <3>5. CASE r # row[w]
      <4>1. state'[r] = state[r] /\ pageCount'[r] = pageCount[r]
        BY <2>11, <3>1, <3>5 DEF Complete, WriteFailure, SetState, SetPageCount, Typed, TypeOK
      <4>2. Spares(r)
        BY <3>2, <3>3, <4>1, Elsewhere DEF Leave, WritingPcs, Typed, TypeOK
      <4> QED
        BY <2>0, <3>3, <4>2, Sparing
    <3> QED
      BY <3>4, <3>5
  <2>12. ASSUME NEW recovered \in BOOLEAN, Restart(recovered) PROVE Whole(r)'
    <3>1. Writers(r)' = {}
      BY <2>12 DEF Restart, Writers, WritingPcs
    <3>2. state'[r] = "completed" => state[r] = "completed"
      BY <2>12 DEF Restart
    <3>3. UNCHANGED <<key, pageCount, pages, embedding, stored, contended>>
      BY <2>12 DEF Restart
    <3> QED
      BY <2>0, <3>1, <3>2, <3>3 DEF Whole, Ready
  <2> QED
    BY <2>1, <2>2, <2>3, <2>4, <2>5, <2>6, <2>7, <2>8, <2>9, <2>10, <2>11, <2>12 DEF Next, Step
<1> QED
  BY <1>1, <1>2, TypeInvariance, PTL DEF Spec

(* A document that is called completed is whole, every page once and every  *)
(* page with text with its embedding, whatever earlier attempts, deletions  *)
(* and crashes left behind: only two workers on one row at once can spoil   *)
(* it.                                                                     *)
THEOREM CompletedAreReady == Spec => []CompletedIsReady
<1>1. Wholes => CompletedIsReady
  BY DEF Wholes, Whole, CompletedIsReady
<1> QED
  BY <1>1, Wholeness, PTL
=============================================================================
