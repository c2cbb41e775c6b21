--------------------------- MODULE MCMetadataCatalog ---------------------------
(***************************************************************************)
(* Two users share the catalogue: two writers, an ingestion and a view.    *)
(* The tables are CSV files, the workbooks all those of up to three        *)
(* headers and two rows over a few cells.                                  *)
(***************************************************************************)
EXTENDS MetadataCatalog, FiniteSetsExt, TLC

CONSTANTS u1, u2, d1, w1, w2, i1, v1

MCUsers == {u1, u2}
MCDatasets == {d1}
MCWriters == {w1, w2}
MCIngests == {i1}
MCReaders == {v1}
MCArchives == {"a", "b"}
MCSymmetry == Permutations(MCUsers) \cup Permutations(MCWriters)

MCHeaders == {"", "file", "File", "file with an accent", "note", "Codigo de Sitio", "Id"}
MCCells == {"", "a", "A.zip", "b.pdf.zip", "b.pdf"}
MCTexts == MCHeaders \cup MCCells
             \cup {"A", "b", "a.zip", "a_ID_a", "s_ID_i", "codigo de sitio", "id"}

\* Every text stands for itself but for the exceptions.
Except(exceptions) == [x \in MCTexts |-> IF x \in DOMAIN exceptions THEN exceptions[x] ELSE x]

MCLower == Except("File" :> "file" @@ "A" :> "a" @@ "A.zip" :> "a.zip")
MCLookup == Except("File" :> "file" @@ "file with an accent" :> "file"
                     @@ "Codigo de Sitio" :> "codigo de sitio" @@ "Id" :> "id")
MCCanon == Except("A.zip" :> "A" @@ "b.pdf.zip" :> "b.pdf" @@ "b.pdf" :> "b")
MCJoin == [x \in MCTexts \X MCTexts |-> IF x = <<"a", "a">> THEN "a_ID_a" ELSE "s_ID_i"]

MCRows == {<<"a">>, <<"a", "a">>, <<"A.zip", "note", "a">>, <<"", "a", "a">>,
           <<"b.pdf.zip">>, <<"b.pdf", "a">>, <<"", "">>}
MCWorkbooks ==
  {[headers |-> [i \in DOMAIN names |-> Plain(names[i])], rows |-> body] :
     names \in BoundedSeq(MCHeaders, 3), body \in BoundedSeq(MCRows, 2)}

Csv(keys) == [headers |-> <<Plain("file"), Plain("note")>>, rows |-> [i \in DOMAIN keys |-> <<keys[i]>>]]
MCCsvs == "empty" :> Csv(<<>>) @@ "one" :> Csv(<<"A.zip">>) @@ "two" :> Csv(<<"b.pdf", "", "a">>)
            @@ "twice" :> Csv(<<"a", "A.zip">>)

\* The files that parse, and the archives their keys stand for.
MCTables == {t \in DOMAIN MCCsvs : Parse(MCCsvs[t]).ok}
MCKeysOf ==
  [t \in MCTables |-> LET keys == Parse(MCCsvs[t]).keys IN [i \in DOMAIN keys |-> MCLower[keys[i]]]]

=============================================================================
