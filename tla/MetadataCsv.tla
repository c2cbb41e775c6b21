------------------------------ MODULE MetadataCsv ------------------------------
(***************************************************************************)
(* The tables the metadata catalogue is fed with: parse_csv of             *)
(* services/metadata_upload_service.py and the conversion of workbooks in  *)
(* services/metadata_normalization_service.py.  A table is a row of        *)
(* headers and rows of cells, a cell a member of Texts; what the string    *)
(* functions of services/metadata_keys.py do to a text is given by the     *)
(* constants.                                                              *)
(***************************************************************************)
EXTENDS Naturals, Sequences, SequencesExt

CONSTANTS
  Texts,        \* the cells, and the names of headers
  Blank,        \* the empty text
  Lower,        \* [Texts -> Texts]: str.lower
  Lookup,       \* [Texts -> Texts]: lower case without accents
  Canon,        \* [Texts -> Texts]: canonicalize_file_key, without .zip or .pdf
  Join,         \* [Texts \X Texts -> Texts]: "<site>_ID_<id>"
  Workbooks     \* the sheets that are converted

\* What is "file" in lower case has no accents either.
ASSUME TextsAssumption ==
  /\ Blank \in Texts /\ Blank # "file"
  /\ Lower \in [Texts -> Texts] /\ Lookup \in [Texts -> Texts] /\ Canon \in [Texts -> Texts]
  /\ Join \in [Texts \X Texts -> Texts]
  /\ Lower[Blank] = Blank /\ Canon[Blank] = Blank
  /\ Lower["file"] = "file" /\ \A x \in Texts : Lower[x] = "file" => Lookup[x] = "file"

\* A header with the suffixes .1, .2 that make it unique.
Plain(name) == [name |-> name, suffix |-> <<>>]
LowerHeader(h) == [h EXCEPT !.name = Lower[@]]
FileHeader == Plain("file")

\* The suffixes of a sheet are those that its texts end in.
Headers == [name : Texts, suffix : Seq(Nat)]

ASSUME WorkbooksAssumption ==
  Workbooks \subseteq [headers : Seq(Headers), rows : Seq(Seq(Texts))]

Cell(row, i) == IF i \in DOMAIN row THEN row[i] ELSE Blank

\* The rows that are not blank: the k-th of them is the one up to which there are k.
Live(rows) ==
  LET live == {i \in DOMAIN rows : \E j \in DOMAIN rows[i] : rows[i][j] # Blank}
  IN  [k \in 1..Cardinality(live) |->
         rows[CHOOSE i \in live : Cardinality({j \in live : j <= i}) = k]]

Repeated(s) == \E i, j \in DOMAIN s : i < j /\ s[i] = s[j]

Failed == [ok |-> FALSE, keys |-> <<>>]

\* What every table must have: headers, none of them blank, none twice.
BadHeaders(headers) ==
  \/ headers = <<>>
  \/ \E i \in DOMAIN headers : headers[i].name = Blank
  \/ Repeated([i \in DOMAIN headers |-> LowerHeader(headers[i])])

\* The keys of the rows: each row has one, no two rows the same.
Checked(keys) ==
  IF Blank \in Range(keys) \/ Repeated([i \in DOMAIN keys |-> Lower[keys[i]]])
  THEN Failed ELSE [ok |-> TRUE, keys |-> keys]

\* parse_csv, and the duplicates upload_csv and replace_csv refuse.
Parse(table) ==
  LET rows == Live(table.rows)
  IN  IF BadHeaders(table.headers) \/ table.headers[1] # FileHeader THEN Failed
      ELSE Checked([i \in DOMAIN rows |-> Canon[Cell(rows[i], 1)]])

-----------------------------------------------------------------------------
(* Workbooks                                                                *)

\* The first suffix that makes h differ from every header before it.
Suffixed(h, before) ==
  LET used == {LowerHeader(g) : g \in Range(before)}
      free(n) == LowerHeader([h EXCEPT !.suffix = Append(@, n)]) \notin used
  IN  IF h.name = Blank \/ LowerHeader(h) \notin used THEN h
      ELSE [h EXCEPT !.suffix =
              Append(@, CHOOSE n \in 1..Len(before) : free(n) /\ \A m \in 1..(n - 1) : ~free(m))]

\* _make_unique_headers: each header is made different from those before it.
UniqueHeaders(headers) ==
  LET unique[i \in DOMAIN headers] == Suffixed(headers[i], [j \in 1..(i - 1) |-> unique[j]])
  IN  unique

\* The column a header is found in: of several the last one, as in a dictionary.
Column(headers, name) ==
  LET found == {i \in DOMAIN headers : headers[i].suffix = <<>> /\ Lookup[headers[i].name] = name}
  IN  IF found = {} THEN 0 ELSE CHOOSE i \in found : \A j \in found : j <= i

\* The file a row is about: its own column, or made of site and id.
RawKey(headers, row) ==
  LET site == Cell(row, Column(headers, "codigo de sitio"))
      id == Cell(row, Column(headers, "id"))
  IN  IF Column(headers, "file") # 0 THEN Cell(row, Column(headers, "file"))
      ELSE IF Blank \in {site, id} THEN Blank ELSE Join[<<site, id>>]

Derivable(headers) ==
  Column(headers, "file") # 0
    \/ (Column(headers, "codigo de sitio") # 0 /\ Column(headers, "id") # 0)

\* Mutant of Without: the column of the files is written twice.
Unchanged(s, i) == s

\* s without the element at i; as it is when i is 0.
Without(s, i) == IF i = 0 THEN s ELSE SubSeq(s, 1, i - 1) \o SubSeq(s, i + 1, Len(s))
Padded(row, n) == [i \in 1..n |-> Cell(row, i)]

\* normalize_metadata_workbook_to_csv: the table it writes, and its keys.
Normalize(sheet) ==
  LET headers == UniqueHeaders(sheet.headers)
      rows == Live(sheet.rows)
      file == Column(headers, "file")
      found == Checked([i \in DOMAIN rows |-> Canon[RawKey(headers, rows[i])]])
  IN  IF BadHeaders(headers) \/ ~Derivable(headers) \/ ~found.ok
      THEN [ok |-> FALSE, keys |-> <<>>, headers |-> <<>>, rows |-> <<>>]
      ELSE [ok |-> TRUE, keys |-> found.keys,
            headers |-> <<FileHeader>> \o Without(headers, file),
            rows |-> [i \in DOMAIN rows |->
                        <<found.keys[i]>> \o Without(Padded(rows[i], Len(headers)), file)]]

-----------------------------------------------------------------------------
\* The workbooks that are converted into a table the catalogue does not accept, or
\* reads other keys from, although no key keeps an extension when one is taken away
\* (the catalogue takes a second one away) and only one header reads as "file".
MisreadWorkbooks ==
  {sheet \in Workbooks :
     LET table == Normalize(sheet)
         reads == {i \in DOMAIN sheet.headers : Lookup[sheet.headers[i].name] = "file"}
     IN  /\ table.ok
         /\ \A i \in DOMAIN table.keys : Canon[table.keys[i]] = table.keys[i]
         /\ \A i, j \in reads : Lower[sheet.headers[i].name] = Lower[sheet.headers[j].name]
         /\ Parse(table) # [ok |-> TRUE, keys |-> table.keys]}
=============================================================================
