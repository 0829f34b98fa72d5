------------------------------ MODULE CsvReader ------------------------------
(***************************************************************************)
(* storage/csv.rs: read_csv. Two passes over the bytes: the first decides   *)
(* each column's type from a sample of the records, the second builds the   *)
(* columns, row group by row group. A byte is one of a few characters; the  *)
(* longer words a type takes (a date, a time, an integer beyond 32 bits)    *)
(* are characters of their own.                                            *)
(***************************************************************************)
EXTENDS Naturals, SequencesExt

CONSTANTS
  Files,           \* sets of files: what is written in them, and how
  RowGroupSize     \* CsvOptions::row_group_size

ASSUME RowGroupSizeAssumption == RowGroupSize \in Nat \ {0}

VARIABLES
  file,            \* the file being read, of one of Files
  pos,             \* RecordReader::pos
  record_index,    \* RecordReader::record_index
  phase,           \* "header", "infer", "build", "loaded" or "failed"
  header,          \* the column names
  body_start,      \* where the first record after the header is
  inferences,      \* a TypeInference per column
  schema,          \* a field per column, once the sample is read
  builders,        \* the rows of the group being built
  groups           \* row_groups

csvVars == <<file, pos, record_index, phase, header, body_start, inferences, schema, builders, groups>>

-----------------------------------------------------------------------------
(* Characters and types.                                                   *)

Quote == "quote"
Delimiter == ","
Newline == "\n"
Return == "\r"
White == {" ", Newline, Return}
NULL == <<"NULL">>

RECURSIVE trim(_)
trim(s) == CASE s = <<>> -> s
             [] Head(s) \in White -> trim(Tail(s))
             [] Last(s) \in White -> trim(Front(s))
             [] OTHER -> s

\* Every type a text could be, most specific first. "1" is a digit, "8" one of an
\* integer only Int64 holds, "D" a date, "H" the time after it.
Priority == <<"Boolean", "Int32", "Int64", "Float64", "Date32", "Timestamp">>
AllOf(s, chars) == s # <<>> /\ ToSet(s) \subseteq chars
fits(s, type) ==
  CASE type = "Boolean" -> s \in {<<"t">>, <<"f">>}
    [] type = "Int32" -> AllOf(s, {"1"})
    [] type = "Int64" -> AllOf(s, {"1", "8"})
    [] type = "Float64" -> AllOf(s, {"1", "8", "."}) /\ s # <<".">> /\ Len(SelectSeq(s, LAMBDA c : c = ".")) <= 1
    [] type = "Date32" -> s = <<"D">>
    [] type = "Timestamp" -> s \in {<<"D">>, <<"D", "H">>}

is_null(f) == ~f.quoted /\ trim(f.text) = <<>>

\* A value is its type and the text that denotes it; "1" is the boolean true where
\* the column is boolean. No value where the text is not of the type.
parse_field(f, type) ==
  LET s == trim(f.text) IN
  CASE is_null(f) -> <<NULL>>
    [] type = "Utf8" -> <<f.text>>
    [] type = "Boolean" /\ s = <<"1">> -> << <<"t">> >>
    [] OTHER -> IF fits(s, type) THEN <<s>> ELSE <<>>

-----------------------------------------------------------------------------
(* Record scanning.                                                        *)

At(src, i) == IF i \in DOMAIN src THEN src[i] ELSE "end"
EndOfLine(src, i) == CASE At(src, i) = Newline -> 1
                       [] At(src, i) = Return /\ At(src, i + 1) = Newline -> 2
                       [] OTHER -> 0

Field(text, quoted) == [text |-> text, quoted |-> quoted]
Scanned(out, i, status) == [out |-> out, pos |-> i, status |-> status]

\* Inside the quotes: the text up to the closing one, a doubled one being one.
RECURSIVE quoted_text(_, _, _)
quoted_text(src, i, text) ==
  CASE At(src, i) = Quote /\ At(src, i + 1) = Quote -> quoted_text(src, i + 2, Append(text, Quote))
    [] At(src, i) = Quote -> Scanned(text, i + 1, "record")
    [] At(src, i) = "end" -> Scanned(text, i, "unterminated")
    [] OTHER -> quoted_text(src, i + 1, Append(text, src[i]))

\* Mutant of push_field: `quoted` is not reset for the next field.
PushKeepsQuoted(out, f) == [out |-> Append(out, f), next |-> Field(<<>>, f.quoted)]
push_field(out, f) == [out |-> Append(out, f), next |-> Field(<<>>, FALSE)]

RECURSIVE scan(_, _, _, _)
scan(src, i, out, f) ==
  LET pushed == push_field(out, f) IN
  CASE At(src, i) = "end" -> Scanned(pushed.out, i, "record")
    [] At(src, i) = Quote /\ f.text = <<>> /\ ~f.quoted ->
         LET inner == quoted_text(src, i + 1, <<>>)
         IN  IF inner.status # "record" THEN inner
             ELSE scan(src, inner.pos, out, Field(inner.out, TRUE))
    [] At(src, i) = Delimiter -> scan(src, i + 1, pushed.out, pushed.next)
    [] EndOfLine(src, i) > 0 -> Scanned(pushed.out, i + EndOfLine(src, i), "record")
    [] OTHER -> scan(src, i + 1, out, Field(Append(f.text, src[i]), f.quoted))

\* Blank lines are skipped.
RECURSIVE next_record(_, _)
next_record(src, i) ==
  IF At(src, i) = "end" THEN Scanned(<<>>, i, "done")
  ELSE IF EndOfLine(src, i) > 0 THEN next_record(src, i + EndOfLine(src, i))
  ELSE scan(src, i, <<>>, Field(<<>>, FALSE))

-----------------------------------------------------------------------------
(* Type inference.                                                         *)

TypeInference == [viable |-> ToSet(Priority), saw_value |-> FALSE, saw_null |-> FALSE]

\* Mutant of observe: an integer beyond 32 bits leaves Int32 viable.
ObserveAnyInteger(inf, f) ==
  IF is_null(f) THEN [inf EXCEPT !.saw_null = TRUE]
  ELSE [inf EXCEPT !.saw_value = TRUE,
                   !.viable = {t \in @ : fits(trim(f.text), IF t = "Int32" THEN "Int64" ELSE t)}]

observe(inf, f) ==
  IF is_null(f) THEN [inf EXCEPT !.saw_null = TRUE]
  ELSE [inf EXCEPT !.saw_value = TRUE, !.viable = {t \in @ : fits(trim(f.text), t)}]

resolve(inf) ==
  LET viable == SelectSeq(Priority, LAMBDA t : t \in inf.viable)
  IN  IF ~inf.saw_value \/ viable = <<>> THEN "Utf8" ELSE Head(viable)

Lower(c) == IF c = "X" THEN "x" ELSE c
check_duplicate_headers(names) ==
  \A i, j \in DOMAIN names :
    i # j => [k \in DOMAIN names[i] |-> Lower(names[i][k])] # [k \in DOMAIN names[j] |-> Lower(names[j][k])]

-----------------------------------------------------------------------------
Bytes == file.bytes
Record == next_record(Bytes, pos)
Fail == /\ phase' = "failed"
        /\ UNCHANGED <<file, pos, record_index, header, body_start, inferences, schema, builders, groups>>

CsvInit ==
  /\ \E files \in Files : file \in files
  /\ pos = 1 /\ record_index = 0
  /\ phase = "header" /\ header = <<>> /\ body_start = 1
  /\ inferences = <<>> /\ schema = <<>>
  /\ builders = <<>> /\ groups = <<>>

\* Without a header line the columns are numbered, and the line is a record.
ReadHeader ==
  /\ phase = "header"
  /\ IF Record.status # "record" THEN Fail
     ELSE LET names == IF file.has_header THEN [i \in DOMAIN Record.out |-> Record.out[i].text]
                       ELSE [i \in DOMAIN Record.out |-> [k \in 1..i |-> "column"]]
          IN  IF ~check_duplicate_headers(names) THEN Fail
              ELSE /\ header' = names
                   /\ body_start' = IF file.has_header THEN Record.pos ELSE 1
                   /\ pos' = body_start'
                   /\ inferences' = [i \in DOMAIN names |-> TypeInference]
                   /\ phase' = "infer"
                   /\ UNCHANGED <<file, record_index, schema, builders, groups>>

\* One record of the sample, while the sample is not full.
InferRecord ==
  /\ phase = "infer"
  /\ record_index < file.infer_records
  /\ Record.status # "done"
  /\ IF Record.status # "record" \/ Len(Record.out) # Len(header) THEN Fail
     ELSE /\ inferences' = [i \in DOMAIN header |-> observe(inferences[i], Record.out[i])]
          /\ pos' = Record.pos /\ record_index' = record_index + 1
          /\ UNCHANGED <<file, phase, header, body_start, schema, builders, groups>>

\* The types are decided, and the records are read again from the first one.
DecideTypes ==
  /\ phase = "infer"
  /\ record_index >= file.infer_records \/ Record.status = "done"
  /\ schema' = [i \in DOMAIN header |->
                  [name |-> header[i], type |-> resolve(inferences[i]), nullable |-> inferences[i].saw_null]]
  /\ pos' = body_start /\ record_index' = 0
  /\ phase' = "build"
  /\ UNCHANGED <<file, header, body_start, inferences, builders, groups>>

\* One record, and the end of the group it fills.
BuildRecord ==
  /\ phase = "build"
  /\ Record.status # "done"
  /\ IF Record.status # "record" \/ Len(Record.out) # Len(header) THEN Fail
     ELSE LET parsed == [i \in DOMAIN schema |-> parse_field(Record.out[i], schema[i].type)]
              rows == Append(builders, [i \in DOMAIN parsed |-> parsed[i][1]])
          IN  IF \E i \in DOMAIN parsed : parsed[i] = <<>> THEN Fail
              ELSE /\ builders' = IF Len(rows) = RowGroupSize THEN <<>> ELSE rows
                   /\ groups' = IF Len(rows) = RowGroupSize THEN Append(groups, rows) ELSE groups
                   /\ pos' = Record.pos /\ record_index' = record_index + 1
                   /\ UNCHANGED <<file, phase, header, body_start, inferences, schema>>

Finish ==
  /\ phase = "build"
  /\ Record.status = "done"
  /\ groups' = IF builders = <<>> THEN groups ELSE Append(groups, builders)
  /\ phase' = "loaded"
  /\ UNCHANGED <<file, pos, record_index, header, body_start, inferences, schema, builders>>

CsvNext == ReadHeader \/ InferRecord \/ DecideTypes \/ BuildRecord \/ Finish

-----------------------------------------------------------------------------
(* What is written in the file, and what that says of the table.           *)

Sampled == {r \in DOMAIN file.records : r <= file.infer_records}

\* csv.rs, read_csv: the table read holds what was written, field by field: NULL
\* where an unquoted field is blank and the text itself in a column of text, however
\* the file was laid out (quotes, line ends, blank lines, a last line unended), in
\* row groups that are full up to the last.
LoadedIsWritten ==
  phase = "loaded" =>
    /\ FlattenSeq(groups) =
         [r \in DOMAIN file.records |->
            [i \in DOMAIN header |->
               LET f == file.records[r][i] IN
               CASE is_null(f) -> NULL
                 [] schema[i].type = "Utf8" -> f.text
                 [] schema[i].type = "Boolean" /\ trim(f.text) = <<"1">> -> <<"t">>
                 [] OTHER -> trim(f.text)]]
    /\ \A g \in DOMAIN groups : IF g < Len(groups) THEN Len(groups[g]) = RowGroupSize
                                ELSE Len(groups[g]) \in 1..RowGroupSize

\* csv.rs:84-106: what the schema says is true of the sample, and only a record beyond
\* it may disagree: a well-formed file is refused only for a value there that the type
\* of its column does not take, and a column of a field that is not nullable holds a
\* NULL only there. A file whose sample is whole is never refused.
OnlyBeyondTheSample ==
  /\ phase = "failed" /\ file.well_formed =>
       \E r \in DOMAIN file.records \ Sampled : \E i \in DOMAIN schema :
         /\ ~is_null(file.records[r][i])
         /\ schema[i].type # "Utf8"
         /\ ~fits(trim(file.records[r][i].text), schema[i].type)
  /\ LET built == FlattenSeq(groups) \o builders
     IN  \A r \in DOMAIN built : \A i \in DOMAIN schema :
           built[r][i] = NULL /\ ~schema[i].nullable => r > file.infer_records
==============================================================================
