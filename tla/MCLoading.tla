------------------------------ MODULE MCLoading ------------------------------
(***************************************************************************)
(* Texts of one column of up to three fields of every kind and of two      *)
(* columns of two records, ragged and well formed. Chunks of up to seven   *)
(* rows in one page or two, in every encoding, as a writer makes them.     *)
(***************************************************************************)
EXTENDS CsvReader, ParquetReader, FiniteSets

-----------------------------------------------------------------------------
(* A table is loaded into the engine, from a text or from a Parquet file:  *)
(* what is in it afterwards is what was written.                           *)

vars == <<csvVars, chunkVars>>

NoText ==
  /\ file = <<>> /\ phase = "none"
  /\ pos = 1 /\ record_index = 0 /\ header = <<>> /\ body_start = 1
  /\ inferences = <<>> /\ schema = <<>> /\ builders = <<>> /\ groups = <<>>
NoChunk ==
  /\ chunk = <<>> /\ state = "none"
  /\ stats = <<>> /\ offset = 0 /\ dictionary = <<>> /\ present = <<>> /\ values = <<>> /\ column = <<>>

Init == (CsvInit /\ NoChunk) \/ (ParquetInit /\ NoText)

Next ==
  \/ CsvNext /\ UNCHANGED chunkVars
  \/ ParquetNext /\ UNCHANGED csvVars

Spec == Init /\ [][Next]_vars

-----------------------------------------------------------------------------
(* Texts.                                                                  *)

Plain(text) == Field(text, FALSE)
Quoted(text) == Field(text, TRUE)

RECURSIVE Doubled(_)
Doubled(s) == IF s = <<>> THEN <<>>
              ELSE (IF Head(s) = Quote THEN <<Quote, Quote>> ELSE <<Head(s)>>) \o Doubled(Tail(s))
Written(f) == IF f.quoted THEN <<Quote>> \o Doubled(f.text) \o <<Quote>> ELSE f.text

RECURSIVE Joined(_, _)
Joined(parts, separator) ==
  IF Len(parts) <= 1 THEN FlattenSeq(parts)
  ELSE Head(parts) \o separator \o Joined(Tail(parts), separator)
Line(record) == Joined([i \in DOMAIN record |-> Written(record[i])], <<Delimiter>>)

Newlines == [eol |-> <<Newline>>, ended |-> TRUE, blank |-> FALSE]
Layouts == {Newlines, [eol |-> <<Return, Newline>>, ended |-> FALSE, blank |-> TRUE]}
Laid(lines, layout) ==
  Joined(lines, IF layout.blank THEN layout.eol \o layout.eol ELSE layout.eol)
  \o IF layout.ended THEN layout.eol ELSE <<>>

\* A file of records under a header line, or of records only.
File(names, records, layout, sample, well_formed) ==
  LET lines == (IF names = <<>> THEN <<>> ELSE <<Joined(names, <<Delimiter>>)>>)
               \o [r \in DOMAIN records |-> Line(records[r])]
  IN  [bytes |-> Laid(lines, layout), records |-> records, has_header |-> names # <<>>,
       infer_records |-> sample, well_formed |-> well_formed]

Words == {<<"1">>, <<"8">>, <<"1", ".", "1">>, <<"t">>, <<"D">>, <<"D", "H">>, <<"x">>}
OneColumn ==
  {Plain(w) : w \in Words} \cup {Plain(<<" ">>), Plain(<<" ", "1">>), Quoted(<<>>), Quoted(<<"1">>),
   Quoted(<<"x", Delimiter, Newline>>), Quoted(<<Quote, "x">>)}
Few == {Plain(<<"1">>), Plain(<<"1", ".", "1">>), Plain(<<"D">>), Plain(<<" ">>),
        Quoted(<<"1">>), Quoted(<<"x", Delimiter, Newline>>)}
TwoColumns == {Plain(<<>>), Plain(<<"1">>), Plain(<<"x">>), Quoted(<<>>), Quoted(<<Delimiter>>)}

Short == {File(<< <<"x">> >>, [r \in DOMAIN s |-> <<s[r]>>], layout, sample, TRUE) :
            s \in UNION {[1..n -> OneColumn] : n \in 0..2} \cup [1..3 -> Few],
            layout \in Layouts, sample \in {1, 3}}
Wide == {File(names, << <<s[1], s[2]>>, <<s[3], s[4]>> >>, layout, 3, TRUE) :
            names \in {<< <<"x">>, <<"t">> >>, <<>>}, s \in [1..4 -> TwoColumns], layout \in Layouts}
Ragged == {File(<< <<"x">>, <<"t">> >>, << <<s[1], s[2]>>, <<s[3]>> >>, Newlines, sample, FALSE) :
            s \in [1..3 -> {Plain(<<"1">>), Quoted(<<"x">>)}], sample \in {1, 3}}
          \cup {File(<< <<"x">>, <<"X">> >>, <<>>, Newlines, 3, FALSE), File(<<>>, <<>>, Newlines, 3, FALSE),
                [File(<< <<"x">> >>, <<>>, Newlines, 3, FALSE) EXCEPT !.bytes = @ \o <<Quote, "x">>]}
MCFiles == {Short, Wide, Ragged}

-----------------------------------------------------------------------------
(* Chunks.                                                                  *)

\* How a writer encodes. Runs of one value each as long as it goes, or groups, or one
\* run of the first value and then groups.
RECURSIVE Repeats(_)
Repeats(s) == IF Len(s) > 1 /\ s[1] = s[2] THEN 1 + Repeats(Tail(s)) ELSE Len(SubSeq(s, 1, 1))
RECURSIVE RunsOf(_, _)
RunsOf(s, bits) ==
  IF s = <<>> THEN <<>>
  ELSE <<2 * Repeats(s)>> \o SubSeq(<<s[1]>>, 1, Width(bits)) \o RunsOf(From(s, Repeats(s) + 1), bits)
Groups(s) == (Len(s) + GROUP - 1) \div GROUP
GroupsOf(s, bits) ==
  IF s = <<>> THEN <<>>
  ELSE <<2 * Groups(s) + 1>>
       \o IF bits = 0 THEN <<>> ELSE [i \in 1..GROUP * Groups(s) |-> IF i \in DOMAIN s THEN s[i] ELSE 0]
Hybrid(s, bits, style) ==
  CASE style = "runs" \/ s = <<>> -> RunsOf(s, bits)
    [] style = "groups" -> GroupsOf(s, bits)
    [] OTHER -> RunsOf(SubSeq(s, 1, Repeats(s)), bits) \o GroupsOf(From(s, Repeats(s) + 1), bits)

\* Deltas in blocks of four, two to a miniblock; `cut` if the last padding is cut short.
Deltas(s) == [i \in 1..Len(s) - 1 |-> Wrap(s[i + 1] - s[i])]
Least(s) == CHOOSE d \in ToSet(s) : \A e \in ToSet(s) : d <= e
DeltaBlock(deltas, cut) ==
  LET least == Least(deltas)
      residual == [i \in DOMAIN deltas |-> deltas[i] - least]
      mini(m) == SubSeq(residual, 2 * m - 1, IF Len(residual) < 2 * m THEN Len(residual) ELSE 2 * m)
      bits(m) == IF ToSet(mini(m)) \subseteq {0} THEN 0 ELSE W
      packed(m) == IF bits(m) = 0 THEN <<>>
                   ELSE mini(m) \o IF Len(mini(m)) = 2 \/ cut THEN <<>> ELSE <<0>>
  IN  <<least, bits(1), bits(2)>> \o packed(1) \o packed(2)
RECURSIVE DeltaBlocks(_, _)
DeltaBlocks(deltas, cut) ==
  IF deltas = <<>> THEN <<>>
  ELSE DeltaBlock(Taken(deltas, 4), cut /\ Len(deltas) <= 4) \o DeltaBlocks(From(deltas, 5), cut)
Delta(s, cut) == <<4, 2, Len(s), IF s = <<>> THEN 0 ELSE s[1]>> \o DeltaBlocks(Deltas(s), cut)

Lengths(texts) == [i \in DOMAIN texts |-> Len(texts[i])]
Shared(a, b) == CHOOSE n \in 0..Len(a) : /\ n <= Len(b) /\ SubSeq(a, 1, n) = SubSeq(b, 1, n)
                                         /\ n = Len(a) \/ n = Len(b) \/ a[n + 1] # b[n + 1]
PrefixLens(texts) == [i \in DOMAIN texts |-> IF i = 1 THEN 0 ELSE Shared(texts[i - 1], texts[i])]
SuffixesOf(texts) == [i \in DOMAIN texts |-> From(texts[i], PrefixLens(texts)[i] + 1)]

PlainUnits(s, type) == IF type # "text" THEN s ELSE FlattenSeq([i \in DOMAIN s |-> <<Len(s[i])>> \o s[i]])
Distinct(s) == SetToSeq(ToSet(s))
\* A dictionary of one value takes indices of no bits.
Bits(dict) == IF Len(dict) <= 1 THEN 0 ELSE 2
Coded(s, dict, style) ==
  <<Bits(dict)>> \o Hybrid([i \in DOMAIN s |-> (CHOOSE k \in DOMAIN dict : dict[k] = s[i]) - 1], Bits(dict), style)
Low(v) == (v % 2^W) % Half
High(v) == (v % 2^W) \div Half

Encoded(s, encoding, type, dict, style) ==
  CASE encoding = "PLAIN" -> PlainUnits(s, type)
    [] encoding = "RLE_DICTIONARY" -> Coded(s, dict, style)
    [] encoding = "RLE" -> LET runs == Hybrid(s, 1, style) IN <<Len(runs)>> \o runs
    [] encoding = "DELTA_BINARY_PACKED" -> Delta(s, style = "groups")
    [] encoding = "DELTA_LENGTH_BYTE_ARRAY" -> Delta(Lengths(s), FALSE) \o FlattenSeq(s)
    [] encoding = "DELTA_BYTE_ARRAY" ->
         Delta(PrefixLens(s), FALSE) \o Delta(Lengths(SuffixesOf(s)), FALSE) \o FlattenSeq(SuffixesOf(s))
    [] encoding = "BYTE_STREAM_SPLIT" -> [i \in DOMAIN s |-> Low(s[i])] \o [i \in DOMAIN s |-> High(s[i])]

Values(rows) == LET kept == SelectSeq(rows, LAMBDA r : r # <<>>) IN [i \in DOMAIN kept |-> kept[i][1]]

\* A page of rows. `how` is [version, encoding, style].
PageOf(rows, leaf, dict, how) ==
  LET levels == IF ~leaf.nullable THEN <<>>
                ELSE Hybrid([i \in DOMAIN rows |-> IF rows[i] = <<>> THEN 0 ELSE 1], 1, how.style)
      data == Encoded(Values(rows), how.encoding, leaf.type, dict, how.style)
      sized == IF leaf.nullable THEN <<Len(levels)>> \o levels ELSE <<>>
  IN  [type |-> how.version, count |-> Len(rows), encoding |-> how.encoding, level_encoding |-> "RLE",
       levels_length |-> Len(levels), num_nulls |-> Len(rows) - Len(Values(rows)),
       units |-> (IF how.version = "v1" THEN sized ELSE levels) \o data]
DictionaryPage(dict, type) == [type |-> "dictionary", count |-> Len(dict), units |-> PlainUnits(dict, type)]
IndexPage == [type |-> "index"]

\* Rows in two pages, the first of n, each as `hows` says; what is before and behind
\* the chunk in the file is some other chunk's.
ChunkOf(rows, n, leaf, hows, bounds) ==
  LET coded == \E k \in 1..2 : hows[k].encoding = "RLE_DICTIONARY"
      dict == Distinct(Values(rows))
      first == PageOf(SubSeq(rows, 1, n), leaf, dict, hows[1])
      second == PageOf(From(rows, n + 1), leaf, dict, hows[2])
      data == <<first>> \o (IF n = Len(rows) THEN <<>> ELSE <<second>>)
      pages == (IF coded THEN <<DictionaryPage(dict, leaf.type)>> ELSE <<>>) \o data
  IN  [file |-> <<IndexPage>> \o pages \o <<first>>,
       dictionary_page_offset |-> IF coded THEN 2 ELSE 0,
       data_page_offset |-> IF coded THEN 3 ELSE 2,
       total_size |-> Len(pages), num_rows |-> Len(rows), leaf |-> leaf, codec |-> "SNAPPY",
       encodings |-> {hows[k].encoding : k \in 1..2}, statistics |-> bounds, written |-> rows, well_formed |-> TRUE]

Leaf(type, nullable, conversion) == [type |-> type, nullable |-> nullable, conversion |-> conversion, factor |-> 2]
NoBounds == [min |-> <<>>, max |-> <<>>, null_count |-> <<>>]
\* The bounds of the values, or, from a writer that does not sort them, the reverse.
Bounds(rows, type, crossed) ==
  LET vs == ToSet(Values(rows))
      least == {v \in vs : \A w \in vs : ~Before(w, v, type)}
      most == {v \in vs : \A w \in vs : ~Before(v, w, type)}
      min == SetToSeq(least)
      max == SetToSeq(most)
  IN  [min |-> IF crossed THEN max ELSE min, max |-> IF crossed THEN min ELSE max,
       null_count |-> <<Cardinality({i \in DOMAIN rows : rows[i] = <<>>})>>]
How(version, encoding, style) == [version |-> version, encoding |-> encoding, style |-> style]
Versions == {"v1", "v2"}
Styles == {"runs", "groups", "both"}

Columns(cells, lengths) == UNION {[1..n -> cells] : n \in lengths}
Some(cells) == {<<c>> : c \in cells}
\* In one page, or in two.
Cut(rows, whole) == IF whole THEN Len(rows) ELSE Len(rows) \div 2
Same(columns, leaf, hows) ==
  {ChunkOf(rows, Cut(rows, whole), leaf, <<how, how>>, Bounds(rows, leaf.type, crossed)) :
     rows \in columns, whole \in BOOLEAN, how \in hows, crossed \in BOOLEAN}

Whole == Leaf("integer", TRUE, "none")
IntHows ==
  {How(v, e, s) : v \in Versions, s \in {"runs", "groups"},
                  e \in {"PLAIN", "RLE_DICTIONARY", "DELTA_BINARY_PACKED", "BYTE_STREAM_SPLIT"}}
\* A dictionary that is given up for plain pages, or the other way about.
Ints == {ChunkOf(rows, Cut(rows, whole), Whole, <<first, second>>, Bounds(rows, "integer", FALSE)) :
           rows \in Columns({<<>>} \cup Some({-7, 0, 3}), 1..3), whole \in BOOLEAN, first \in IntHows,
           second \in {How("v1", "PLAIN", "runs"), How("v2", "RLE_DICTIONARY", "both")}}
\* Several blocks of deltas, and runs of every length.
Longs == Same(Columns(Some({-7, 3}), 5..7), Leaf("integer", FALSE, "none"),
              {How("v1", "RLE_DICTIONARY", "both"), How("v2", "DELTA_BINARY_PACKED", "runs"),
               How("v1", "DELTA_BINARY_PACKED", "groups")})
\* Four texts have three differences of lengths, which leaves a miniblock padded.
Texts == Same(Columns({<<>>} \cup Some({<<>>, <<1>>, <<1, 2>>, <<1, 1>>}), 0..2)
              \cup Columns(Some({<<>>, <<1>>, <<1, 2>>}), {4}),
              Leaf("text", TRUE, "none"),
              {How(v, e, "both") : v \in Versions, e \in {"PLAIN", "RLE_DICTIONARY",
                                          "DELTA_LENGTH_BYTE_ARRAY", "DELTA_BYTE_ARRAY"}})
Bools == Same(Columns({<<>>} \cup Some({0, 1}), {2, 4}), Leaf("boolean", TRUE, "none"),
              {How(v, e, s) : v \in Versions, e \in {"PLAIN", "RLE"}, s \in Styles})
Times(conversion) == Same(Columns({<<>>} \cup Some({-3, -2, 1, 3}), 1..2), Leaf("integer", TRUE, conversion),
                          {How("v1", "PLAIN", "runs")})

\* The footer may name no dictionary and let the data begin with it. The others are
\* not well formed: a row too many, a dictionary left out, a page cut short, NULLs
\* counted wrong, a chunk that ends beyond the file, a codec or an encoding unknown.
Sample == ChunkOf(<<<<3>>, <<>>, <<-7>>>>, 2, Whole,
                  <<How("v1", "RLE_DICTIONARY", "runs"), How("v2", "PLAIN", "runs")>>, NoBounds)
Spoilt ==
  {[Sample EXCEPT !.num_rows = 4], [Sample EXCEPT !.dictionary_page_offset = 0, !.total_size = 2],
   [Sample EXCEPT !.file[3].units = Front(@)], [Sample EXCEPT !.file[2].units = Front(@)],
   [Sample EXCEPT !.file[4].num_nulls = 1], [Sample EXCEPT !.total_size = 5],
   [Sample EXCEPT !.file[3].level_encoding = "BIT_PACKED"], [Sample EXCEPT !.codec = "ZSTD"],
   [Sample EXCEPT !.encodings = @ \cup {"BIT_PACKED"}]}
Odd == {[Sample EXCEPT !.dictionary_page_offset = 0, !.data_page_offset = 2],
        [Sample EXCEPT !.file = InsertAt(@, 4, IndexPage), !.total_size = 4]}
       \cup {[c EXCEPT !.well_formed = FALSE] : c \in Spoilt}
MCChunks == {Ints, Longs, Texts, Bools, Times("scale"), Times("divide"), Odd}
==============================================================================
