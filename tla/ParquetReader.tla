---------------------------- MODULE ParquetReader ----------------------------
(***************************************************************************)
(* storage/parquet: a row group of a Parquet file is loaded from its footer *)
(* alone, and a column chunk of it is decoded, page by page, the first time *)
(* a scan asks for it.                                                      *)
(*                                                                          *)
(* A file is a sequence of pages, and the body of a page a sequence of      *)
(* units: a length, a header of a run, a bit-packed value, a letter.  What  *)
(* the bytes of a unit are, and compression, are left out.                  *)
(***************************************************************************)
EXTENDS Integers, SequencesExt

CONSTANTS
  Chunks,    \* sets of column chunks: what is written in them, and how
  W,         \* bits of an integer: 32 or 64 in the code
  GROUP      \* values in a bit-packed group: 8 in the code

ASSUME ParquetAssumption == W \in Nat \ {0} /\ GROUP \in Nat \ {0}

VARIABLES
  chunk,      \* the chunk, of one of Chunks
  state,      \* "unread", "refused", "pending", "decoding", "resident" or "failed"
  stats,      \* ColumnStats, out of the footer
  offset,     \* where in the file decode_chunk is
  dictionary, \* the values of the dictionary page, if one was read
  present,    \* for each row read so far, whether it holds a value
  values,     \* the values of those that do
  column      \* the cached column, a row being empty where it is NULL

chunkVars == <<chunk, state, stats, offset, dictionary, present, values, column>>

-----------------------------------------------------------------------------
(* Encodings. A decoder is given units and returns the set of its results:  *)
(* none if it fails.                                                        *)

Each(results, next(_)) == UNION {next(r) : r \in results}
From(units, at) == SubSeq(units, at, Len(units))
Taken(seq, count) == SubSeq(seq, 1, IF count < Len(seq) THEN count ELSE Len(seq))
Wrap(n) == ((n + 2^(W - 1)) % 2^W) - 2^(W - 1)

\* A value of no bits takes no unit.
Value(units, at, bits) == IF bits = 0 THEN 0 ELSE units[at]
Width(bits) == IF bits = 0 THEN 0 ELSE 1

\* Runs of one value and runs of bit-packed groups, up to `count` values; `out` are the
\* values of the runs before. The last group is padded, and the padding is read too.
RECURSIVE rle_runs(_, _, _, _)
rle_runs(units, bits, count, out) ==
  IF Len(out) >= count THEN {out}
  ELSE IF units = <<>> THEN {}
  ELSE LET len == Head(units) \div 2
           take == IF len < count - Len(out) THEN len ELSE count - Len(out)
           slots == len * GROUP
           read == IF slots < count - Len(out) THEN slots ELSE count - Len(out)
           skipped == slots - (IF Len(out) + read < slots THEN Len(out) + read ELSE slots)
           used == Width(bits) * (read + skipped)
       IN  CASE len = 0 -> {}
             [] Head(units) % 2 = 0 ->
                  IF Len(units) < 1 + Width(bits) THEN {}
                  ELSE rle_runs(From(units, 2 + Width(bits)), bits, count,
                                out \o [k \in 1..take |-> Value(units, 2, bits)])
             [] OTHER ->
                  IF Len(units) < 1 + used THEN {}
                  ELSE rle_runs(From(units, 2 + used), bits, count,
                                out \o [k \in 1..read |-> Value(units, 1 + k, bits)])
decode_rle_hybrid(units, bits, count) == rle_runs(units, bits, count, <<>>)

\* One slot of a miniblock: a value, or padding, which a writer may have cut short.
slot(units, bits, min_delta, total, s) ==
  LET there == bits = 0 \/ s.at \in DOMAIN units
  IN  IF Len(s.out) >= total THEN {IF there THEN [s EXCEPT !.at = @ + Width(bits)] ELSE s}
      ELSE IF ~there THEN {}
      ELSE {[out |-> Append(s.out, Wrap(Last(s.out) + min_delta + Value(units, s.at, bits))),
             at |-> s.at + Width(bits)]}

\* Mutant of miniblock: what pads the last miniblock is left unread.
MiniblockUnpadded(units, bits, per, min_delta, total, s) ==
  FoldLeft(LAMBDA ss, k : Each(ss, LAMBDA t : IF Len(t.out) >= total THEN {t}
                                              ELSE slot(units, bits, min_delta, total, t)),
           {s}, [k \in 1..per |-> k])

\* A miniblock of no values is omitted but for its width.
miniblock(units, bits, per, min_delta, total, s) ==
  IF Len(s.out) >= total THEN {s}
  ELSE FoldLeft(LAMBDA ss, k : Each(ss, LAMBDA t : slot(units, bits, min_delta, total, t)),
                {s}, [k \in 1..per |-> k])

\* A block is the least delta, a width for each miniblock, and the miniblocks.
RECURSIVE blocks(_, _, _, _, _)
blocks(units, miniblocks, per, total, s) ==
  IF Len(s.out) >= total THEN {s}
  ELSE IF Len(units) < s.at + miniblocks THEN {}
  ELSE Each(FoldLeft(LAMBDA ss, m :
                       Each(ss, LAMBDA t : miniblock(units, units[s.at + m], per, units[s.at], total, t)),
                     {[s EXCEPT !.at = @ + 1 + miniblocks]}, [m \in 1..miniblocks |-> m]),
            LAMBDA t : blocks(units, miniblocks, per, total, t))

\* out are the integers, at is where what follows them begins.
decode_delta_binary_packed(units) ==
  IF Len(units) < 4 THEN {}
  ELSE LET block_size == units[1]
           miniblocks == units[2]
           total == units[3]
       IN  IF miniblocks = 0 \/ block_size = 0 THEN {}
           ELSE IF block_size % miniblocks # 0 THEN {}
           ELSE blocks(units, miniblocks, block_size \div miniblocks, total,
                       [out |-> IF total > 0 THEN <<units[4]>> ELSE <<>>, at |-> 5])

Total(lengths) == FoldLeft(LAMBDA sum, len : sum + len, 0, lengths)
\* The letters from `at` on, cut into pieces of these lengths.
Pieces(units, at, lengths) ==
  IF (\E i \in DOMAIN lengths : lengths[i] < 0) \/ at + Total(lengths) > Len(units) + 1 THEN {}
  ELSE {[i \in DOMAIN lengths |->
           LET start == at + Total(SubSeq(lengths, 1, i - 1)) IN SubSeq(units, start, start + lengths[i] - 1)]}

decode_delta_length_byte_array(units) ==
  Each(decode_delta_binary_packed(units), LAMBDA lengths : Pieces(units, lengths.at, lengths.out))

\* Each text is so much of the one before and a suffix of its own.
decode_delta_byte_array(units) ==
  Each(decode_delta_binary_packed(units), LAMBDA prefixes :
  Each(decode_delta_binary_packed(From(units, prefixes.at)), LAMBDA suffixes :
  IF Len(prefixes.out) # Len(suffixes.out) THEN {}
  ELSE Each(Pieces(units, prefixes.at + suffixes.at - 1, suffixes.out), LAMBDA pieces :
    FoldLeft(LAMBDA ss, i :
               Each(ss, LAMBDA out :
                 LET before == IF out = <<>> THEN <<>> ELSE Last(out)
                 IN  IF prefixes.out[i] \notin 0..Len(before) THEN {}
                     ELSE {Append(out, SubSeq(before, 1, prefixes.out[i]) \o pieces[i])}),
             {<<>>}, [i \in DOMAIN pieces |-> i]))))

\* The low halves of all the integers, then the high ones.
Half == 2^(W \div 2)
decode_byte_stream_split(units, count) ==
  IF Len(units) < 2 * count THEN {}
  ELSE {[i \in 1..count |-> Wrap(units[i] + Half * units[count + i])]}

\* Texts one after the other, each behind its length.
RECURSIVE plain_texts(_, _)
plain_texts(units, count) ==
  IF count = 0 THEN {<<>>}
  ELSE IF units = <<>> THEN {}
  ELSE IF Len(units) < 1 + Head(units) THEN {}
  ELSE Each(plain_texts(From(units, 2 + Head(units)), count - 1),
            LAMBDA rest : {<<SubSeq(units, 2, 1 + Head(units))>> \o rest})
decode_plain(units, type, count) ==
  CASE type = "text" -> plain_texts(units, count)
    [] count <= Len(units) -> {Taken(units, count)}
    [] OTHER -> {}

\* Values::gather.
gather(dict, indices) ==
  IF \E i \in DOMAIN indices : indices[i] + 1 \notin DOMAIN dict THEN {}
  ELSE {[i \in DOMAIN indices |-> dict[indices[i] + 1]]}

\* The units behind a length of their own, and what follows them.
Prefixed(units) ==
  IF units = <<>> THEN {}
  ELSE IF Len(units) < 1 + Head(units) THEN {}
  ELSE {[units |-> SubSeq(units, 2, 1 + Head(units)), rest |-> From(units, 2 + Head(units))]}

\* The values of a page, of which `count` are no NULLs.
decode_values(units, type, encoding, count) ==
  CASE encoding = "PLAIN" -> decode_plain(units, type, count)
    [] encoding = "RLE_DICTIONARY" ->
         IF dictionary = <<>> \/ units = <<>> THEN {}
         ELSE Each(decode_rle_hybrid(Tail(units), Head(units), count),
                   LAMBDA indices : gather(dictionary[1], indices))
    [] encoding = "RLE" /\ type = "boolean" ->
         Each(Prefixed(units), LAMBDA p : decode_rle_hybrid(p.units, 1, count))
    [] encoding = "DELTA_BINARY_PACKED" /\ type = "integer" ->
         Each(decode_delta_binary_packed(units), LAMBDA d : {Taken(d.out, count)})
    [] encoding = "DELTA_LENGTH_BYTE_ARRAY" /\ type = "text" ->
         Each(decode_delta_length_byte_array(units), LAMBDA texts : {Taken(texts, count)})
    [] encoding = "DELTA_BYTE_ARRAY" /\ type = "text" ->
         Each(decode_delta_byte_array(units), LAMBDA texts : {Taken(texts, count)})
    [] encoding = "BYTE_STREAM_SPLIT" /\ type = "integer" -> decode_byte_stream_split(units, count)
    [] OTHER -> {}

-----------------------------------------------------------------------------
(* The footer.                                                              *)

\* What the annotation of a column makes of a physical value.
Converted(v, leaf) ==
  CASE leaf.conversion = "scale" -> Wrap(v * leaf.factor)
    [] leaf.conversion = "divide" -> v \div leaf.factor
    [] OTHER -> v

\* types::compare of two texts, or of two integers.
Before(a, b, type) ==
  IF type # "text" THEN a < b
  ELSE \E n \in 0..Len(b) - 1 : /\ n <= Len(a)
                                /\ SubSeq(a, 1, n) = SubSeq(b, 1, n)
                                /\ n = Len(a) \/ a[n + 1] < b[n + 1]

\* Bounds that cross are no bounds; a count is taken as it is, or as unknown.
chunk_stats(c) ==
  LET bound(b) == [i \in DOMAIN b |-> Converted(b[i], c.leaf)]
      min == bound(c.statistics.min)
      max == bound(c.statistics.max)
      crossed == min # <<>> /\ max # <<>> /\ Before(max[1], min[1], c.leaf.type)
      clamped(n) == IF n > c.num_rows THEN c.num_rows ELSE n
  IN  [min |-> IF crossed THEN <<>> ELSE min, max |-> IF crossed THEN <<>> ELSE max,
       null_count |-> [i \in DOMAIN c.statistics.null_count |-> clamped(c.statistics.null_count[i])]]

Codecs == {"UNCOMPRESSED", "SNAPPY"}
Supported == {"PLAIN", "RLE", "RLE_DICTIONARY", "DELTA_BINARY_PACKED", "DELTA_LENGTH_BYTE_ARRAY",
              "DELTA_BYTE_ARRAY", "BYTE_STREAM_SPLIT"}
check_supported(c) == c.codec \in Codecs /\ c.encodings \subseteq Supported

\* A dictionary, if there is one, comes before the pages that the offset of the data names.
start_offset(c) ==
  IF c.dictionary_page_offset > 0 /\ c.dictionary_page_offset < c.data_page_offset
  THEN c.dictionary_page_offset ELSE c.data_page_offset

-----------------------------------------------------------------------------
ParquetInit ==
  /\ \E chunks \in Chunks : chunk \in chunks
  /\ state = "unread"
  /\ stats = <<>>
  /\ offset = 0 /\ dictionary = <<>> /\ present = <<>> /\ values = <<>>
  /\ column = <<>>

\* read_parquet: what could not be decoded is refused before anything is read of it.
ReadFooter ==
  /\ state = "unread"
  /\ IF check_supported(chunk)
     THEN state' = "pending" /\ stats' = <<chunk_stats(chunk)>>
     ELSE state' = "refused" /\ UNCHANGED stats
  /\ UNCHANGED <<chunk, offset, dictionary, present, values, column>>

End == start_offset(chunk) + chunk.total_size
FailDecode == state' = "failed" /\ UNCHANGED <<chunk, stats, offset, dictionary, present, values, column>>

\* RowGroup::column: a chunk that was decoded is not decoded again, one that failed is.
AskColumn ==
  /\ state \in {"pending", "failed"}
  /\ IF End > Len(chunk.file) + 1 THEN FailDecode
     ELSE /\ state' = "decoding"
          /\ offset' = start_offset(chunk)
          /\ dictionary' = <<>> /\ present' = <<>> /\ values' = <<>>
          /\ UNCHANGED <<chunk, stats, column>>

Page == chunk.file[offset]
AtPage(type) ==
  /\ state = "decoding"
  /\ offset < End
  /\ Len(present) < chunk.num_rows
  /\ Page.type = type

ReadDictionaryPage ==
  /\ AtPage("dictionary")
  /\ LET dict == decode_plain(Page.units, chunk.leaf.type, Page.count)
     IN  IF dict = {} THEN FailDecode
         ELSE /\ \E d \in dict : dictionary' = <<d>>
              /\ offset' = offset + 1
              /\ UNCHANGED <<chunk, state, stats, present, values, column>>

\* The rows of a page that hold a value, by its definition levels.
Levels(units, count) ==
  IF ~chunk.leaf.nullable THEN {[i \in 1..count |-> TRUE]}
  ELSE Each(decode_rle_hybrid(units, 1, count), LAMBDA levels : {[i \in DOMAIN levels |-> levels[i] = 1]})
Held(levels) == Len(SelectSeq(levels, LAMBDA p : p))

PushPage(pages) ==
  IF pages = {} THEN FailDecode
  ELSE /\ \E p \in pages : present' = present \o p.levels /\ values' = values \o p.values
       /\ offset' = offset + 1
       /\ UNCHANGED <<chunk, state, stats, dictionary, column>>

\* The levels, behind their length, and the values are one.
ReadDataPage ==
  /\ AtPage("v1")
  /\ LET required == {[units |-> <<>>, rest |-> Page.units]}
         sections == CASE ~chunk.leaf.nullable -> required
                       [] Page.level_encoding = "RLE" -> Prefixed(Page.units)
                       [] OTHER -> {}
     IN  PushPage(Each(sections, LAMBDA s :
                  Each(Levels(s.units, Page.count), LAMBDA levels :
                  Each(decode_values(s.rest, chunk.leaf.type, Page.encoding, Held(levels)), LAMBDA decoded :
                    {[levels |-> levels, values |-> decoded]}))))

\* The levels are as long as the header says, which also counts the NULLs.
ReadDataPageV2 ==
  /\ AtPage("v2")
  /\ LET levels_length == Page.levels_length
         levels == IF levels_length > Len(Page.units) THEN {}
                   ELSE Levels(SubSeq(Page.units, 1, levels_length), Page.count)
     IN  PushPage(Each(levels, LAMBDA l :
                  Each(decode_values(From(Page.units, levels_length + 1), chunk.leaf.type, Page.encoding,
                                     Page.count - Page.num_nulls), LAMBDA decoded :
                    {[levels |-> l, values |-> decoded]})))

SkipIndexPage ==
  /\ AtPage("index")
  /\ offset' = offset + 1
  /\ UNCHANGED <<chunk, state, stats, dictionary, present, values, column>>

\* assemble: each row that holds a value is given the next one.
Assemble ==
  /\ state = "decoding"
  /\ offset >= End \/ Len(present) >= chunk.num_rows
  /\ IF Len(present) # chunk.num_rows \/ Len(values) # Held(present) THEN FailDecode
     ELSE /\ column' = [i \in DOMAIN present |->
                          IF present[i] THEN <<Converted(values[Held(SubSeq(present, 1, i))], chunk.leaf)>> ELSE <<>>]
          /\ state' = "resident"
          /\ UNCHANGED <<chunk, stats, offset, dictionary, present, values>>

ParquetNext ==
  ReadFooter \/ AskColumn \/ ReadDictionaryPage \/ ReadDataPage \/ ReadDataPageV2 \/ SkipIndexPage \/ Assemble

-----------------------------------------------------------------------------
\* parquet/reader.rs, decode_chunk: a chunk that is decoded is the column that was
\* written, whatever its pages, their encodings and the runs of their levels; one that
\* is well formed is neither refused nor fails, and one whose pages do not add up to
\* its row group is not taken for a column. What the footer says of it, where it is
\* kept, is true of every row, in the units of the column (chunk_stats).
ChunkIsWritten ==
  /\ state = "resident" =>
       /\ chunk.well_formed
       /\ column = [i \in DOMAIN chunk.written |->
                      IF chunk.written[i] = <<>> THEN <<>> ELSE <<Converted(chunk.written[i][1], chunk.leaf)>>]
       /\ \A i \in DOMAIN column : column[i] # <<>> =>
            /\ stats[1].min # <<>> => ~Before(column[i][1], stats[1].min[1], chunk.leaf.type)
            /\ stats[1].max # <<>> => ~Before(stats[1].max[1], column[i][1], chunk.leaf.type)
       /\ stats[1].null_count # <<>> =>
            stats[1].null_count[1] = Len(SelectSeq(column, LAMBDA row : row = <<>>))
  /\ state \in {"refused", "failed"} => ~chunk.well_formed
==============================================================================
