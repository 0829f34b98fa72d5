------------------------------ MODULE Encodings ------------------------------
(***************************************************************************)
(* storage/encoding.rs: the four encodings of a column, their decoders,    *)
(* and the predicates answered on the encoded form.  A column is built row *)
(* by row and sealed into one form, as RowGroup::new does; which form pays *)
(* depends on byte sizes, so here any form that applies may be picked.     *)
(*                                                                         *)
(* Integers are W bits wide (64 in the code), in two's complement, and     *)
(* packed into words of W bits.                                            *)
(***************************************************************************)
EXTENDS SqlValues, SequencesExt, FiniteSetsExt

CONSTANTS
  W,         \* bits of an integer and of a word
  BLOCK,     \* values per frame-of-reference block
  RunShare,  \* rows per run below which runs do not pay: 4 in the code
  Type,      \* the column types considered: "integer", "text", "float"
  Cells,     \* Cells[t]: what a row of a column of type t may hold
  Literals,  \* the literals compared with: [own, value]
  MaxRows,   \* bound: rows in a column
  AllNull    \* whether a text column of nothing but NULLs is sealed

ASSUME EncodingsAssumption ==
  /\ W \in Nat \ {0}
  /\ BLOCK \in Nat \ {0}
  /\ RunShare \in Nat
  /\ Type \subseteq {"integer", "text", "float"}
  /\ Cells \in [Type -> SUBSET Datum]
  /\ \A lit \in Literals : lit.own \in BOOLEAN /\ lit.value \in Number \cup {NULL}
  /\ \A v \in Number : -(2^(W - 1)) <= v /\ v < 2^(W - 1)
  /\ MaxRows \in Nat
  /\ AllNull \in BOOLEAN

VARIABLES
  type,
  column,   \* the rows appended so far
  encoded   \* Unsealed, Plain or the encoded form

encodingVars == <<type, column, encoded>>

Unsealed == [form |-> "unsealed"]
Plain == [form |-> "plain"]
Dictionary(codes, values) == [form |-> "dictionary", codes |-> codes, values |-> values]
RunLength(values, ends) == [form |-> "run-length", values |-> values, ends |-> ends]
BitPacked(block, packed, len) ==
  [form |-> "bit-packed", block |-> block, packed |-> packed, len |-> len]
FrameOfReference(blocks, packed, len) ==
  [form |-> "frame-of-reference", blocks |-> blocks, packed |-> packed, len |-> len]

Sealed == encoded.form # "unsealed"
Valid == {i \in DOMAIN column : column[i] # NULL}

\* i64 arithmetic wraps.
Wrap(n) == ((n + 2^(W - 1)) % 2^W) - 2^(W - 1)
-----------------------------------------------------------------------------
\* The bits 0..span takes.
width_for(span) == CHOOSE w \in 0..W : span < 2^w /\ \A v \in 0..w - 1 : 2^v <= span

\* Mutant of mask: one bit short.
mask_short(bits) == 2^bits \div 2

mask(bits) == 2^bits - 1

NewWriter == [words |-> <<>>, bits |-> 0]

\* Mutant of put: what straddles into the next word is lost.
put_truncated(writer, value, width) ==
  LET word == (writer.bits \div W) + 1
      words == [i \in 1..Max({Len(writer.words), word + 1}) |->
                  IF i \in DOMAIN writer.words THEN writer.words[i] ELSE 0]
  IN  IF width = 0 THEN writer
      ELSE [words |-> [words EXCEPT ![word] = @ + ((value * 2^(writer.bits % W)) % 2^W)],
            bits |-> writer.bits + width]

\* BitWriter::put, least significant bit first, straddling words freely.  The
\* bits or-ed into are still zero.
put(writer, value, width) ==
  LET word == (writer.bits \div W) + 1
      offset == writer.bits % W
      shifted == (value % 2^width) * 2^offset
      words == [i \in 1..Max({Len(writer.words), word + 1}) |->
                  IF i \in DOMAIN writer.words THEN writer.words[i] ELSE 0]
  IN  IF width = 0 THEN writer
      ELSE [words |-> [words EXCEPT ![word] = @ + (shifted % 2^W),
                                    ![word + 1] = @ + (shifted \div 2^W)],
            bits |-> writer.bits + width]

\* BitWriter::finish drops the spare word; nothing was written at width zero.
finish(writer) == SubSeq(writer.words, 1, (writer.bits + W - 1) \div W)

\* BitReader::get: a word beyond the last reads as zero.
get(words, at, width) ==
  LET word(i) == IF i \in DOMAIN words THEN words[i] ELSE 0
      first == (at \div W) + 1
      offset == at % W
      low == word(first) \div 2^offset
      high == (word(first + 1) * 2^(W - offset)) % 2^W
  IN  IF offset + width > W THEN (low + high) % 2^width ELSE low % 2^width
-----------------------------------------------------------------------------
\* A NULL's slot in an integer column holds a zero.
integers(cells) == [i \in DOMAIN cells |-> IF cells[i] = NULL THEN 0 ELSE cells[i]]

\* One block: its header, and its values relative to the smallest of them.
Header(values, bit_offset) ==
  [reference |-> Min(ToSet(values)),
   bit_width |-> width_for(Max(ToSet(values)) - Min(ToSet(values))),
   bit_offset |-> bit_offset]

\* Wider than the type it replaces is not compression.
Packs(values) == Max(ToSet(values)) - Min(ToSet(values)) < 2^(W - 1)

pack(writer, block, values) ==
  FoldLeft(LAMBDA w, v : put(w, v - block.reference, block.bit_width), writer, values)

bit_packed(cells) ==
  LET values == integers(cells)
      block == Header(values, 0)
  IN  IF Packs(values)
      THEN {BitPacked(block, finish(pack(NewWriter, block, values)), Len(values))}
      ELSE {}

Chunks(values) ==
  [b \in 1..(Len(values) + BLOCK - 1) \div BLOCK |->
     SubSeq(values, (b - 1) * BLOCK + 1, Min({b * BLOCK, Len(values)}))]

append_block(state, chunk) ==
  LET block == Header(chunk, state.writer.bits)
  IN  [blocks |-> Append(state.blocks, block), writer |-> pack(state.writer, block, chunk)]

\* One block would be bit-packing with extra bookkeeping.
frame_of_reference(cells) ==
  LET chunks == Chunks(integers(cells))
      state == FoldLeft(append_block, [blocks |-> <<>>, writer |-> NewWriter], chunks)
  IN  IF Len(cells) > BLOCK /\ \A b \in DOMAIN chunks : Packs(chunks[b])
      THEN {FrameOfReference(state.blocks, finish(state.writer), Len(cells))}
      ELSE {}

\* A sorted dictionary, if few enough rows are distinct; a NULL's code is zero.
dictionary(cells) ==
  LET distinct == ToSet(cells) \ {NULL}
      values == SetToSortSeq(distinct, <)
      code(v) == IF v = NULL THEN 0 ELSE Cardinality({u \in distinct : u < v})
  IN  IF Cardinality(distinct) * 2 <= Len(cells)
      THEN {Dictionary([i \in DOMAIN cells |-> code(cells[i])], values)}
      ELSE {}

\* A run of NULLs is a run; a NaN equals nothing and is a run of its own.
StartsRun(cells, i) ==
  \/ i = 1
  \/ ~ \/ cells[i] = NULL /\ cells[i - 1] = NULL
       \/ Compare(cells[i - 1], cells[i]) = "equal"

run_length(cells) ==
  LET starts == SetToSortSeq({i \in DOMAIN cells : StartsRun(cells, i)}, <)
      n == Len(starts)
  IN  IF n * RunShare <= Len(cells)
      THEN {RunLength([k \in 1..n |-> cells[starts[k]]],
                      [k \in 1..n |-> IF k = n THEN Len(cells) ELSE starts[k + 1] - 1])}
      ELSE {}

\* The encodings encode() weighs for a column.
candidates(cells) ==
  run_length(cells)
  \cup (IF type = "text" THEN dictionary(cells) ELSE {})
  \cup (IF type = "integer" THEN bit_packed(cells) \cup frame_of_reference(cells) ELSE {})

EncodingInit ==
  /\ type \in Type
  /\ column = <<>>
  /\ encoded = Unsealed

append(cell) ==
  /\ ~ Sealed
  /\ Len(column) < MaxRows
  /\ column' = Append(column, cell)
  /\ UNCHANGED <<type, encoded>>

\* RowGroup::new.
encode ==
  /\ ~ Sealed
  /\ type = "text" /\ column # <<>> => AllNull \/ Valid # {}
  /\ encoded' \in {Plain} \cup (IF column = <<>> THEN {} ELSE candidates(column))
  /\ UNCHANGED <<type, column>>

EncodingNext == encode \/ \E cell \in Cells[type] : append(cell)
-----------------------------------------------------------------------------
\* The run a row is in, and the block.
run_of(e, i) == Min({k \in DOMAIN e.ends : i <= e.ends[k]})
block_of(i) == ((i - 1) \div BLOCK) + 1

\* The value a block gives its n-th row, counted from zero.
unpack(e, block, n) ==
  Wrap(block.reference + get(e.packed, block.bit_offset + n * block.bit_width, block.bit_width))

Panic == "index out of bounds"

\* decode: the value in row i's slot, before validity masks it.
slot(e, i) ==
  CASE e.form = "dictionary" ->
         IF e.codes[i] < Len(e.values) THEN e.values[e.codes[i] + 1] ELSE Panic
    [] e.form = "run-length" -> e.values[run_of(e, i)]
    [] e.form = "bit-packed" -> unpack(e, e.block, i - 1)
    [] e.form = "frame-of-reference" ->
         unpack(e, e.blocks[block_of(i)], (i - 1) % BLOCK)
    [] OTHER -> column[i]

len(e) ==
  CASE e.form = "dictionary" -> Len(e.codes)
    [] e.form = "run-length" -> e.ends[Len(e.ends)]
    [] e.form \in {"bit-packed", "frame-of-reference"} -> e.len
    [] OTHER -> Len(column)

\* What a block's range says of a comparison before it is unpacked.
block_verdict(low, high, target, op) ==
  CASE op = "=" -> IF target < low \/ target > high THEN "none"
                   ELSE IF low = high THEN "all" ELSE "some"
    [] op = "<" -> IF high < target THEN "all" ELSE IF low >= target THEN "none" ELSE "some"
    [] op = "<=" -> IF high <= target THEN "all" ELSE IF low > target THEN "none" ELSE "some"
    [] op = ">" -> IF low > target THEN "all" ELSE IF high <= target THEN "none" ELSE "some"
    [] op = ">=" -> IF low >= target THEN "all" ELSE IF high < target THEN "none" ELSE "some"
    [] OTHER -> "some"

BlockVerdict(block, target, op) ==
  block_verdict(block.reference, Wrap(block.reference + mask(block.bit_width)), target, op)

Passes(op, l, r) == CompareOp(op, l, r) = "true"

\* can_match: whether any row could satisfy the comparison.
can_match(e, op, lit) ==
  CASE lit.value = NULL -> TRUE
    [] e.form = "dictionary" ->
         ~ lit.own \/ \E i \in DOMAIN e.values : Passes(op, e.values[i], lit.value)
    [] e.form = "run-length" -> \E k \in DOMAIN e.values : Passes(op, e.values[k], lit.value)
    [] e.form = "frame-of-reference" ->
         ~ lit.own \/ \E b \in DOMAIN e.blocks :
                        BlockVerdict(e.blocks[b], lit.value, op) # "none"
    [] OTHER -> TRUE

\* evaluate: the rows on which it is TRUE, where the form can answer.
Answers(e, lit) ==
  /\ lit.value # NULL
  /\ e.form = "run-length" \/ (lit.own /\ e.form # "plain")

evaluate_values(e, op, lit, i) ==
  LET unpacked == Passes(op, slot(e, i), lit.value)
      verdict == BlockVerdict(e.blocks[block_of(i)], lit.value, op)
  IN  CASE e.form = "frame-of-reference" ->
             verdict = "all" \/ (verdict = "some" /\ unpacked)
        [] e.form = "dictionary" -> e.codes[i] < Len(e.values) /\ unpacked
        [] OTHER -> unpacked

\* Mutant of evaluate: the validity bitmap is not applied.
evaluate_unmasked(e, op, lit) ==
  {i \in DOMAIN column : evaluate_values(e, op, lit, i)}

evaluate(e, op, lit) ==
  {i \in DOMAIN column : evaluate_values(e, op, lit, i)} \cap Valid
-----------------------------------------------------------------------------
Block == [reference : Int, bit_width : 0..W - 1, bit_offset : Nat]
Packed == Seq(0..2^W - 1)

Encoded ==
  [form : {"unsealed", "plain"}]
  \cup [form : {"dictionary"}, codes : Seq(Nat), values : Seq(Number)]
  \cup [form : {"run-length"}, values : Seq(Datum), ends : Seq(Nat)]
  \cup [form : {"bit-packed"}, block : Block, packed : Packed, len : Nat]
  \cup [form : {"frame-of-reference"}, blocks : Seq(Block), packed : Packed, len : Nat]

\* Every packed word fits a word, every block's width the type.
EncodingTypeOK ==
  /\ type \in Type
  /\ column \in Seq(Datum)
  /\ encoded \in Encoded

(***************************************************************************)
(* Decoding gives back as many rows as were encoded, and under the         *)
(* validity bitmap, which is kept beside the form, the same values.        *)
(***************************************************************************)
DecodeRestores ==
  /\ EncodingTypeOK
  /\ Sealed => /\ len(encoded) = Len(column)
               /\ \A i \in Valid : slot(encoded, i) = column[i]

(***************************************************************************)
(* can_match: FALSE means no row can match.  A scan skips the row group on *)
(* it.                                                                     *)
(***************************************************************************)
CanMatchKeepsEveryMatch ==
  Sealed => \A op \in ComparisonOps, lit \in Literals :
    (\E i \in DOMAIN column : Passes(op, column[i], lit.value))
      => can_match(encoded, op, lit)

(***************************************************************************)
(* The predicate evaluated on the encoded form, when the form can answer,  *)
(* is TRUE of exactly the rows a comparison of the plain values is TRUE    *)
(* of: never of a NULL, whatever stands in its slot.                       *)
(***************************************************************************)
EvaluateAgrees ==
  Sealed => \A op \in ComparisonOps, lit \in Literals :
    Answers(encoded, lit) =>
      evaluate(encoded, op, lit) = {i \in DOMAIN column : Passes(op, column[i], lit.value)}

==============================================================================
