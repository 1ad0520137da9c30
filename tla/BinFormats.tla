------------------------------ MODULE BinFormats ------------------------------
(***************************************************************************)
(* Formats, fields and overlays of a binary encoding description, and what *)
(* the extractors and inserters generated for them compute.                *)
(*                                                                         *)
(* A word, a mask and a value are the sets of the positions of their one   *)
(* bits.  A format is laid out from its most significant bit downwards.    *)
(***************************************************************************)
EXTENDS Integers, Sequences, FiniteSets, SequencesExt, FiniteSetsExt

CONSTANTS Narrow,     \* widest format held in a uint64_t (64)
          Wide,       \* widest format held in an absl::uint128 (128)
          ByteBits,   \* bits in a byte (8)
          NoName      \* an absent name

ASSUME WidthsAssumption ==
  Narrow \in Nat /\ Wide \in Nat /\ ByteBits \in Nat \ {0} /\ Narrow < Wide

Ones(n)     == {i \in 0 .. 15 : (n \div 2^i) % 2 = 1}
NumberOf    == [w \in SUBSET (0 .. Narrow) |-> MapThenSumSet(LAMBDA i : 2^i, w)]
Num(w)      == NumberOf[w]
Low(k)      == 0 .. k - 1
Shl(w, k)   == {i + k : i \in w}
Shr(w, k)   == {i - k : i \in {j \in w : j >= k}}
Shifted(w, k) == IF k < 0 THEN Shl(w, -k) ELSE Shr(w, k)

-----------------------------------------------------------------------------
(* A declared format: its fields from the left, its overlays by name.      *)

NewFormat(name, width, base, packed) ==
  [name |-> name, width |-> width, base |-> base, packed |-> packed,
   fields |-> <<>>, overlays |-> <<>>, linked |-> FALSE]

FieldNamed(fmt, name) == {f \in Range(fmt.fields) : ~f.ref /\ f.name = name}
OverlayNamed(fmt, name) == {o \in Range(fmt.overlays) : o.name = name}

\* A field of the format; a second one of its name is refused.
AddField(fmt, fd) ==
  IF FieldNamed(fmt, fd.name) # {} THEN fmt
  ELSE [fmt EXCEPT !.fields =
          Append(@, [name |-> fd.name, ref |-> FALSE, format |-> NoName, size |-> 0,
                     signed |-> fd.signed, width |-> fd.width, high |-> -1, low |-> -1])]

\* A field that is another format, perhaps several times.
AddFormatReferenceField(fmt, fd, size, width) ==
  [fmt EXCEPT !.fields =
     Append(@, [name |-> fd.name, ref |-> TRUE, format |-> fd.format, size |-> size,
                signed |-> FALSE, width |-> width, high |-> -1, low |-> -1])]

\* The bits a component of an overlay takes, relative to its field or format.
BitReference(of, high, low) ==
  [const |-> FALSE, of |-> of, high |-> high, low |-> low,
   width |-> high - low + 1, value |-> {}, position |-> -1]

BitConstant(value, width) ==
  [const |-> TRUE, of |-> NoName, high |-> -1, low |-> -1,
   width |-> width, value |-> value, position |-> -1]

LegalRange(r, width) == r[1] \in 0 .. width - 1 /\ r[2] \in 0 .. width - 1 /\ r[1] >= r[2]

\* The ranges of a reference, up to the first that is refused.
AddReferences(of, ranges, width) ==
  LET bad  == {k \in DOMAIN ranges : ~LegalRange(ranges[k], width)}
      good == IF bad = {} THEN ranges ELSE SubSeq(ranges, 1, Min(bad) - 1)
  IN [comps  |-> [k \in DOMAIN good |-> BitReference(of, good[k][1], good[k][2])],
      errors |-> IF bad = {} THEN {} ELSE {"bit range"}]

\* One item of the declaration of an overlay of format fmt.
OverlayPart(fmt, part) ==
  CASE part.kind = "const" ->
         [comps |-> << BitConstant(part.value, part.width) >>, errors |-> {}]
    [] part.kind = "format" -> AddReferences(NoName, part.ranges, fmt.width)
    [] part.kind = "field" ->
         IF FieldNamed(fmt, part.name) = {} THEN [comps |-> <<>>, errors |-> {"no such field"}]
         ELSE LET f == CHOOSE g \in FieldNamed(fmt, part.name) : TRUE
              IN IF part.ranges = <<>>
                   THEN [comps |-> << BitReference(f.name, f.width - 1, 0) >>, errors |-> {}]
                   ELSE AddReferences(f.name, part.ranges, f.width)

SumWidths(s) == FoldLeft(LAMBDA n, c : n + c.width, 0, s)

NewOverlay(fmt, od) ==
  LET parts == [k \in DOMAIN od.parts |-> OverlayPart(fmt, od.parts[k])]
      comps == FlattenSeq([k \in DOMAIN parts |-> parts[k].comps])
  IN [overlay |-> [name |-> od.name, signed |-> od.signed, width |-> od.width,
                   comps |-> comps, computed |-> SumWidths(comps)],
      errors  |-> UNION {parts[k].errors : k \in DOMAIN parts}
                  \cup (IF SumWidths(comps) # od.width THEN {"overlay width"} ELSE {})]

\* Constant bits cannot be compared within the word: the value is extracted.
MustBeExtracted(ov) == \E c \in Range(ov.comps) : c.const

-----------------------------------------------------------------------------
(* Layout.                                                                 *)

FieldWidth(f) == IF f.ref THEN f.width * f.size ELSE f.width

\* Every field right below the ones before it.
LaidOut(fmt) ==
  LET before(k) == FoldLeft(LAMBDA n, f : n + FieldWidth(f), 0, SubSeq(fmt.fields, 1, k - 1))
      high(k)   == fmt.width - before(k) - 1
  IN [k \in DOMAIN fmt.fields |->
        [fmt.fields[k] EXCEPT !.high = high(k), !.low = high(k) - fmt.fields[k].width + 1]]

\* Components are numbered from the left of the overlay, and the bits of a
\* field are those of the word it lies in.
ComputeHighLow(fields, ov) ==
  LET lowOf(c) == IF c.const \/ c.of = NoName THEN 0
                  ELSE (CHOOSE f \in Range(fields) : ~f.ref /\ f.name = c.of).low
      place(k) == LET c == ov.comps[k] IN
                    [c EXCEPT !.position = ov.width - 1 - SumWidths(SubSeq(ov.comps, 1, k - 1)),
                              !.high = @ + lowOf(c), !.low = @ + lowOf(c)]
  IN [ov EXCEPT !.comps = [k \in DOMAIN ov.comps |-> place(k)]]

ComputeAndCheckFormatWidth(fmt) ==
  LET fields == LaidOut(fmt)
      placed == [fmt EXCEPT !.fields = fields, !.linked = TRUE]
      total  == FoldLeft(LAMBDA n, f : n + FieldWidth(f), 0, fields)
  IN IF total # fmt.width THEN [format |-> placed, errors |-> {"format width"}]
     ELSE [format |-> [placed EXCEPT !.overlays =
                         [k \in DOMAIN @ |-> ComputeHighLow(fields, @[k])]],
           errors |-> {}]

Mask(c)       == c.low .. c.high
OverlayMask(ov) == UNION {Mask(c) : c \in {d \in Range(ov.comps) : ~d.const}}

\* The value of the overlay in word w.
GetValue(ov, w) ==
  UNION {IF c.const THEN Shl(c.value, c.position - c.width + 1)
         ELSE Shifted(w \cap Mask(c), c.high - c.position) : c \in Range(ov.comps)}

\* The bits of the word that hold value v of the overlay.
GetBitField(ov, v) ==
  UNION {Shl(Shr(v, c.position - c.width + 1) \cap Low(c.width), c.low)
           : c \in {d \in Range(ov.comps) : ~d.const}}

\* Bits of a compressed index: a step per run of ones of the mask.
GetExtractionRecipe(mask) ==
  LET starts == {lo \in mask : lo - 1 \notin mask}
      step(lo) == LET end   == Min({hi \in mask : hi >= lo /\ hi + 1 \notin mask})
                      total == Cardinality({i \in mask : i < lo})
                  IN [mask |-> total .. total + end - lo, shift |-> lo - total]
  IN {step(lo) : lo \in starts}

ExtractValue(v, recipe) == UNION {Shr(v, s.shift) \cap s.mask : s \in recipe}

-----------------------------------------------------------------------------
(* The generated extractors and inserters.                                 *)

\* The helper for byte arrays, byte by byte from the least significant one.
ByteSpans(low, width) ==
  {<<Max({low, ByteBits * b}), Min({low + width - 1, ByteBits * b + ByteBits - 1})>>
     : b \in low \div ByteBits .. (low + width - 1) \div ByteBits}

ExtractBits(w, high, width) ==
  LET low == high - width + 1
  IN UNION {Shl(Shr(w \cap (s[1] .. s[2]), s[1]), s[1] - low) : s \in ByteSpans(low, width)}

InsertBits(w, high, width, v) ==
  LET low == high - width + 1
  IN UNION {Shl(Shr(v, s[1] - low) \cap Low(s[2] - s[1] + 1), s[1]) : s \in ByteSpans(low, width)}
     \cup (w \ (low .. high))

\* The integer type that a value of this width is returned in.
GetIntTypeBitWidth(width) == Min({n \in {ByteBits * 2^k : k \in 0 .. 4} : n >= width})

\* A signed value is shifted up in its type and, arithmetically, down again.
SignExtension(item, v) ==
  LET type == GetIntTypeBitWidth(item.width)
      up   == Shl(v, type - item.width) \cap Low(type)
  IN IF ~item.signed THEN v
     ELSE Shr(up, type - item.width) \cup {b \in item.width .. type - 1 : type - 1 \in up}

\* The extractor for the word itself.  (The one for a byte array, in formats
\* whose width is no power of two, does not extend the sign.)
GenerateFieldExtractor(fmt, f, w) ==
  SignExtension(f, IF fmt.width <= Wide THEN Shr(w, f.low) \cap Low(f.width)
                                        ELSE ExtractBits(w, f.high, f.width))

GenerateFieldInserterUnshifted(fmt, f, v, w) ==
  (w \ Shl(Low(f.width), f.low)) \cup (v \cap Shl(Low(f.width), f.low))

GenerateFieldInserter(fmt, f, v, w) ==
  LET mask == Shl(Low(f.width), f.low)
  IN CASE fmt.width <= Narrow -> (w \ mask) \cup (Shl(v, f.low) \cap mask)
       [] fmt.width \in Narrow + 1 .. Wide -> (w \ mask) \cup (v \cap mask)
       [] OTHER -> InsertBits(w, f.high, f.width, v)

\* An overlay in a format of more than Narrow bits has no usable extractor.
GenerateOverlayExtractor(fmt, ov, w) == SignExtension(ov, GetValue(ov, w))

GenerateOverlayInserter(fmt, ov, v, w) ==
  FoldLeft(LAMBDA acc, c :
             LET tmp == Shr(v, c.position - c.width + 1) \cap Low(c.width)
             IN IF c.const THEN acc
                ELSE IF fmt.width <= Wide THEN acc \cup Shl(tmp, c.low)
                ELSE InsertBits(acc, c.high, c.width, tmp),
           w, ov.comps)

\* Copy index of a format within the format.
GenerateFormatInserter(fmt, f, index, v, w) ==
  LET low  == f.low - index * f.width
      mask == Shl(Low(f.width), low)
  IN IF fmt.width <= Wide THEN (w \ mask) \cup (Shl(v, low) \cap mask)
     ELSE InsertBits(w, f.high - index * f.width, f.width, v)

GenerateFormatExtractor(fmt, f, index, w) ==
  LET shift == IF f.size > 1 THEN f.low + (index - 1) * f.width ELSE f.low
  IN IF fmt.width <= Wide THEN Shr(w, shift) \cap Low(f.width)
     ELSE ExtractBits(w, f.high - index * f.width, f.width)

\* Bit fields of a packed struct, declared from the last to the first: the
\* compiler lays them out from bit zero upwards.
GeneratePackedStructTypes(fmt) ==
  [k \in DOMAIN fmt.fields |->
     FoldLeft(LAMBDA n, f : n + f.width, 0, SubSeq(fmt.fields, k + 1, Len(fmt.fields)))]

\* Below Narrow bits the extractor takes the word and looks at its bytes; from
\* Narrow bits on it takes a pointer, but up to Narrow bits it looks at the
\* bytes of its argument: at Narrow bits at those of the pointer.
GeneratePackedStructFieldExtractor(fmt, k, w, pointer) ==
  LET read == IF fmt.width = Narrow THEN pointer ELSE w
  IN SignExtension(fmt.fields[k],
                   Shr(read, GeneratePackedStructTypes(fmt)[k]) \cap Low(fmt.fields[k].width))

GeneratePackedStructFieldInserter(fmt, k, v, w) ==
  LET low == GeneratePackedStructTypes(fmt)[k]
  IN (w \ Shl(Low(fmt.fields[k].width), low)) \cup Shl(v \cap Low(fmt.fields[k].width), low)
=============================================================================
