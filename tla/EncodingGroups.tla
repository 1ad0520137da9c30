---------------------------- MODULE EncodingGroups ----------------------------
(***************************************************************************)
(* How the encodings of an instruction group are broken into a tree of     *)
(* encoding groups by the bits they share and the bits that tell them      *)
(* apart, and what the decoder generated from that tree returns.           *)
(***************************************************************************)
EXTENDS BinFormats, TLC

CONSTANT NoOpcode      \* OpcodeEnum::kNone

Compare(op, a, b) ==
  CASE op = "eq" -> a = b
    [] op = "ne" -> a # b
    [] op = "lt" -> a < b
    [] op = "le" -> a <= b
    [] op = "gt" -> a > b
    [] op = "ge" -> a >= b

-----------------------------------------------------------------------------
(* Constraints and encodings.  A side of a constraint is a field or an     *)
(* overlay of the format; rhs is NoSide when it is compared with a value.  *)

NoSide == [field |-> FALSE, item |-> NoName]

Sides(fmt, name) ==
  {[field |-> TRUE, item |-> f] : f \in FieldNamed(fmt, name)} \cup
  {[field |-> FALSE, item |-> o] : o \in IF FieldNamed(fmt, name) = {}
                                           THEN OverlayNamed(fmt, name) ELSE {}}

SideMask(s)     == IF s.field THEN s.item.low .. s.item.high ELSE OverlayMask(s.item)
FieldExtraction(f, w) == Shr(w, f.low) \cap Low(f.width)
OverlayExtraction(ov, w) == GetValue(ov, w)
SideValue(s, w) == IF s.field THEN FieldExtraction(s.item, w) ELSE OverlayExtraction(s.item, w)
SideName(s)     == s.item.name

\* Values are given as integers; a signed item takes eq and ne only.
InRange(item, op, value) ==
  IF ~item.signed THEN value \in 0 .. 2^item.width - 1
  ELSE op \in {"eq", "ne"} /\ value \in -(2^(item.width - 1)) .. 2^(item.width - 1) - 1

\* The constraint that a declaration stands for: a set of at most one.
CreateConstraint(fmt, cd) ==
  {[op |-> cd.op, lhs |-> l, rhs |-> NoSide, value |-> cd.value % 2^l.item.width]
     : l \in {s \in Sides(fmt, cd.lhs) : cd.rhs = NoName /\ InRange(s.item, cd.op, cd.value)}}
  \cup {[op |-> cd.op, lhs |-> l, rhs |-> r, value |-> 0]
     : l \in Sides(fmt, cd.lhs), r \in IF cd.rhs = NoName THEN {} ELSE Sides(fmt, cd.rhs)}

\* A comparison of two sides, or of one with a value, as Value gives them.
Compared(c, Value(_)) ==
  Compare(c.op, Num(Value(c.lhs)), IF c.rhs = NoSide THEN c.value ELSE Num(Value(c.rhs)))

\* What the description says: each side is its own bits of the word.
Holds(c, w) == Compared(c, LAMBDA s : SideValue(s, w))

IsEqual(c) == c.op = "eq" /\ c.rhs = NoSide
Extracted(c) == ~c.lhs.field /\ MustBeExtracted(c.lhs.item)

NewEncoding(name, id, fmt) ==
  [name |-> name, id |-> id, format |-> fmt, equal |-> <<>>, extracted |-> <<>>, other |-> <<>>,
   mask |-> {}, value |-> {}, specializations |-> <<>>]

BitsOf(c) == IF c.lhs.field THEN Shl(Ones(c.value), c.lhs.item.low)
             ELSE GetBitField(c.lhs.item, Ones(c.value))

\* Equality with a value is a constraint on bits of the word, which it adds to
\* the mask and the value of the encoding, unless the overlay has constant
\* bits; everything else is tested by itself.
AddConstraint(enc, c) ==
  CASE IsEqual(c) /\ Extracted(c) -> [enc EXCEPT !.extracted = Append(@, c)]
    [] IsEqual(c) /\ ~Extracted(c) ->
         [enc EXCEPT !.equal = Append(@, c), !.mask = @ \cup SideMask(c.lhs),
                     !.value = @ \cup (SideMask(c.lhs) \cap BitsOf(c))]
    [] ~IsEqual(c) -> [enc EXCEPT !.other = Append(@, c)]

Listed(enc) == enc.equal \o enc.extracted \o enc.other
Constraints(enc) == Range(Listed(enc))

-----------------------------------------------------------------------------
(* The tree.                                                               *)

NewGroup(ignore) ==
  [encs |-> <<>>, mask |-> {}, varying |-> {}, constant |-> {}, last |-> {},
   ignore |-> ignore, disc |-> {}, simple |-> FALSE, subs |-> <<>>]

AddEncoding(g, enc) ==
  LET v       == enc.value
      first   == g.encs = <<>>
      mask    == ((IF first THEN enc.mask ELSE g.mask) \cap enc.mask) \ g.ignore
      varying == g.varying \cup SymDiff(v, IF first THEN v ELSE g.last)
  IN [g EXCEPT !.encs = Append(@, enc), !.mask = mask, !.varying = varying,
               !.constant = (mask \ varying) \ g.ignore, !.last = v]

CanAddEncoding(g, enc) == g.encs = <<>> \/ g.mask \cap enc.mask # {}

\* The bits that the parent has dealt with are taken out, and the encodings
\* put in the order of the bits that still tell them apart.
AdjustMask(g, parentMask) ==
  LET mask     == g.mask \ parentMask
      constant == g.constant \ parentMask
      key(enc) == Num(enc.value \cap ((mask \ constant) \ g.ignore))
  IN [g EXCEPT !.mask = mask, !.constant = constant, !.varying = @ \ parentMask,
               !.encs = SortSeq(@, LAMBDA a, b : key(a) < key(b))]

\* A table of opcodes suffices when nothing else has to be looked at.
IsSimpleDecode(g) ==
  /\ g.subs = <<>>
  /\ \A enc \in Range(g.encs) : enc.other = <<>> /\ enc.extracted = <<>>
                                /\ enc.specializations # <<>>
  /\ g.disc = g.varying

Index(g, w) == ExtractValue(w, GetExtractionRecipe(g.disc))

\* The distinct indices among the encodings of g, in ascending order.
Indices(g) == SetToSortSeq({Index(g, enc.value) : enc \in Range(g.encs)},
                           LAMBDA a, b : Num(a) < Num(b))

MaxVarying(subs) == Max({0} \cup {Cardinality(s.varying) : s \in Range(subs)})

WithDiscriminator(g) ==
  LET d == [g EXCEPT !.disc = g.mask \ g.constant] IN [d EXCEPT !.simple = IsSimpleDecode(d)]

RECURSIVE AddSubGroups(_, _)
AddSubGroups(group, parentMask) ==
  LET fresh(g, i) == AdjustMask(FoldLeft(AddEncoding, NewGroup(g.ignore \cup g.constant \cup g.disc),
                                         SelectSeq(g.encs, LAMBDA enc : Index(g, enc.value) = i)), g.mask)
      settled(s) == s.varying \cup s.constant = s.mask
      thick(t) == IF MaxVarying(t.subs) < 2 THEN [t EXCEPT !.subs = <<>>] ELSE t
      sub(g, s) == IF settled(s) THEN WithDiscriminator(s) ELSE thick(AddSubGroups(s, g.mask))
      split(g, idx) ==
        IF Len(idx) = 1 THEN g
        ELSE [g EXCEPT !.subs = [k \in DOMAIN idx |-> sub(g, fresh(g, idx[k]))],
                       !.simple = @ /\ \A k \in DOMAIN idx : settled(fresh(g, idx[k]))]
      grown(g) == split(g, Indices(g))
  IN grown(WithDiscriminator(AdjustMask(group, parentMask)))

\* The encodings in the order of their masks, each in the first group with
\* which it shares a fixed bit.
ProcessEncodings(encs) ==
  LET sorted == SortSeq(encs, LAMBDA a, b : Num(a.mask) < Num(b.mask))
      insert(groups, enc) ==
        LET fits == {k \in DOMAIN groups : CanAddEncoding(groups[k], enc)}
        IN IF fits = {} THEN Append(groups, AddEncoding(NewGroup({}), enc))
           ELSE [groups EXCEPT ![Min(fits)] = AddEncoding(@, enc)]
      groups == FoldLeft(insert, <<NewGroup({})>>, sorted)
  IN IF encs = <<>> THEN <<>> ELSE [k \in DOMAIN groups |-> AddSubGroups(groups[k], {})]

\* Encodings of a simple leaf that have the same index.
RECURSIVE CheckEncodings(_)
CheckEncodings(g) ==
  \/ /\ g.subs = <<>> /\ g.simple
     /\ \E i, j \in DOMAIN g.encs :
          i < j /\ Index(g, g.encs[i].value) = Index(g, g.encs[j].value)
  \/ \E k \in DOMAIN g.subs : CheckEncodings(g.subs[k])

-----------------------------------------------------------------------------
(* What the generated decoder does with a word.                            *)

CanIgnoreTouched(g, extracted, c) == SideMask(c.lhs) \cap (g.ignore \cup g.disc) # {}

\* An equality whose bits the parents or the index have settled is left out,
\* unless it is one of a field whose name has been extracted before.
CanIgnore(g, extracted, c) ==
  /\ c.lhs.field => SideName(c.lhs) \notin DOMAIN extracted
  /\ SideMask(c.lhs) \subseteq g.ignore \cup g.disc

\* The variables of a sequence of if statements: one for each name, with the
\* bits of the first field or overlay of that name, whatever its format.
EmitExtraction(extracted, s) ==
  IF s = NoSide \/ SideName(s) \in DOMAIN extracted THEN extracted
  ELSE extracted @@ (SideName(s) :> s)

EmitExtractions(extracted, constraints) ==
  FoldLeft(LAMBDA e, c : EmitExtraction(EmitExtraction(e, c.lhs), c.rhs), extracted, constraints)

\* The condition that is emitted for a constraint: it names the variables.
EmitConstraintConditions(extracted, c, w) ==
  Compared(c, LAMBDA s : SideValue(extracted[SideName(s)], w))

\* The first of the specializations that apply, in the order of their names.
\* (Without a condition of its own an encoding that has specializations is
\* followed by a brace too many; no encoding here is.)
Specialized(enc, special) == IF special = <<>> THEN enc.name ELSE Head(special).name

\* One encoding after others, none of which knew the word so far: what is not
\* extracted yet, the condition, the specializations; specs are those that
\* the encodings have when the code is emitted.
EmitEncodingIfStatement(g, w, specs, done, enc) ==
  LET tested == SelectSeq(enc.equal, LAMBDA c : ~CanIgnore(g, done.extracted, c))
                \o enc.extracted \o enc.other
      special == [k \in DOMAIN specs[enc.id] |-> Listed(specs[enc.id][k])]
      vars_ == FoldLeft(EmitExtractions, done.extracted, <<tested>> \o special)
      test(c) == EmitConstraintConditions(vars_, c, w)
  IN [extracted |-> vars_,
      opcode |-> CASE done.opcode # NoOpcode -> done.opcode
                   [] done.opcode = NoOpcode /\ (\A c \in Range(tested) : test(c)) ->
                        Specialized(enc, SelectSeq(specs[enc.id], LAMBDA s : \A c \in Constraints(s) : test(c)))
                   [] OTHER -> NoOpcode]

EmitSimpleDecoder(g, w) ==
  LET hit == SelectSeq(g.encs, LAMBDA enc : Index(g, enc.value) = Index(g, w))
  IN IF hit = <<>> THEN NoOpcode ELSE Head(hit).name

\* A sequence of if statements, or one for each value of the index.
IfSequence(g, encs, w, specs) ==
  FoldLeft(LAMBDA done, enc : EmitEncodingIfStatement(g, w, specs, done, enc),
           [extracted |-> <<>>, opcode |-> NoOpcode], encs).opcode

EmitComplexDecoderBody(g, w, specs) ==
  IF g.disc = {} THEN IfSequence(g, g.encs, w, specs)
  ELSE IfSequence(g, SelectSeq(g.encs, LAMBDA enc : Index(g, enc.value) = Index(g, w)), w, specs)

\* The entry for w in the table of decoders of the subgroups.
EmitInitializers(g, w) ==
  SelectSeq(g.subs, LAMBDA s : Index(g, s.encs[1].value) = Index(g, w))

RECURSIVE EmitDecoders(_, _, _)
EmitDecoders(g, w, specs) ==
  LET entry == EmitInitializers(g, w)
  IN CASE w \cap g.constant # g.encs[1].value \cap g.constant -> NoOpcode
       [] w \cap g.constant = g.encs[1].value \cap g.constant /\ g.subs # <<>> ->
            IF entry = <<>> THEN NoOpcode ELSE EmitDecoders(Head(entry), w, specs)
       [] OTHER -> IF g.simple THEN EmitSimpleDecoder(g, w) ELSE EmitComplexDecoderBody(g, w, specs)

\* InstructionGroupLess compares the bits that are constant in the left group.
GroupLess(a, b) ==
  LET r == GetExtractionRecipe(a.constant)
  IN Num(ExtractValue(a.encs[1].value, r)) < Num(ExtractValue(b.encs[1].value, r))

\* The groups one after the other, until one knows the word.
EmitDecoderCode(groups, w, specs) ==
  LET sorted == SortSeq(groups, GroupLess)
      known  == {k \in DOMAIN sorted : EmitDecoders(sorted[k], w, specs) # NoOpcode}
  IN IF known = {} THEN NoOpcode ELSE EmitDecoders(sorted[Min(known)], w, specs)
=============================================================================
