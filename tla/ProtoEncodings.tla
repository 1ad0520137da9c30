--------------------------- MODULE ProtoEncodings ---------------------------
(***************************************************************************)
(* What proto_fmt_gen keeps of an instruction: constraints on the fields   *)
(* of a protobuf message, setters that copy fields to the decoder; the     *)
(* tree of encoding groups made of them; and what the emitted decoder does *)
(* with a message.                                                         *)
(*                                                                         *)
(* A field descriptor says in which message the field is, under which name *)
(* and index, in which one-of and at which place of it, and of which type. *)
(* A message is the values of its fields by path, and the set of the paths *)
(* of those members of one-ofs that are set.                               *)
(*                                                                         *)
(* Of the emitted text is kept which place of the message it reads: a      *)
(* constraint has the identifier that stands in the description where it   *)
(* was made, which is what is printed.  Left out are the parentheses that  *)
(* the text of a comparison lacks, the second dot before a nested one-of,  *)
(* and how enumerators are qualified.  One-ofs of different messages have  *)
(* different names: what is looked for in the wrong message is not there.  *)
(***************************************************************************)
EXTENDS Integers, SequencesExt, FiniteSetsExt

CONSTANTS NoName,
          NameOrder,       \* the names in lexicographic order
          Half32, Half64   \* a 32 (64) bit integer is in -Half .. Half - 1

IntTypes == {"int32", "int64", "uint32", "uint64", "enum"}

\* Results of decoding that are no instruction: kNone, and a lookup outside
\* the emitted table.
None == "kNone"
Undefined == "undefined"

PositionOf(name) == CHOOSE k \in DOMAIN NameOrder : NameOrder[k] = name
OneofOf(f) == <<f.message, f.oneof>>

-----------------------------------------------------------------------------
(* Constraints and setters of an encoding.                                 *)

\* ident is the reference in the constraint's parse context.
Constraint(ref, op, expr) ==
  [field |-> ref.field, path |-> ref.path, op |-> op, type |-> expr.type, value |-> expr.value, ident |-> ref]

\* The presence of a member, made for a constraint on ident.
Has(ref, ident) == [Constraint(ref, "has", [type |-> "int32", value |-> ref.field.place]) EXCEPT !.ident = ident]

\* oneofs is oneof_field_map_; setters is setter_map_.
NewEncoding(name) == [name |-> name, equal |-> <<>>, other |-> <<>>, oneofs |-> {}, setters |-> {}]

\* The member that the encoding requires of the one-of of a field, if any.
Required(enc, f) == {g \in enc.oneofs : OneofOf(g) = OneofOf(f)}

\* An ancestor in a one-of that was required before is taken for a
\* contradiction, also when it is the same member.
Contradicted(enc, ref, ancestors) ==
  \E k \in DOMAIN ancestors :
    Required([enc EXCEPT !.oneofs = @ \cup {ancestors[j].field : j \in 1..(k - 1)}], ancestors[k].field) \ {ref.field} # {}

\* The comparison itself is pushed in the loop over the second and further
\* ancestors: with exactly one, only the presence of that one is kept.
BelowOneof(enc, ref, op, expr, ancestors) ==
  [enc EXCEPT !.equal = Append(@, Has(ancestors[1], ref)),
              !.other = @ \o FlattenSeq([k \in 1..(Len(ancestors) - 1) |->
                                <<Has(ancestors[k + 1], ref), Constraint(ref, op, expr)>>]),
              !.oneofs = @ \cup {a.field : a \in Range(ancestors)}]

AddConstraint(enc, ref, op, expr, ancestors) ==
  LET f == ref.field
      ok(e) == [enc |-> e, errors |-> {}]
      wrong == [enc |-> enc, errors |-> {"contradicts"}]
  IN CASE ancestors # <<>> ->
            IF Contradicted(enc, ref, ancestors) THEN wrong ELSE ok(BelowOneof(enc, ref, op, expr, ancestors))
       [] ancestors = <<>> /\ op = "==" /\ f.type \in IntTypes ->
            ok([enc EXCEPT !.equal = Append(@, Constraint(ref, op, expr))])
       [] ancestors = <<>> /\ op = "has" ->
            IF Required(enc, f) \ {f} # {} THEN wrong
            ELSE IF Required(enc, f) = {f} THEN ok(enc)
            ELSE ok([enc EXCEPT !.oneofs = @ \cup {f}, !.equal = Append(@, Has(ref, ref))])
       [] OTHER -> ok([enc EXCEPT !.other = Append(@, Constraint(ref, op, expr))])

\* Mutant: only the outermost one-of is tested.
AddHasConstraintOnce(enc, ancestors) ==
  LET open == SelectSeq(ancestors, LAMBDA a : Required(enc, a.field) = {})
  IN SubSeq(open, 1, Min({1, Len(open)}))

\* The chain of presence constraints that guards a setter: the one-ofs
\* above its field that the encoding does not require already.
AddHasConstraints(enc, ancestors) == SelectSeq(ancestors, LAMBDA a : Required(enc, a.field) = {})

AddSetter(enc, name, ref, ancestors, ifNot) ==
  LET wrong(kind) == [enc |-> enc, errors |-> {kind}]
  IN IF \E s \in enc.setters : s.name = name THEN wrong("setter already defined")
     ELSE IF \E a \in Range(ancestors) : Required(enc, a.field) \ {a.field} # {} THEN wrong("setter contradicts")
     ELSE [enc |-> [enc EXCEPT !.setters = @ \cup
                      {[name |-> name, path |-> ref.path, ifNot |-> ifNot, guards |-> AddHasConstraints(enc, ancestors)]}],
           errors |-> {}]

\* The presence constraints made for setters have no parse context, which
\* the code for a guarded setter with a default dereferences.
SettersCrash(enc) == \E s \in enc.setters : s.ifNot /\ s.guards # <<>>

-----------------------------------------------------------------------------
(* The values that satisfy a constraint, as a union of ranges.             *)

Lowest(type) == IF type = "bool" THEN 0 ELSE IF type = "int32" THEN -Half32 ELSE -Half64
Highest(type) == IF type = "bool" THEN 1 ELSE IF type = "int32" THEN Half32 - 1 ELSE Half64 - 1

SubRange(lo, loIn, hi, hiIn) == [min |-> lo, minIn |-> loIn, max |-> hi, maxIn |-> hiIn]

ValueSet(c) ==
  LET v == c.value
      below(in) == SubRange(Lowest(c.type), TRUE, v, in)
      above(in) == SubRange(v, in, Highest(c.type), TRUE)
  IN [field |-> c.field, type |-> c.type,
      ranges |-> CASE c.op \in {"==", "has"} -> {SubRange(v, TRUE, v, TRUE)}
                   [] c.op = "!=" -> {below(FALSE), above(FALSE)}
                   [] c.op = "<"  -> {below(FALSE)}
                   [] c.op = "<=" -> {below(TRUE)}
                   [] c.op = ">"  -> {above(FALSE)}
                   [] c.op = ">=" -> {above(TRUE)}]

\* Of two ranges that share one point, the lower end of the first decides
\* whether it counts.
IntersectSubrange(l, r) ==
  LET both == SubRange(Max({l.min, r.min}), (l.min < r.min \/ l.minIn) /\ (r.min < l.min \/ r.minIn),
                       Min({l.max, r.max}), (l.max > r.max \/ l.maxIn) /\ (r.max > l.max \/ r.maxIn))
  IN IF l.min > r.max \/ l.max < r.min THEN {}
     ELSE IF both.min = both.max /\ ~(both.maxIn /\ l.minIn) THEN {}
     ELSE {both}

IntersectSubranges(ls, rs) == UNION {IntersectSubrange(l, r) : l \in ls, r \in rs}

\* Sets of different types cannot be intersected, which counts as overlap;
\* sets of different fields do not overlap.
DoConstraintsOverlap(l, r) ==
  LET decided == {k \in 1..Min({Len(l), Len(r)}) :
                    l[k].field # r[k].field \/ l[k].type # r[k].type \/ IntersectSubranges(l[k].ranges, r[k].ranges) = {}}
      k == Min(decided)
  IN IF decided = {} THEN Len(l) = Len(r) ELSE l[k].field = r[k].field /\ l[k].type # r[k].type

-----------------------------------------------------------------------------
(* Encoding groups.  A group is the sequence of its encodings, of which    *)
(* each equality constraint makes one entry of the map of fields.          *)

All(enc) == enc.equal \o enc.other

FullNameBefore(f, g) ==
  \/ PositionOf(f.message) < PositionOf(g.message)
  \/ f.message = g.message /\ PositionOf(f.name) < PositionOf(g.name)

SortedValueSets(enc) ==
  LET sorted == SortSeq(All(enc), LAMBDA c, d : FullNameBefore(c.field, d.field))
  IN [k \in DOMAIN sorted |-> ValueSet(sorted[k])]

\* A second constraint on a field dereferences a null value set.
CheckEncodings(encs) ==
  LET sets == [k \in DOMAIN encs |-> SortedValueSets(encs[k])]
      twice(vs) == \E k \in DOMAIN vs : k > 1 /\ vs[k - 1].field = vs[k].field
      ambiguous == \E j, k \in DOMAIN encs : j < k /\ DoConstraintsOverlap(sets[j], sets[k])
  IN CASE Len(encs) <= 1 -> {}
       [] Len(encs) > 1 /\ (\E k \in DOMAIN encs : All(encs[k]) = <<>>) -> {"ambiguity"}
       [] OTHER -> IF \E k \in DOMAIN encs : twice(sets[k]) THEN {"crash"}
                   ELSE IF ambiguous THEN {"ambiguity"} ELSE {}

IllegalEncoding(enc) == \E k \in DOMAIN enc.equal : enc.equal[k].op = "==" /\ enc.equal[k].type \notin {"int32", "int64"}

\* field_map_ has the short name of the field, or of the one-of, as its key.
KeyOf(c) == IF c.op = "has" THEN c.field.oneof ELSE c.field.name
MapValue(c) == IF c.op = "has" THEN c.field.index ELSE c.value
Entries(encs, key) ==
  FlattenSeq([k \in DOMAIN encs |->
    LET own == SelectSeq(encs[k].equal, LAMBDA c : KeyOf(c) = key)
    IN [j \in DOMAIN own |-> [enc |-> k, value |-> MapValue(own[j]), first |-> own[j]]]])
UniqueValues(entries) == {e.value : e \in Range(entries)}

\* A field, or one-of, that another kind of constraint is about does not
\* differentiate; of the others the first with the most values does.
Candidates(encs) ==
  LET others == UNION {Range(encs[k].other) : k \in DOMAIN encs}
      blocked(c) == IF c.op = "has" THEN \E o \in others : o.field.oneof # NoName /\ OneofOf(o.field) = OneofOf(c.field)
                    ELSE \E o \in others : o.field.oneof = NoName /\ o.field = c.field
  IN SelectSeq(NameOrder, LAMBDA n : LET es == Entries(encs, n) IN es # <<>> /\ ~blocked(es[1].first))

BestField(encs, keys) ==
  LET count(n) == Cardinality(UniqueValues(Entries(encs, n)))
      best == {n \in Range(keys) : \A m \in Range(keys) : count(m) <= count(n)}
  IN CHOOSE n \in best : \A m \in best : PositionOf(n) <= PositionOf(m)

\* Mutant: the constraint is found by the key of the map of fields.
SelectedByKey(enc, by) ==
  LET at == {k \in DOMAIN enc.equal : KeyOf(enc.equal[k]) = KeyOf(by)}
  IN IF at = {} THEN enc ELSE [enc EXCEPT !.equal = RemoveAt(@, Min(at))]

\* The copy of an encoding for a sub group: without the first constraint
\* on what differentiates.
Selected(enc, by) ==
  LET same(c) == IF by.op = "has" THEN c.op = "has" /\ OneofOf(c.field) = OneofOf(by.field)
                 ELSE c.op = "==" /\ c.field = by.field
      at == {k \in DOMAIN enc.equal : same(enc.equal[k])}
  IN IF at = {} THEN enc ELSE [enc EXCEPT !.equal = RemoveAt(@, Min(at))]

Leaf(encs, errors) == [split |-> FALSE, encs |-> encs, errors |-> errors]

\* All trees that a group may become: the encodings that the field does
\* not select are added to every sub group, in the order of a hash table.
RECURSIVE AddSubGroups(_)
AddSubGroups(encs) ==
  LET keys    == Candidates(encs)
      key     == BestField(encs, keys)
      entries == Entries(encs, key)
      by      == entries[1].first
      values  == UniqueValues(entries)
      rest    == DOMAIN encs \ {e.enc : e \in Range(entries)}
      orders  == {s \in [1..Cardinality(rest) -> rest] : IsInjective(s)}
      group(v, order) ==
        LET own == SelectSeq(entries, LAMBDA e : e.value = v)
        IN [k \in DOMAIN own |-> Selected(encs[own[k].enc], by)] \o [k \in DOMAIN order |-> encs[order[k]]]
      kids(order) == LET trees == [v \in values |-> AddSubGroups(group(v, order))]
                     IN {t \in [values -> UNION {trees[v] : v \in values}] : \A v \in values : t[v] \in trees[v]}
  IN IF Len(encs) <= 1 THEN {Leaf(encs, {})}
     ELSE IF keys = <<>> \/ Cardinality(values) = 1 THEN {Leaf(encs, CheckEncodings(encs))}
     ELSE {[split |-> TRUE, by |-> by, kids |-> t] : t \in UNION {kids(order) : order \in orders}}

RECURSIVE TreeErrors(_)
TreeErrors(t) == IF t.split THEN UNION {TreeErrors(t.kids[v]) : v \in DOMAIN t.kids} ELSE t.errors

-----------------------------------------------------------------------------
(* The emitted decoder.                                                    *)

Compare(op, x, y) == CASE op = "==" -> x = y [] op = "!=" -> x # y [] op = "<" -> x < y
                       [] op = "<=" -> x <= y [] op = ">" -> x > y [] op = ">=" -> x >= y

Holds(m, c) == IF c.op = "has" THEN c.path \in m.set ELSE Compare(c.op, m.value[c.path], c.value)

\* The chain of if statements.
EmitLeafDecoder(encs, m) ==
  LET hit == {k \in DOMAIN encs : \A j \in DOMAIN All(encs[k]) : Holds(m, All(encs[k])[j])}
  IN IF hit = {} THEN None ELSE encs[Min(hit)].name

\* The keys of the map are of type int32_t.
Truncated(v) == ((v + Half32) % (2 * Half32)) - Half32

\* The value that is looked up is that of the first constraint's identifier,
\* also when the entries are the members of a one-of.
RECURSIVE EmitDecoders(_, _)
EmitDecoders(t, m) ==
  LET values == DOMAIN t.kids
      v      == m.value[t.by.ident.path]
      dense  == 4 * Cardinality(values) >= 3 * (Max(values) - Min(values))
      found  == {w \in values : Truncated(w) = Truncated(v)}
  IN IF ~t.split THEN EmitLeafDecoder(t.encs, m)
     ELSE IF dense THEN IF v \in values THEN EmitDecoders(t.kids[v], m)
                        ELSE IF v \in Min(values)..Max(values) THEN None ELSE Undefined
     ELSE IF found = {} THEN None ELSE EmitDecoders(t.kids[Min(found)], m)

\* The setters that run: those whose guards hold, each looked for in the
\* outermost message.
RunSetters(enc, m) == {s \in enc.setters : \A k \in DOMAIN s.guards : <<s.guards[k].field.name>> \in m.set}

\* Whether a condition finds its one-of: it looks in the message that the
\* identifier is in.
ConditionReads(c) == c.op = "has" => Front(c.ident.path) = Front(c.path)

\* Whether the guards of a setter find theirs, which may be further in.
GuardsRead(s) == \A k \in DOMAIN s.guards : Len(s.guards[k].path) = 1

RECURSIVE Lookups(_), Leaves(_)
Lookups(t) == IF t.split THEN {t.by} \cup UNION {Lookups(t.kids[v]) : v \in DOMAIN t.kids} ELSE {}
Leaves(t) == IF t.split THEN UNION {Leaves(t.kids[v]) : v \in DOMAIN t.kids} ELSE Range(t.encs)

\* The emitted text is C++: what it names is there, and no message is used
\* as an index.
Compiles(t) ==
  /\ \A by \in Lookups(t) : by.ident.field.type # "message"
  /\ \A enc \in Leaves(t) : /\ \A c \in Range(All(enc)) : ConditionReads(c)
                            /\ \A s \in enc.setters : GuardsRead(s)
=============================================================================
