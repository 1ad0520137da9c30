-------------------------- MODULE ProtoFormatVisitor --------------------------
(***************************************************************************)
(* The compiler of descriptions of instructions that come as protobuf      *)
(* messages (proto_fmt_gen): imports the message types, reads the          *)
(* description, visits the named decoder and the instruction groups that   *)
(* it lists, and emits a decoder for each.                                 *)
(*                                                                         *)
(* Errors are collected; they are looked at before the groups are          *)
(* processed and once more after that.  What the code does with a null     *)
(* pointer or a deleted group is not defined; here the compiler ends.      *)
(***************************************************************************)
EXTENDS ProtoEncodings

CONSTANTS Descriptions,  \* the descriptions that may be compiled
          Messages       \* the messages that are decoded

VARIABLES desc,      \* the description and the message types
          phase,     \* the step of Process() that is under way
          todo,      \* files, attributes or groups that are left
          decls,     \* using_decl_map_, group_decl_map_, decoder_decl_map_
          info,      \* ProtoEncodingInfo, the names listed, the errors
          trees      \* the tree of encodings of each group of the decoder

vars == <<desc, phase, todo, decls, info, trees>>

NoFunction == [x \in {} |-> x]
Put(f, k, v) == [x \in DOMAIN f \cup {k} |-> IF x = k THEN v ELSE f[x]]
Report(i, kinds) == [i EXCEPT !.errors = @ \cup kinds]
Crash(i) == [i EXCEPT !.crashed = TRUE]

NoInfo == [groups |-> NoFunction, types |-> NoFunction, decoder |-> <<>>, listed |-> {}, errors |-> {}, crashed |-> FALSE]

Init == /\ desc \in Descriptions
        /\ phase = "import" /\ todo = <<>> /\ info = NoInfo /\ trees = NoFunction
        /\ decls = [aliases |-> NoFunction, groups |-> NoFunction, decoders |-> NoFunction]

-----------------------------------------------------------------------------
(* Message types, files and declarations.                                  *)

ImportProtos ==
  /\ phase = "import"
  /\ info' = IF desc.imported THEN info ELSE Report(info, {"failed to import"})
  /\ phase' = IF desc.imported THEN "declare" ELSE "failed"
  /\ UNCHANGED <<desc, todo, decls, trees>>

\* The first declaration of a name counts, any further one is an error;
\* of aliases the name that is given one is looked up, not the alias.
Declare(m, ds) == FoldLeft(LAMBDA f, d : IF d.name \in DOMAIN f THEN f ELSE Put(f, d.name, d), m, ds)
Repeats(ds) == \E j, k \in DOMAIN ds : j # k /\ ds[j].name = ds[k].name
AliasRepeats(ds) == \E j, k \in DOMAIN ds : j < k /\ ds[k].of = <<ds[j].name>>

PreProcessDeclarations ==
  LET file == desc.main IN
  /\ phase = "declare"
  /\ decls' = [aliases |-> Declare(NoFunction, file.usings), groups |-> Declare(NoFunction, file.groups),
               decoders |-> Declare(NoFunction, file.decoders)]
  /\ info' = Report(info, IF Repeats(file.groups) \/ Repeats(file.decoders) \/ AliasRepeats(file.usings)
                          THEN {"multiple definitions"} ELSE {})
  /\ phase' = "files" /\ todo' = file.includes \o desc.sources
  /\ UNCHANGED <<desc, trees>>

\* An include file, or a further source.  It is parsed; the declarations
\* are then taken from a second parse, which starts at its end: there are
\* none.  Hence an include file never gets to include another.
ParseIncludeFile ==
  /\ phase = "files" /\ todo # <<>>
  /\ info' = Report(info, CASE Head(todo) = "missing" -> {"failed to open"}
                            [] Head(todo) = "malformed" -> {"syntax"}
                            [] OTHER -> {})
  /\ todo' = Tail(todo)
  /\ UNCHANGED <<desc, phase, decls, trees>>

\* An alias may stand for the first part of a name.
Expand(name) == IF Head(name) \in DOMAIN decls.aliases THEN decls.aliases[Head(name)].of \o Tail(name) ELSE name

\* The field at a path below a message, and the members of one-ofs on the
\* way; "none" is reported, "crash" is a last name that is not found.
GetField(message, path) ==
  FoldLeft(LAMBDA acc, k :
      LET found == {f \in desc.messages[acc.message].fields : f.name = path[k]}
          next(f) == [acc EXCEPT !.ref = [field |-> f, path |-> path],
                                 !.ancestors = IF f.oneof = NoName THEN @
                                               ELSE Append(@, [field |-> f, path |-> SubSeq(path, 1, k)]),
                                 !.status = IF k < Len(path) /\ f.type # "message" THEN "none" ELSE "ok",
                                 !.message = IF f.type = "message" THEN f.sub ELSE @]
      IN IF acc.status # "ok" THEN acc
         ELSE IF found # {} THEN next(CHOOSE f \in found : TRUE)
         ELSE [acc EXCEPT !.status = IF k = Len(path) THEN "crash" ELSE "none"],
    [status |-> "ok", message |-> message, ref |-> NoName, ancestors |-> <<>>], [k \in DOMAIN path |-> k])

-----------------------------------------------------------------------------
(* Instructions.  acc has the encoding, the types of the setters and what  *)
(* went wrong.                                                             *)

\* Literals with a suffix are scanned but not converted.
VisitConstraintExpression(f, e) ==
  CASE e.kind = "number" ->
         IF e.suffix \/ e.value >= Half64 THEN {} ELSE {[type |-> IF e.value < Half32 THEN "int32" ELSE "int64", value |-> e.value]}
    [] e.kind = "bool" -> {[type |-> "bool", value |-> e.value]}
    [] e.kind = "ident" -> IF f.type # "enum" THEN {}
                           ELSE {[type |-> "int32", value |-> n.number] : n \in {n \in f.values : n.name = e.name}}

VisitFieldConstraint(acc, message, c) ==
  LET found == GetField(message, c.path)
      above == found.ancestors
      self  == c.op = "has" /\ above # <<>> /\ Last(above).field = found.ref.field
      expr  == VisitConstraintExpression(found.ref.field, c.expr)
      add(r) == [acc EXCEPT !.enc = r.enc, !.errors = @ \cup r.errors]
  IN CASE found.status = "crash" -> [acc EXCEPT !.crashed = TRUE]
       [] found.status = "none" -> [acc EXCEPT !.errors = @ \cup {"field not found"}]
       [] found.status = "ok" /\ c.op = "has" ->
            IF above = <<>> THEN [acc EXCEPT !.crashed = TRUE]
            ELSE add(AddConstraint(acc.enc, found.ref, "has", [type |-> "int32", value |-> found.ref.field.place],
                                   IF self THEN Front(above) ELSE above))
       [] OTHER -> IF expr = {} THEN [acc EXCEPT !.errors = @ \cup {"expression"}]
                   ELSE add(AddConstraint(acc.enc, found.ref, c.op, CHOOSE e \in expr : TRUE, above))

\* The type of a setter after a field of another type; {} is an error.  A
\* uint32_t setter takes any type: its test assigns.
Widened(old, new) ==
  CASE old = new -> {old}
    [] old # new /\ old \in {"int32", "int64", "uint32", "uint64"} /\ new = "bool" -> {old}
    [] old = "int32" /\ new \in {"int64", "uint32"} -> {"int64"}
    [] old = "int64" /\ new \in {"uint32", "int32"} -> {"int64"}
    [] old = "uint32" /\ new \notin {"uint32", "bool"} -> {"int64"}
    [] old = "uint64" /\ new \in {"int32", "uint32"} -> {"uint64"}
    [] {old, new} = {"double", "float"} -> {"double"}
    [] old = "bool" /\ new \in {"int32", "uint32", "int64", "uint64"} -> {new}
    [] OTHER -> {}

\* The new map of types, or {}.
CheckSetterType(types, name, f) ==
  LET new == IF f.type = "enum" THEN "int32" ELSE f.type
  IN IF new = "message" THEN {}
     ELSE IF name \notin DOMAIN types THEN {Put(types, name, new)}
     ELSE {Put(types, name, t) : t \in Widened(types[name], new)}

\* A definition of a setter, checked: acc.setter is what it defines, or {}.
Resolved(acc, message, s) ==
  LET found == GetField(message, s.path)
      types == CheckSetterType(acc.types, s.name, found.ref.field)
  IN CASE found.status = "crash" -> [acc EXCEPT !.crashed = TRUE, !.setter = {}]
       [] found.status = "none" -> [acc EXCEPT !.errors = @ \cup {"field not found"}, !.setter = {}]
       [] OTHER -> IF types = {} THEN [acc EXCEPT !.errors = @ \cup {"setter type"}, !.setter = {}]
                   ELSE [acc EXCEPT !.types = CHOOSE t \in types : TRUE,
                                    !.setter = {[name |-> s.name, ref |-> found.ref, above |-> found.ancestors, ifNot |-> s.ifNot]}]

\* A setter of a setter group, unless the group has one of that name.
AddGroupSetter(acc, gname) ==
  CASE acc.setter = {} -> [acc EXCEPT !.stop = TRUE]
    [] acc.setter # {} /\ (\E s \in acc.setters, t \in acc.setter : s.group = gname /\ s.setter.name = t.name) ->
         [acc EXCEPT !.stop = TRUE, !.errors = @ \cup {"duplicate setter"}]
    [] OTHER -> [acc EXCEPT !.setters = @ \cup {[group |-> gname, setter |-> t] : t \in acc.setter}]

\* A setter group ends at its first error.
VisitSetterGroupDef(acc, message, g) ==
  [FoldLeft(LAMBDA a, s : IF a.stop THEN a ELSE AddGroupSetter(Resolved(a, message, s), g.name), acc, g.setters)
     EXCEPT !.stop = FALSE]

ApplySetter(acc, t) ==
  LET r == AddSetter(acc.enc, t.name, t.ref, t.above, t.ifNot)
  IN [acc EXCEPT !.enc = r.enc, !.errors = @ \cup r.errors, !.stop = r.errors # {}]

\* A group's setters are added by name, up to the first error.
VisitSetterRef(acc, ref) ==
  LET group == {s.setter : s \in {s \in acc.setters : s.group = ref}}
      named(n) == CHOOSE t \in group : t.name = n
      order == SelectSeq(NameOrder, LAMBDA n : \E t \in group : t.name = n)
  IN IF group = {} THEN [acc EXCEPT !.errors = @ \cup {"no setter group"}]
     ELSE [FoldLeft(LAMBDA a, n : IF a.stop THEN a ELSE ApplySetter(a, named(n)), acc, order) EXCEPT !.stop = FALSE]

VisitSetterDef(acc, message, s) ==
  LET add(r) == IF r.setter = {} THEN r ELSE [ApplySetter(r, CHOOSE t \in r.setter : TRUE) EXCEPT !.stop = FALSE]
  IN add(Resolved(acc, message, s))

\* A generator's bindings are checked, and its text is made; but the text
\* is parsed as an instruction group, which it is not: no instruction comes
\* of it.  A list of values for a name bound before has nowhere to go.
ProcessInstructionDefGenerator(acc, d) ==
  LET bound(k) == UNION {Range(d.bindings[j].names) : j \in 1..(k - 1)}
      again(k) == \E n \in Range(d.bindings[k].names) : n \in bound(k)
      uneven(b) == \E t \in b.tuples : t # Len(b.names)
      kinds == (IF \E k \in DOMAIN d.bindings : again(k) THEN {"duplicate binding"} ELSE {})
               \cup (IF \E b \in Range(d.bindings) : uneven(b) THEN {"values differ from identifiers"} ELSE {})
               \cup (IF d.uses \subseteq bound(Len(d.bindings) + 1) THEN {} ELSE {"undefined binding"})
  IN [acc EXCEPT !.errors = @ \cup kinds,
                 !.crashed = @ \/ \E k \in DOMAIN d.bindings : again(k) /\ d.bindings[k].tuples = {}]

VisitInstructionDef(acc, message, d) ==
  LET constrained == FoldLeft(LAMBDA a, c : VisitFieldConstraint(a, message, c),
                              [acc EXCEPT !.enc = NewEncoding(d.name)], d.constraints)
      referred == FoldLeft(LAMBDA a, r : VisitSetterRef(a, r), constrained, d.refs)
      close(a) == [a EXCEPT !.encs = Append(@, a.enc), !.crashed = @ \/ SettersCrash(a.enc)]
  IN IF d.generate THEN ProcessInstructionDefGenerator(acc, d)
     ELSE close(FoldLeft(LAMBDA a, s : VisitSetterDef(a, message, s), referred, d.setters))

-----------------------------------------------------------------------------
(* Instruction groups.                                                     *)

NewGroup(message, encs) == [message |-> message, encs |-> encs, deleted |-> FALSE]

VisitInstructionGroupDef(i, g) ==
  LET message == Expand(g.message)
      start == [enc |-> NewEncoding(NoName), encs |-> <<>>, setters |-> {}, setter |-> {}, types |-> i.types,
                errors |-> {}, crashed |-> FALSE, stop |-> FALSE]
      setters == FoldLeft(LAMBDA a, s : VisitSetterGroupDef(a, message, s), start, g.setterGroups)
      add(a) == [Report(i, a.errors) EXCEPT !.groups = Put(@, g.name, NewGroup(message, a.encs)),
                                            !.types = a.types, !.crashed = @ \/ a.crashed]
  IN IF message \notin DOMAIN desc.messages THEN Report(i, {"undefined message type"})
     ELSE add(FoldLeft(LAMBDA a, d : VisitInstructionDef(a, message, d), setters, g.insts))

\* A group that was visited before, or is declared and visited now.
FindGroup(i, gname) ==
  IF gname \in DOMAIN i.groups \/ gname \notin DOMAIN decls.groups THEN i
  ELSE VisitInstructionGroupDef(i, decls.groups[gname])

ProcessSingleGroup(i, gname) ==
  LET add(j) == IF gname \in DOMAIN j.groups
                THEN [j EXCEPT !.listed = @ \cup {gname}, !.decoder = Append(@, gname), !.crashed = @ \/ j.groups[gname].deleted]
                ELSE Report(j, IF gname \in DOMAIN decls.groups THEN {} ELSE {"no such group"})
  IN IF gname \in i.listed THEN Report(i, {"listed twice"}) ELSE add(FindGroup(i, gname))

Delete(i, gnames) == [i EXCEPT !.groups = [g \in DOMAIN @ |-> IF g \in Range(gnames) THEN [@[g] EXCEPT !.deleted = TRUE] ELSE @[g]]]

ShortName(message) == Last(message)

\* One child of a parent group.  A group that was deleted stays in the map;
\* after a child that is not found the loop goes on with deleted ones.
AddChild(acc, child) ==
  LET visited == child \in DOMAIN acc.info.groups
      fail(i, kind, delete) == [acc EXCEPT !.info = Delete(Report(i, {kind}), IF delete THEN acc.children ELSE <<>>), !.stop = TRUE]
      add(i) ==
        CASE child \notin DOMAIN i.groups -> [fail(i, "group not found", TRUE) EXCEPT !.stop = FALSE]
          [] child \in DOMAIN i.groups /\ i.groups[child].deleted -> [acc EXCEPT !.info = Crash(i), !.stop = TRUE]
          [] OTHER -> IF /\ acc.children # <<>>
                         /\ ShortName(i.groups[acc.children[1]].message) # ShortName(i.groups[child].message)
                      THEN fail(i, "message type differs", TRUE)
                      ELSE [acc EXCEPT !.info = i, !.children = Append(@, child)]
  IN CASE acc.stop -> acc
       [] ~acc.stop /\ child \in acc.info.listed -> fail(acc.info, "listed twice", FALSE)
       [] ~acc.stop /\ visited /\ child \in Range(acc.children) -> fail(acc.info, "listed twice", TRUE)
       [] OTHER -> add(FindGroup(acc.info, child))

\* The parent gets copies of the children's encodings, and the children
\* are deleted.  Its message type is looked up by its short name.
ProcessParentGroup(i, gname, children) ==
  LET found == FoldLeft(LAMBDA a, c : AddChild(a, c), [info |-> i, children |-> <<>>, stop |-> FALSE], children)
      j == found.info
      message == Expand(<<ShortName(j.groups[found.children[1]].message)>>)
      encs == FlattenSeq([k \in DOMAIN found.children |-> j.groups[found.children[k]].encs])
  IN CASE gname \in i.listed -> Report(i, {"listed twice"})
       [] gname \notin i.listed /\ found.stop -> j
       [] gname \notin i.listed /\ ~found.stop /\ found.children = <<>> -> Report(j, {"no child groups"})
       [] OTHER -> IF \E c \in Range(found.children) : j.groups[c].deleted THEN Crash(j)
                   ELSE IF message \notin DOMAIN desc.messages \/ gname \in DOMAIN j.groups
                   THEN Delete(Report(j, {"parent group"}), found.children)
                   ELSE [Delete(j, found.children) EXCEPT !.groups = Put(@, gname, NewGroup(message, encs)),
                                                         !.listed = @ \cup {gname}, !.decoder = Append(@, gname)]

-----------------------------------------------------------------------------
(* The decoder.                                                            *)

ProcessTopLevel ==
  LET known == desc.decoder \in DOMAIN decls.decoders
      d == decls.decoders[desc.decoder]
  IN /\ phase = "files" /\ todo = <<>>
     /\ info' = Report(info, IF ~known THEN {"decoder not declared"}
                             ELSE IF Len(d.opcodeEnums) > 1 \/ "" \in Range(d.opcodeEnums) \/ d.namespaces > 1
                             THEN {"decoder attributes"} ELSE {})
     /\ phase' = IF known THEN "attributes" ELSE "failed"
     /\ todo' = IF known THEN d.groups ELSE <<>>
     /\ UNCHANGED <<desc, decls, trees>>

\* One instruction group of the decoder: single, or combined of others.
VisitDecoderAttribute ==
  LET g == Head(todo) IN
  /\ phase = "attributes" /\ todo # <<>> /\ ~info.crashed
  /\ info' = IF g.children = <<>> THEN ProcessSingleGroup(info, g.name) ELSE ProcessParentGroup(info, g.name, g.children)
  /\ todo' = Tail(todo)
  /\ UNCHANGED <<desc, phase, decls, trees>>

EndOfDecoder ==
  /\ phase = "attributes" /\ todo = <<>> /\ ~info.crashed
  /\ info' = Report(info, IF info.listed = {} THEN {"no instruction groups"} ELSE {})
  /\ phase' = IF info'.errors = {} THEN "generate" ELSE "failed"
  /\ todo' = IF info'.errors = {} THEN info.decoder ELSE <<>>
  /\ UNCHANGED <<desc, decls, trees>>

ProcessEncodings ==
  LET encs == info.groups[Head(todo)].encs IN
  /\ phase = "generate" /\ todo # <<>> /\ ~info.crashed
  /\ \E t \in AddSubGroups(SelectSeq(encs, LAMBDA e : ~IllegalEncoding(e))) :
       /\ trees' = Put(trees, Head(todo), t)
       /\ info' = [Report(info, (TreeErrors(t) \ {"crash"})
                                \cup (IF \E e \in Range(encs) : IllegalEncoding(e) THEN {"illegal type"} ELSE {}))
                     EXCEPT !.crashed = "crash" \in TreeErrors(t)]
  /\ todo' = Tail(todo)
  /\ UNCHANGED <<desc, phase, decls>>

GenerateDecoderClass ==
  /\ phase = "generate" /\ todo = <<>> /\ ~info.crashed
  /\ phase' = IF info.errors = {} THEN "done" ELSE "failed"
  /\ UNCHANGED <<desc, todo, decls, info, trees>>

Next == \/ ImportProtos \/ PreProcessDeclarations \/ ParseIncludeFile \/ ProcessTopLevel
        \/ VisitDecoderAttribute \/ EndOfDecoder \/ ProcessEncodings \/ GenerateDecoderClass

Spec == Init /\ [][Next]_vars

-----------------------------------------------------------------------------
(* Properties.                                                             *)

\* The definitions that a group of the decoder gets its instructions from.
Members(gname) ==
  LET listed == CHOOSE g \in Range(decls.decoders[desc.decoder].groups) : g.name = gname
  IN UNION {Range(decls.groups[c].insts) : c \in IF listed.children = <<>> THEN {gname} ELSE Range(listed.children)}

\* A message satisfies an instruction: every one-of above a constrained
\* field is set, and the comparison holds.  Left out is the comparison of
\* a field below exactly one one-of, which the compiler drops.
Meets(m, message, d) ==
  \A c \in Range(d.constraints) :
    LET found == GetField(message, c.path)
        above == SelectSeq(found.ancestors, LAMBDA a : c.op # "has" \/ a.path # c.path)
        value == IF c.expr.kind = "ident" THEN (CHOOSE n \in found.ref.field.values : n.name = c.expr.name).number
                 ELSE c.expr.value
    IN /\ \A a \in Range(above) : a.path \in m.set
       /\ Len(above) # 1 => IF c.op = "has" THEN c.path \in m.set ELSE Compare(c.op, m.value[c.path], value)

Int32 == -Half32 .. Half32 - 1

\* The lookups are of fields, none of which of one-ofs.
FieldsOnly(t) == \A by \in Lookups(t) : by.op # "has"

\* Whether an encoding fixes what a lookup is about: the field, or the
\* member of the one-of.
Fixes(e, by) ==
  \E c \in Range(e.equal) : IF by.op = "has" THEN c.op = "has" /\ OneofOf(c.field) = OneofOf(by.field)
                            ELSE c.op = "==" /\ c.field = by.field

\* What the decoder of a group returns is right: an instruction only for
\* messages that satisfy it; and an instruction for every message that
\* satisfies one which fixes all that the decoder looks up.  This is for
\* instructions that can be satisfied, and for values that fit the int32_t
\* keys of the emitted maps.
DecodesRight(g) ==
  LET message == info.groups[g].message
      fitting == {m \in Messages : \A p \in DOMAIN m.value : m.value[p] \in Int32}
      defs    == {d \in Members(g) : ~d.generate /\ \A c \in Range(d.constraints) : c.expr.value \in Int32}
      fixing  == {e.name : e \in {e \in Range(info.groups[g].encs) : \A by \in Lookups(trees[g]) : Fixes(e, by)}}
  IN \A m \in fitting :
       LET result == EmitDecoders(trees[g], m)
           met    == {d.name : d \in {d \in defs : Meets(m, message, d)}}
           unmet  == {d.name : d \in {d \in defs : \E n \in Messages : Meets(n, message, d)}} \ met
       IN /\ result \notin unmet
          /\ met \cap fixing # {} => result \notin {None, Undefined}

\* A decoder that is C++ and looks up fields, not one-ofs, returns an
\* instruction only for messages that satisfy it, and one for every message
\* that satisfies an instruction which fixes all that is looked up: no
\* constraint is lost on the way down the tree (AddSubGroups(),
\* EmitComplexDecoder() and EmitLeafDecoder()).
DecodesAsConstrained ==
  phase = "done" => \A g \in Range(info.decoder) : Compiles(trees[g]) /\ FieldsOnly(trees[g]) => DecodesRight(g)

\* The same of the decoders that look up a one-of and are C++.  The code
\* breaks it: what is looked up is the value of an identifier, not the case
\* of the one-of (EmitComplexDecoder()).
OneofsDecoded ==
  phase = "done" => \A g \in Range(info.decoder) : Compiles(trees[g]) /\ ~FieldsOnly(trees[g]) => DecodesRight(g)

\* A setter copies its field exactly when every one-of on the way to the
\* field is set: what the encoding requires is not tested again, the rest
\* is (AddSetter(), GenerateSetterCode()).  For the same decoders.
SettersGuarded ==
  phase = "done" =>
    \A g \in {g \in Range(info.decoder) : Compiles(trees[g]) /\ FieldsOnly(trees[g])} : \A m \in Messages :
      LET message == info.groups[g].message
          result  == EmitDecoders(trees[g], m)
      IN \A e \in {e \in Range(info.groups[g].encs) : e.name = result} : \A s \in e.setters :
           (s \in RunSetters(e, m)) = (\A a \in Range(GetField(message, s.path).ancestors) : a.path \in m.set)

\* The guards of every setter test one-ofs of the message that they look in.
\* The code breaks it for one-ofs of an inner message, which it looks for in
\* the outermost one (generate_if_statement in GenerateSetterCode()).
GuardsFindOneofs ==
  phase = "done" => \A g \in Range(info.decoder) : \A e \in Leaves(trees[g]) : \A s \in e.setters : GuardsRead(s)
=============================================================================
