--------------------------- MODULE BinFormatVisitor ---------------------------
(***************************************************************************)
(* The compiler of binary encoding descriptions (bin_format_gen): reads a  *)
(* description and the files it includes, visits the named decoder, the    *)
(* instruction groups and formats that it needs, checks them, and emits a  *)
(* decoder and the extractors and inserters of the formats.                *)
(*                                                                         *)
(* Errors do not stop the visitor: they are collected, and looked at once, *)
(* before the specializations are attached and the code is emitted.        *)
(***************************************************************************)
EXTENDS EncodingGroups

CONSTANTS Descriptions,   \* the descriptions that may be compiled
          NameOrder       \* all names in lexicographic order

VARIABLES desc,      \* the description: its files, the decoder asked for
          phase,     \* the step of Process() that is under way
          frames,    \* files whose includes are still being visited
          decls,     \* format_decl_map_, group_decl_map_, decoder_decl_map_
          once,      \* once_include_files_
          info,      \* BinEncodingInfo and the errors reported so far
          todo,      \* attributes, formats or specializations left to visit
          listed     \* group_name_set of the decoder

vars == <<desc, phase, frames, decls, once, info, todo, listed>>

NoFunction == [x \in {} |-> x]
Put(f, k, v) == [x \in DOMAIN f \cup {k} |-> IF x = k THEN v ELSE f[x]]
Names(S) == SelectSeq(NameOrder, LAMBDA n : n \in S)

NoInfo == [formats |-> NoFunction, derived |-> <<>>, groups |-> NoFunction,
           decoder |-> <<>>, early |-> {}, specs |-> <<>>, trees |-> NoFunction, extractors |-> NoFunction,
           overlayExtractors |-> NoFunction, errors |-> {}]

Report(i, kinds) == [i EXCEPT !.errors = @ \cup kinds]

Init == /\ desc \in Descriptions
        /\ phase = "files" /\ frames = <<>> /\ once = {} /\ listed = {}
        /\ decls = [formats |-> NoFunction, groups |-> NoFunction, decoders |-> NoFunction]
        /\ info = NoInfo /\ todo = desc.sources

-----------------------------------------------------------------------------
(* Files and includes.                                                     *)

\* The first declaration of a name counts, any further one is an error.
Declare(m, ds) == FoldLeft(LAMBDA f, d : IF d.name \in DOMAIN f THEN f ELSE Put(f, d.name, d), m, ds)
Repeats(m, ds) == \/ \E d \in Range(ds) : d.name \in DOMAIN m
                  \/ \E j, k \in DOMAIN ds : j # k /\ ds[j].name = ds[k].name

PreProcessDeclarations(file) ==
  /\ decls' = [formats  |-> Declare(decls.formats, file.formats),
               groups   |-> Declare(decls.groups, file.groups),
               decoders |-> Declare(decls.decoders, file.decoders)]
  /\ info' = Report(info, IF \/ Repeats(decls.formats, file.formats)
                             \/ Repeats(decls.groups, file.groups)
                             \/ Repeats(decls.decoders, file.decoders)
                          THEN {"multiple definitions"} ELSE {})

IncludeStack == {frames[k].name : k \in {j \in DOMAIN frames : frames[j].included}}

\* Opens and parses a file, unless it is marked once and was seen before.
ParseIncludeFile(name, included, rest) ==
  LET file == desc.files[name] IN
  \/ /\ name \notin DOMAIN desc.files
     /\ info' = Report(info, {"failed to open"}) /\ frames' = rest /\ UNCHANGED decls
  \/ /\ name \in DOMAIN desc.files /\ name \in once
     /\ frames' = rest /\ UNCHANGED <<info, decls>>
  \/ /\ name \in DOMAIN desc.files /\ name \notin once
     /\ PreProcessDeclarations(file)
     /\ frames' = Append(rest, [name |-> name, todo |-> file.includes, included |-> included])

ReadSource ==
  /\ phase = "files" /\ frames = <<>> /\ todo # <<>>
  /\ ParseIncludeFile(Head(todo), Len(todo) < Len(desc.sources), <<>>)
  /\ todo' = Tail(todo)
  /\ UNCHANGED <<desc, phase, once, listed>>

Opened == Last(frames)
RestOfFrames == Append(Front(frames), [Opened EXCEPT !.todo = Tail(@)])

VisitIncludeFileStuck ==
  /\ frames # <<>> /\ Opened.todo # <<>>
  /\ IF Head(Opened.todo) \in IncludeStack
       THEN info' = Report(info, {"recursive include"}) /\ UNCHANGED <<frames, decls>>
       ELSE ParseIncludeFile(Head(Opened.todo), TRUE, RestOfFrames)
  /\ UNCHANGED <<desc, phase, once, todo, listed>>

VisitIncludeFile ==
  /\ frames # <<>> /\ Opened.todo # <<>>
  /\ IF Head(Opened.todo) \in IncludeStack
       THEN /\ info' = Report(info, {"recursive include"})
            /\ frames' = RestOfFrames /\ UNCHANGED decls
       ELSE ParseIncludeFile(Head(Opened.todo), TRUE, RestOfFrames)
  /\ UNCHANGED <<desc, phase, once, todo, listed>>

EndOfFile ==
  /\ frames # <<>> /\ Opened.todo = <<>>
  /\ frames' = Front(frames)
  /\ once' = IF Opened.included /\ desc.files[Opened.name].once THEN once \cup {Opened.name} ELSE once
  /\ UNCHANGED <<desc, phase, decls, info, todo, listed>>

-----------------------------------------------------------------------------
(* Formats.  They are visited when something needs them; a format that     *)
(* another one is derived from, or has as a field, is visited first.       *)

RECURSIVE VisitFormatDef(_, _), VisitFieldDef(_, _, _)

VisitFieldDef(i, fname, fd) ==
  LET fmt  == i.formats[fname]
      seen == IF fd.format \in DOMAIN decls.formats THEN VisitFormatDef(i, fd.format) ELSE i
      ref  == seen.formats[fd.format]
  IN CASE fd.format = NoName /\ fmt.packed /\ fd.width > Narrow -> Report(i, {"packed field too wide"})
       [] fd.format = NoName /\ ~(fmt.packed /\ fd.width > Narrow) ->
            Report([i EXCEPT !.formats[fname] = AddField(fmt, fd)],
                   IF FieldNamed(fmt, fd.name) = {} THEN {} ELSE {"field already defined"})
       [] fd.format # NoName /\ fmt.packed /\ fd.width > 1 -> Report(i, {"packed format replicated"})
       [] fd.format # NoName /\ ~(fmt.packed /\ fd.width > 1) ->
            IF fmt.packed /\ ref.width > Narrow THEN Report(seen, {"packed format too wide"})
            ELSE [seen EXCEPT !.formats[fname] =
                    AddFormatReferenceField(fmt, fd, fd.width, ref.width)]

VisitOverlayDef(i, fname, od) ==
  LET fmt == i.formats[fname]
      add(new) == Report([i EXCEPT !.formats[fname].overlays = Append(@, new.overlay)], new.errors)
  IN CASE od.width > Narrow -> Report(i, {"overlay too wide"})
       [] od.width <= Narrow /\ (OverlayNamed(fmt, od.name) # {} \/ FieldNamed(fmt, od.name) # {}) ->
            Report(i, {"overlay already defined"})
       [] OTHER -> add(NewOverlay(fmt, od))

\* Base and width are right: the format exists from here on, and its fields
\* and overlays are added to it.
BuildFormat(i, d, width) ==
  LET added   == [i EXCEPT !.formats = Put(@, d.name, NewFormat(d.name, width, d.parent, d.packed))]
      fielded == FoldLeft(LAMBDA j, fd : VisitFieldDef(j, d.name, fd), added, d.fields)
      put(j, checked) ==
        Report([j EXCEPT !.formats[d.name] = checked.format,
                         !.derived = IF d.parent = NoName THEN @ ELSE Append(@, <<d.parent, d.name>>)],
               checked.errors)
      check(j) == put(j, ComputeAndCheckFormatWidth(j.formats[d.name]))
  IN check(FoldLeft(LAMBDA j, od : VisitOverlayDef(j, d.name, od), fielded, d.overlays))

VisitFormatDef(i, fname) ==
  LET d == decls.formats[fname]
      inherit(j) ==
        IF d.parent \notin DOMAIN j.formats THEN Report(j, {"parent not defined"})
        ELSE IF d.width \notin {0, j.formats[d.parent].width} THEN Report(j, {"width differs from parent"})
        ELSE BuildFormat(j, d, j.formats[d.parent].width)
  IN CASE fname \in DOMAIN i.formats -> i
       [] fname \notin DOMAIN i.formats /\ d.parent = NoName ->
            IF d.width = 0 THEN Report(i, {"no width"}) ELSE BuildFormat(i, d, d.width)
       [] fname \notin DOMAIN i.formats /\ d.parent # NoName ->
            inherit(IF d.parent \in DOMAIN decls.formats THEN VisitFormatDef(i, d.parent) ELSE i)

RECURSIVE IsDerivedFrom(_, _, _)
IsDerivedFrom(i, f, base) ==
  f = base \/ (i.formats[f].linked /\ i.formats[f].base # NoName /\ IsDerivedFrom(i, i.formats[f].base, base))

-----------------------------------------------------------------------------
(* Instruction groups.                                                     *)

\* The constraints of a declaration, added to an encoding one by one.
VisitConstraints(fmt, cds, enc) ==
  FoldLeft(LAMBDA acc, cd :
             IF CreateConstraint(fmt, cd) = {} THEN [acc EXCEPT !.errors = @ \cup {"constraint"}]
             ELSE [acc EXCEPT !.enc = AddConstraint(@, CHOOSE c \in CreateConstraint(fmt, cd) : TRUE)],
           [enc |-> enc, errors |-> {}], cds)

\* An encoding is the group's next; specs has an entry per encoding.
AddInstructionEncoding(group, enc) ==
  [group EXCEPT !.encs = Append(@, enc), !.specs = Append(@, <<>>)]

\* A range of values for each assignment: all combinations, the first one
\* varying slowest.
RECURSIVE GenerateInstructionDefList(_, _)
GenerateInstructionDefList(assignments, defs) ==
  IF assignments = <<>> THEN defs
  ELSE LET a == Head(assignments)
           subst(def, v) ==
             [def EXCEPT !.name = IF def.vary = a.var THEN v.name ELSE @,
                         !.constraints = [k \in DOMAIN @ |->
                            IF @[k].var = a.var THEN [@[k] EXCEPT !.value = v.value] ELSE @[k]]]
       IN FlattenSeq([n \in DOMAIN a.values |->
            GenerateInstructionDefList(Tail(assignments),
              [k \in DOMAIN defs |-> subst(defs[k], a.values[n])])])

Referenced(defs) == UNION {({d.vary} \cup {c.var : c \in Range(d.constraints)}) : d \in Range(defs)} \ {NoName}

GeneratorErrors(def) ==
  LET vars_ == [k \in DOMAIN def.assignments |-> def.assignments[k].var]
  IN (IF IsInjective(vars_) THEN {} ELSE {"duplicate binding"})
     \cup (IF Referenced(def.generate) \subseteq Range(vars_) THEN {} ELSE {"undefined binding"})

\* An instruction whose format has been visited, if it exists.
EncodeInstruction(i, gname, def) ==
  LET group == i.groups[gname]
      fmt   == i.formats[def.format]
      id    == Len(group.encs) + 1
      wrong == IF fmt.width = group.width THEN {} ELSE {"format width differs"}
      add(built) == Report([i EXCEPT !.groups[gname] = AddInstructionEncoding(group, built.enc)], built.errors)
  IN CASE def.format \notin DOMAIN i.formats ->
            add([enc |-> NewEncoding(def.name, id, NoName), errors |-> {"format not defined"}])
       [] def.format \in DOMAIN i.formats /\ ~IsDerivedFrom(i, def.format, group.format) ->
            Report(i, wrong \cup {"format not derived"})
       [] OTHER -> Report(add(VisitConstraints(fmt, def.constraints, NewEncoding(def.name, id, fmt))), wrong)

RECURSIVE VisitInstructionDef(_, _, _)
VisitInstructionDef(i, gname, def) ==
  LET generated == GenerateInstructionDefList(def.assignments, def.generate)
      failed == Report(i, GeneratorErrors(def))
  IN CASE def.generate # <<>> ->
            IF failed.errors # {} THEN failed
            ELSE FoldLeft(LAMBDA j, d : VisitInstructionDef(j, gname, d), i, generated)
       [] def.generate = <<>> /\ def.parent # NoName -> [i EXCEPT !.specs = Append(@, def)]
       [] OTHER -> EncodeInstruction(IF def.format \in DOMAIN decls.formats THEN VisitFormatDef(i, def.format) ELSE i,
                                     gname, def)

NewInstructionGroup(width, format) == [width |-> width, format |-> format, encs |-> <<>>, specs |-> <<>>]

\* Both return the group's name, or NoName, and the names listed so far.
RECURSIVE VisitInstructionGroupDef(_, _), FindGroup(_, _), AddChild(_, _), VisitInstructionGroupNameList(_, _, _, _)

VisitInstructionGroupDef(i, gname) ==
  LET g    == decls.groups[gname]
      j    == Report(i, IF gname \in DOMAIN decls.formats THEN {"illegal use of format name"} ELSE {})
      ready(seen) == LET fmt == seen.formats[g.format] IN
                     Report([seen EXCEPT !.groups = Put(@, gname, NewInstructionGroup(g.width, g.format))],
                            (IF fmt.width = g.width THEN {} ELSE {"group width differs"})
                            \cup (IF fmt.width > Narrow THEN {"group too wide"} ELSE {}))
  IN CASE g.children # <<>> -> VisitInstructionGroupNameList(j, gname, g.children, {})
       [] g.children = <<>> /\ g.format \notin DOMAIN decls.formats ->
            [info |-> Report(j, {"undefined format"}), group |-> NoName]
       [] OTHER -> [info |-> FoldLeft(LAMBDA k, d : VisitInstructionDef(k, gname, d),
                                     ready(VisitFormatDef(j, g.format)), g.insts),
                    group |-> gname]

FindGroup(i, gname) ==
  IF gname \in DOMAIN i.groups THEN [info |-> i, group |-> gname]
  ELSE IF gname \in DOMAIN decls.groups THEN VisitInstructionGroupDef(i, gname)
  ELSE [info |-> i, group |-> NoName]

\* One child group: found, or visited now, and of the format of the others.
AddChild(acc, child) ==
  LET add(r) ==
        CASE r.group = NoName -> [acc EXCEPT !.info = Report(r.info, {"group not found"})]
          [] r.group # NoName /\ acc.children # <<>>
               /\ r.info.groups[acc.children[1]].format # r.info.groups[child].format ->
               [acc EXCEPT !.info = Report(r.info, {"child format differs"})]
          [] OTHER -> [info |-> r.info, children |-> Append(acc.children, child), listed |-> acc.listed \cup {child}]
  IN IF child \in acc.listed THEN [acc EXCEPT !.info = Report(@, {"group added twice"})]
     ELSE add(FindGroup(acc.info, child))

\* The encodings of the children are copied into the new group.
VisitInstructionGroupNameList(i, gname, names, already) ==
  LET merged(first, copied) ==
        [NewInstructionGroup(first.width, first.format) EXCEPT
           !.encs = [k \in DOMAIN copied |-> [copied[k] EXCEPT !.id = k]],
           !.specs = [k \in DOMAIN copied |-> <<>>]]
      encs(j, children) == FlattenSeq([k \in DOMAIN children |-> j.groups[children[k]].encs])
      merge(acc) ==
        CASE acc.children = <<>> ->
               [info |-> Report(acc.info, {"no child groups"}), group |-> NoName, listed |-> acc.listed]
          [] acc.children # <<>> /\ gname \in DOMAIN acc.info.groups ->
               [info |-> Report(acc.info, {"group already defined"}), group |-> NoName, listed |-> acc.listed]
          [] OTHER -> [info |-> [acc.info EXCEPT !.groups = Put(@, gname,
                                   merged(acc.info.groups[acc.children[1]], encs(acc.info, acc.children)))],
                       group |-> gname, listed |-> acc.listed]
  IN merge(FoldLeft(AddChild, [info |-> i, children |-> <<>>, listed |-> already], names))

-----------------------------------------------------------------------------
(* The decoder.                                                            *)

\* ProcessTopLevel: without the decoder that was asked for there is nothing.
FindDecoder ==
  /\ phase = "files" /\ frames = <<>> /\ todo = <<>>
  /\ IF desc.decoder \in DOMAIN decls.decoders
       THEN /\ phase' = "decoder" /\ todo' = decls.decoders[desc.decoder].groups
            /\ UNCHANGED info
       ELSE /\ phase' = "failed" /\ info' = Report(info, {"no such decoder"}) /\ UNCHANGED todo
  /\ UNCHANGED <<desc, frames, decls, once, listed>>

\* One attribute of the decoder: a group, or a list of groups to combine.
VisitDecoderGroup ==
  /\ phase = "decoder" /\ todo # <<>>
  /\ LET a == Head(todo)
         found(r, names) ==
           /\ info' = [r.info EXCEPT !.decoder = Append(@, r.group)]
           /\ listed' = names \cup {a.name}
         single(r) == IF r.group = NoName THEN info' = Report(r.info, {"no such group"}) /\ UNCHANGED listed
                      ELSE found(r, listed)
         combined(r) == IF r.group = NoName THEN info' = r.info /\ listed' = r.listed ELSE found(r, r.listed)
     IN \/ /\ a.name \in listed
           /\ info' = Report(info, {"group listed twice"}) /\ UNCHANGED listed
        \/ /\ a.name \notin listed /\ a.children = <<>>
           /\ single(FindGroup(info, a.name))
        \/ /\ a.name \notin listed /\ a.children # <<>>
           /\ combined(VisitInstructionGroupNameList(info, a.name, a.children, listed))
  /\ todo' = Tail(todo)
  /\ UNCHANGED <<desc, phase, frames, decls, once>>

\* Formats that have a visited one as a field become reachable too.
EndOfDecoder ==
  /\ phase = "decoder" /\ todo = <<>>
  /\ phase' = "references"
  /\ todo' = Names(DOMAIN info.formats)
  /\ info' = Report([info EXCEPT !.early = DOMAIN info.formats],
                    IF listed = {} THEN {"no instruction groups"} ELSE {})
  /\ UNCHANGED <<desc, frames, decls, once, listed>>

Referring(f) == {g \in DOMAIN decls.formats : f \in {fd.format : fd \in Range(decls.formats[g].fields)}}

VisitReferringFormats ==
  /\ phase = "references" /\ todo # <<>>
  /\ LET referring == Names(Referring(Head(todo)) \ info.early)
     IN /\ info' = FoldLeft(VisitFormatDef, info, referring)
        /\ todo' = Tail(todo) \o referring
  /\ UNCHANGED <<desc, phase, frames, decls, once, listed>>

-----------------------------------------------------------------------------
(* Extractors are promoted to the formats that a format is derived from.   *)

Failed == [owner |-> NoName, item |-> NoName]     \* a promotion that failed

\* Equality of entries: fields compare as equal, formats by their name,
\* overlays by the code that extracts them.
SameField(i, a, b) ==
  LET item(e) == CHOOSE f \in Range(i.formats[e.owner].fields) : f.name = e.item
  IN item(a).ref = item(b).ref /\ (item(a).ref => item(a).format = item(b).format)
ExtractorCode(i, e) ==
  LET ov == CHOOSE o \in Range(i.formats[e.owner].overlays) : o.name = e.item
  IN [k \in DOMAIN ov.comps |-> [ov.comps[k] EXCEPT !.of = NoName]]
SameOverlay(i, a, b) == ExtractorCode(i, a) = ExtractorCode(i, b)

Same(i, kind, a, b) == IF kind = "field" THEN SameField(i, a, b) ELSE SameOverlay(i, a, b)

PromoteFirst(i, kind, base, own) ==
  [n \in DOMAIN base \cup DOMAIN own |-> IF n \in DOMAIN base THEN base[n] ELSE own[n]]

Promote(i, kind, base, own) ==
  [n \in DOMAIN base \cup {m \in DOMAIN own : own[m] # Failed} |->
     CASE n \notin DOMAIN base -> own[n]
       [] n \in DOMAIN base /\ (n \notin DOMAIN own \/ own[n] = Failed \/ base[n] = Failed) -> base[n]
       [] OTHER -> IF Same(i, kind, own[n], base[n]) THEN base[n] ELSE Failed]

Derived(i, f) == LET own == SelectSeq(i.derived, LAMBDA d : d[1] = f) IN [k \in DOMAIN own |-> own[k][2]]

\* Derived formats before the format itself.
RECURSIVE PostOrder(_, _)
PostOrder(i, f) ==
  FlattenSeq([k \in DOMAIN Derived(i, f) |-> PostOrder(i, Derived(i, f)[k])]) \o <<f>>

Bases(i) == Names({f \in DOMAIN i.formats : i.formats[f].base = NoName})

PropagateExtractorsUp(i, kind, tables) ==
  LET order == FlattenSeq([k \in DOMAIN Bases(i) |-> PostOrder(i, Bases(i)[k])])
      lift(t, f) == LET b == i.formats[f].base
                    IN IF b = NoName THEN t ELSE [t EXCEPT ![b] = Promote(i, kind, @, t[f])]
  IN FoldLeft(lift, tables, order)

\* What failed is dropped, and so is a name of both a field and an overlay.
PropagateExtractorsDown(ex, ov) ==
  LET kept == {n \in DOMAIN ex : ex[n] # Failed}
  IN [fields   |-> [n \in kept \ DOMAIN ov |-> ex[n]],
      overlays |-> [n \in {m \in DOMAIN ov \ kept : ov[m] # Failed} |-> ov[n]]]

PropagateExtractors ==
  /\ phase = "references" /\ todo = <<>>
  /\ LET own(f, items) == [n \in {x.name : x \in Range(items)} |-> [owner |-> f, item |-> n]]
         ex == PropagateExtractorsUp(info, "field", [f \in DOMAIN info.formats |-> own(f, info.formats[f].fields)])
         ov == PropagateExtractorsUp(info, "overlay", [f \in DOMAIN info.formats |-> own(f, info.formats[f].overlays)])
     IN info' = [info EXCEPT
          !.extractors = [f \in DOMAIN ex |-> PropagateExtractorsDown(ex[f], ov[f]).fields],
          !.overlayExtractors = [f \in DOMAIN ov |-> PropagateExtractorsDown(ex[f], ov[f]).overlays]]
  /\ phase' = "check"
  /\ UNCHANGED <<desc, frames, decls, once, todo, listed>>

-----------------------------------------------------------------------------
(* Checks, specializations, code.                                          *)

\* The trees are built now, before any encoding has a specialization.
PerformEncodingChecks ==
  /\ phase = "check"
  /\ LET clash(tree) == \E k \in DOMAIN tree : CheckEncodings(tree[k])
         check(trees) == Report([info EXCEPT !.trees = trees],
                                IF \E g \in DOMAIN trees : clash(trees[g]) THEN {"duplicate encodings"} ELSE {})
     IN info' = check([g \in Range(info.decoder) |-> ProcessEncodings(info.groups[g].encs)])
  /\ IF info'.errors # {} THEN phase' = "failed" /\ UNCHANGED todo
                          ELSE phase' = "specialize" /\ todo' = info.specs
  /\ UNCHANGED <<desc, frames, decls, once, listed>>

EncodingNames(group) == {e.name : e \in Range(group.encs)}
                        \cup {s.name : s \in UNION {Range(group.specs[k]) : k \in DOMAIN group.specs}}

\* Attached to the first encoding of the parent's name in the first group, in
\* the order of their names, that knows the parent and not the specialization.
ProcessSpecialization ==
  /\ phase = "specialize" /\ todo # <<>>
  /\ LET def  == Head(todo)
         fits == SelectSeq(NameOrder, LAMBDA g : /\ g \in DOMAIN info.groups
                                                 /\ def.parent \in {e.name : e \in Range(info.groups[g].encs)}
                                                 /\ def.name \notin EncodingNames(info.groups[g]))
         group == info.groups[fits[1]]
         at    == Min({k \in DOMAIN group.encs : group.encs[k].name = def.parent})
         fmt   == group.encs[at].format
         built == VisitConstraints(fmt, def.constraints, NewEncoding(def.name, 0, fmt))
         ranked(s) == LET names == Names({x.name : x \in Range(s)})
                      IN [k \in DOMAIN names |-> CHOOSE x \in Range(s) : x.name = names[k]]
     IN IF fits = <<>> THEN UNCHANGED info
        ELSE info' = Report([info EXCEPT !.groups[fits[1]].specs[at] = ranked(Append(@, built.enc))],
                            built.errors)
  /\ todo' = Tail(todo)
  /\ UNCHANGED <<desc, phase, frames, decls, once, listed>>

Emit ==
  /\ phase = "specialize" /\ todo = <<>>
  /\ phase' = "emitted"
  /\ UNCHANGED <<desc, frames, decls, once, info, todo, listed>>

Done == phase \in {"emitted", "failed"} /\ UNCHANGED vars

ReadFiles == ReadSource \/ VisitIncludeFile \/ EndOfFile

Next == \/ ReadFiles
        \/ FindDecoder \/ VisitDecoderGroup \/ EndOfDecoder \/ VisitReferringFormats
        \/ PropagateExtractors \/ PerformEncodingChecks \/ ProcessSpecialization \/ Emit
        \/ Done

Spec == Init /\ [][Next]_vars /\ WF_vars(ReadFiles)

-----------------------------------------------------------------------------
(* Properties.                                                             *)

Words(width) == SUBSET Low(width)
Matches(enc, w) == \A c \in Constraints(enc) : Holds(c, w)
Decoded(g, w) == EmitDecoderCode(info.trees[g], w, info.groups[g].specs)

\* What the description of group g calls a word: an encoding all of whose
\* constraints it satisfies, or the first of that encoding's specializations
\* which it satisfies too; nothing, if there is none.
Described(g, w) ==
  LET group == info.groups[g]
      match == {e \in Range(group.encs) : Matches(e, w)}
  IN IF match = {} THEN {NoOpcode}
     ELSE {Specialized(e, SelectSeq(group.specs[e.id], LAMBDA s : Matches(s, w))) : e \in match}

DecodedRight(g) == \A w \in Words(info.groups[g].width) : Decoded(g, w) \in Described(g, w)

\* In the constraints of group g a name stands for the same bits everywhere.
NamesAgree(g) ==
  LET group == info.groups[g]
      all == UNION {Constraints(e) : e \in Range(group.encs) \cup UNION {Range(s) : s \in Range(group.specs)}}
      sides == UNION {{c.lhs, c.rhs} : c \in all} \ {NoSide}
  IN \A s, t \in sides : s # t /\ SideName(s) = SideName(t) =>
       \A w \in Words(group.width) : SideValue(s, w) = SideValue(t, w)

\* The decoder that is emitted for a group gives a word the name of an
\* encoding that the word satisfies, and says that it knows none exactly when
\* there is none: in groups in which a name stands for the same bits in every
\* format.  The tree of encoding groups leaves out the tests that it believes
\* settled by the path to a leaf, and a leaf extracts each name once.
DecodesAsDescribed ==
  phase = "emitted" => \A g \in Range(info.decoder) : NamesAgree(g) => DecodedRight(g)

\* The same of every group ("any field/overlay extractions needed for the
\* encoding"): a leaf extracts a name for the first encoding that needs it,
\* and tests another format's field of that name on the first one's bits.
DecodesEveryFormat ==
  phase = "emitted" => \A g \in Range(info.decoder) : DecodedRight(g)

\* What an inserter puts into a word, the extractor of the same name takes
\* out again, with its sign in all higher bits of the type if it is signed,
\* and no other field changes.  (Fields of formats of more than 64 and at most
\* 128 bits, replicated formats of at most 128 bits, and fields of packed
\* structs of just 64 bits, which are read from the bytes of a pointer, do not
\* satisfy this.)
InsertedIsExtracted ==
  phase = "emitted" =>
    \A n \in DOMAIN info.formats :
      LET fmt == info.formats[n]
          all == Low(fmt.width)
          bits(k, j) == LET f == fmt.fields[k] IN f.low - j * f.width .. f.high - j * f.width
          copies(k) == IF fmt.fields[k].ref THEN 0 .. fmt.fields[k].size - 1 ELSE {0}
          sound(k) == IF fmt.packed THEN fmt.width # Narrow
                      ELSE IF fmt.fields[k].ref THEN fmt.fields[k].size = 1 \/ fmt.width > Wide
                      ELSE fmt.width <= Narrow \/ fmt.width > Wide
          insert(k, j, v, w) ==
            LET f == fmt.fields[k]
            IN IF fmt.packed THEN GeneratePackedStructFieldInserter(fmt, k, v, w)
               ELSE IF f.ref THEN GenerateFormatInserter(fmt, f, j, v, w)
               ELSE GenerateFieldInserter(fmt, f, v, w)
          extract(k, j, w, pointer) ==
            LET f == fmt.fields[k]
            IN IF fmt.packed THEN GeneratePackedStructFieldExtractor(fmt, k, w, pointer)
               ELSE IF f.ref THEN GenerateFormatExtractor(fmt, f, j, w)
               ELSE GenerateFieldExtractor(fmt, f, w)
          signed(item, v, x) ==
            \A b \in Low(GetIntTypeBitWidth(item.width)) :
              b \in x <=> IF b < item.width THEN b \in v ELSE item.signed /\ item.width - 1 \in v
      IN /\ \A k \in DOMAIN fmt.fields : sound(k) =>
              \A j \in copies(k) : \A v \in SUBSET Low(fmt.fields[k].width) : \A w, pointer \in {{}, all} :
                LET u == insert(k, j, v, w)
                IN signed(fmt.fields[k], v, extract(k, j, u, pointer)) /\ u \ bits(k, j) = w \ bits(k, j)
         /\ \A o \in Range(fmt.overlays) : fmt.width <= Narrow /\ ~MustBeExtracted(o) =>
              \A v \in {GetValue(o, w) : w \in SUBSET OverlayMask(o)} :
                LET u == GenerateOverlayInserter(fmt, o, v, {})
                IN signed(o, v, GenerateOverlayExtractor(fmt, o, u)) /\ u = GetBitField(o, v)

\* The overlay extractors in the namespaces of a format and of one derived
\* from it that have the same name select the same bits, and those of the
\* format's own overlay if it has one, whatever was promoted from formats
\* derived earlier, later, or from one another ("extractors that don't
\* conflict in the bits they select may be promoted").
PromotedOverlaysAgree ==
  phase = "emitted" =>
    \A f \in DOMAIN info.formats : \A n \in DOMAIN info.overlayExtractors[f] :
      LET promoted == info.overlayExtractors[f][n]
      IN /\ \A o \in OverlayNamed(info.formats[f], n) : SameOverlay(info, promoted, [owner |-> f, item |-> n])
         /\ \A d \in Range(Derived(info, f)) : n \in DOMAIN info.overlayExtractors[d] =>
              SameOverlay(info, promoted, info.overlayExtractors[d][n])

\* Every overlay has its extractor in the namespace of its own format ("all
\* generated within a namespace specific to the format they're associated
\* with").  A promotion that fails takes the base format's own extractor along.
ExtractorsGenerated ==
  phase = "emitted" =>
    \A f \in DOMAIN info.formats : \A o \in Range(info.formats[f].overlays) :
      o.name \in DOMAIN info.overlayExtractors[f]

\* Whatever the files include, and however often, the compiler comes to the
\* end of them: a file that includes itself, through others or not, is found
\* on the stack of the files being read.
IncludesEnd == <>(frames = <<>> /\ todo = <<>>)
=============================================================================
