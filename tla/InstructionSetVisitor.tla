------------------------ MODULE InstructionSetVisitor ------------------------
(***************************************************************************)
(* The compiler of instruction set descriptions (decoder_gen): reads the   *)
(* files, visits the bundles and slots that the instruction set refers to, *)
(* checks them, and generates a decoder class per slot, the enumerations   *)
(* and the encoder.  Errors are collected; code is only generated if there *)
(* are none.  A null expression is NoExpr: an error has been reported, and *)
(* the places where the program would dereference it are passed over.      *)
(***************************************************************************)
EXTENDS Slots

CONSTANTS Descriptions,   \* the descriptions that may be compiled
          Concatenated    \* the name that a sequence of pieces of text is

VARIABLES desc,      \* the files and the instruction set asked for
          phase,     \* the step of Process() that is under way
          frames,    \* the files whose includes are still being read
          decls,     \* slot_decl_map_, bundle_decl_map_, isa_decl_map_
          info,      \* InstructionSet, constants, widths and errors
          todo,      \* files, bundles or slots that are left
          order,     \* slot_order_
          setters,   \* the setter functions made so far
          code       \* the code generated for the slots, and the encoder

vars == <<desc, phase, frames, decls, info, todo, order, setters, code>>

NoInfo == [consts |-> NoFunction, widths |-> <<>>, bundles |-> NoFunction, top |-> NoName,
           slots |-> NoFunction, insts |-> NoFunction, opcodes |-> <<>>, resources |-> NoFunction,
           errors |-> {}, aborted |-> FALSE]
Report(i, kinds) == [i EXCEPT !.errors = @ \cup kinds]
ReportIf(i, cond, kind) == IF cond THEN Report(i, {kind}) ELSE i

Init == /\ desc \in Descriptions
        /\ phase = "files" /\ frames = <<>> /\ info = NoInfo /\ todo = desc.sources
        /\ decls = [slots |-> NoFunction, bundles |-> NoFunction, isas |-> NoFunction]
        /\ order = <<>> /\ setters = NoSetters /\ code = NoFunction

-----------------------------------------------------------------------------
(* Files.                                                                  *)

\* An expression visited where errors are reported.
Visited(scope, e) ==
  LET result(r) == [expr |-> IF r = {} THEN NoExpr ELSE The(r),
                    errors |-> IF r = {} THEN {"expression"} ELSE IF WrongArity(e) THEN {"arguments"} ELSE {}]
  IN result(VisitExpression(scope, e))

VisitedOr(scope, e, value) ==
  IF e = NoExpr THEN [expr |-> TemplateConstant(value), errors |-> {}] ELSE Visited(scope, e)

VisitConstantDef(i, c) ==
  LET define(v) == Report([i EXCEPT !.consts = PutNew(@, c.name, v.expr)], v.errors)
  IN ReportIf(define(Visited(Scope(NoSlot, FALSE, NoFunction, i.consts), c.expr)),
              c.name \in DOMAIN i.consts, "constant")

VisitDisasmWidthsDecl(i, exprs) ==
  LET add(j, v) == Report([j EXCEPT !.widths = IF v.expr = NoExpr THEN @ ELSE Append(@, v.expr)], v.errors)
  IN FoldLeft(LAMBDA j, e : add(j, Visited(Scope(NoSlot, FALSE, NoFunction, j.consts), e)), i, exprs)

\* The first declaration of a name counts, any further one is an error.
Declare(m, ds) == FoldLeft(LAMBDA f, d : PutNew(f, d.name, d), m, ds)
Repeats(m, ds) == \/ \E d \in Range(ds) : d.name \in DOMAIN m
                  \/ \E j, k \in DOMAIN ds : j # k /\ ds[j].name = ds[k].name

PreProcessDeclarations(i, file) ==
  /\ decls' = [slots   |-> Declare(decls.slots, file.slots),
               bundles |-> Declare(decls.bundles, file.bundles),
               isas    |-> Declare(decls.isas, file.isas)]
  /\ info' = ReportIf(FoldLeft(VisitConstantDef, i, file.consts),
                      \/ Repeats(decls.slots, file.slots) \/ Repeats(decls.bundles, file.bundles)
                      \/ Repeats(decls.isas, file.isas), "declared twice")

IncludeStack == {frames[k].name : k \in {j \in DOMAIN frames : frames[j].included}}

ParseIncludeFile(name, rest) ==
  IF name \in DOMAIN desc.files
    THEN /\ PreProcessDeclarations(info, desc.files[name])
         /\ frames' = Append(rest, [name |-> name, todo |-> desc.files[name].includes, included |-> TRUE])
    ELSE info' = Report(info, {"failed to open"}) /\ frames' = rest /\ UNCHANGED decls

\* The first file: its widths are evaluated before all constants.
VisitTopLevel ==
  /\ phase = "files" /\ frames = <<>> /\ todo = desc.sources
  /\ LET file == desc.files[todo[1]]
         wide == FoldLeft(VisitDisasmWidthsDecl, info, file.widths)
     IN /\ PreProcessDeclarations(ReportIf(wide, Len(file.widths) > 1, "disasm widths"), file)
        /\ frames' = <<[name |-> todo[1], todo |-> file.includes, included |-> FALSE]>>
  /\ todo' = Tail(todo)
  /\ UNCHANGED <<desc, phase, order, setters, code>>

ReadSource ==
  /\ phase = "files" /\ frames = <<>> /\ todo # <<>> /\ todo # desc.sources
  /\ ParseIncludeFile(todo[1], <<>>)
  /\ todo' = Tail(todo)
  /\ UNCHANGED <<desc, phase, order, setters, code>>

VisitIncludeFile ==
  /\ frames # <<>> /\ Last(frames).todo # <<>>
  /\ LET name == Head(Last(frames).todo)
         rest == Append(Front(frames), [Last(frames) EXCEPT !.todo = Tail(@)])
     IN IF name \in IncludeStack
          THEN info' = Report(info, {"recursive include"}) /\ frames' = rest /\ UNCHANGED decls
          ELSE ParseIncludeFile(name, rest)
  /\ UNCHANGED <<desc, phase, todo, order, setters, code>>

EndOfFile ==
  /\ frames # <<>> /\ Last(frames).todo = <<>>
  /\ frames' = Front(frames)
  /\ UNCHANGED <<desc, phase, decls, info, todo, order, setters, code>>

-----------------------------------------------------------------------------
(* Opcodes.  An acc holds the info and the slot that is being visited.     *)

InSlot(acc) == Scope(acc.slot, FALSE, NoFunction, acc.info.consts)
InInst(acc, parts) == Scope(acc.slot, TRUE, GetDestOp(parts), acc.info.consts)
Err(acc, kinds) == [acc EXCEPT !.info = Report(@, kinds)]

\* The attributes of a list, the first of a name; without a value it is 0.
VisitInstructionAttributeList(acc, scope, list) ==
  LET add(a, d, v) ==
        IF d.name \in DOMAIN a.attrs THEN [a EXCEPT !.acc = Err(@, {"duplicate attribute"})]
        ELSE [acc |-> Err([a.acc EXCEPT !.slot.attrNames = @ \cup {d.name}], v.errors),
              attrs |-> Put(a.attrs, d.name, v.expr)]
  IN FoldLeft(LAMBDA a, d : add(a, d, VisitedOr(scope, d.expr, 0)), [acc |-> acc, attrs |-> NoFunction], list)

VisitSemfuncSpec(acc, inst, codes) ==
  LET set == [inst EXCEPT !.parts = [k \in DOMAIN @ |->
                IF k \in DOMAIN codes THEN [@[k] EXCEPT !.semfunc = codes[k]] ELSE @[k]]]
  IN [acc |-> Err(acc, IF Len(codes) < Len(inst.parts) THEN {"fewer semfuncs"} ELSE {}), inst |-> set]

\* One format string; the operand of a shift is not looked up.
ParseDisasmFormat(i, inst, f) ==
  LET legal(x) == x.op = NoName \/ x.shifted \/ x.op \in DOMAIN inst.locators
      n == Len(inst.disasm) + 1
      width == IF n \in DOMAIN i.widths /\ GetValue(i.widths[n]) # {} THEN The(GetValue(i.widths[n])) ELSE 0
  IN IF f.malformed \/ \E x \in Range(f.infos) : ~legal(x) THEN {}
     ELSE {[inst EXCEPT !.disasm = Append(@, [text |-> f.text, infos |-> f.infos, width |-> width])]}

\* The first bad format ends the list.
RECURSIVE VisitDisasmSpec(_, _, _)
VisitDisasmSpec(acc, inst, formats) ==
  IF formats = <<>> THEN [acc |-> acc, inst |-> inst]
  ELSE LET parsed(r) == IF r = {} THEN [acc |-> Err(acc, {"disasm"}), inst |-> inst]
                        ELSE VisitDisasmSpec(acc, The(r), Tail(formats))
       IN parsed(ParseDisasmFormat(acc.info, inst, Head(formats)))

\* A reference is held until the destination operand that it names, or that
\* its cycles name, is written, unless it says otherwise.
ProcessResourceReference(acc, inst, item) ==
  LET known == [acc EXCEPT !.info.resources = Put(@, item.name, [simple |-> TRUE, array |-> item.array])]
      made(begin, end) ==
        [acc |-> Err(known, begin.errors \cup end.errors),
         refs |-> {[resource |-> item.name, array |-> item.array, begin |-> begin.expr, end |-> end.expr]}]
      written(dests, ops) == IF \E n \in ops : dests[n] # NoExpr THEN dests[The(ops)] ELSE TemplateConstant(0)
      refer(scope, ops) ==
        IF Cardinality(ops \cup FindDestinationOps(scope, item.end)) > 1
          THEN [acc |-> Err(known, {"several destinations"}), refs |-> {}]
          ELSE made(VisitedOr(scope, item.begin, 0),
                    IF item.end # NoExpr THEN Visited(scope, item.end)
                    ELSE [expr |-> written(scope.dests, ops), errors |-> {}])
      within(scope) == refer(scope, ({item.name} \cap DOMAIN scope.dests) \cup FindDestinationOps(scope, item.begin))
  IN within(InInst(acc, inst.parts))

\* Lists of use, acquire and hold; what is acquired is used as well.
VisitResourceDetailsLists(acc, inst, d) ==
  LET file(a, kind, ref) ==
        LET used == kind = "use" \/ (kind = "acquire" /\ \A u \in Range(a.use) : u.resource # ref.resource)
        IN [a EXCEPT !.use = IF used THEN Append(@, ref) ELSE @,
                     !.acquire = IF kind = "use" THEN @ ELSE Append(@, ref)]
      add(a, kind, r) == IF r.refs = {} THEN [a EXCEPT !.acc = r.acc]
                         ELSE file([a EXCEPT !.acc = r.acc], kind, The(r.refs))
      visit(a, kind, items) ==
        FoldLeft(LAMBDA b, item : add(b, kind, ProcessResourceReference(b.acc, inst, item)), a, items)
  IN visit(visit(visit([acc |-> acc, use |-> <<>>, acquire |-> <<>>], "use", d.use), "acquire", d.acquire), "hold", d.hold)

VisitResourceDetails(acc, inst, d) ==
  LET known == d.name = NoName \/ d.name \in DOMAIN acc.slot.specs
      add(r) == [acc |-> r.acc, inst |-> [inst EXCEPT !.use = @ \o r.use, !.acquire = @ \o r.acquire]]
  IN IF ~known THEN [acc |-> Err(acc, {"resources name"}), inst |-> inst]
     ELSE add(VisitResourceDetailsLists(acc, inst, IF d.name = NoName THEN d ELSE acc.slot.specs[d.name]))

\* What was there, a default or inherited, is cleared first, and is also
\* cleared if this is the second specification of its kind: an error.
VisitOpcodeAttributes(acc, inst, attributes) ==
  LET clear(i, kind) == CASE kind = "disasm" -> ClearDisasmFormat(i)
                          [] kind = "semfunc" -> ClearSemfuncCodeString(i)
                          [] kind = "resources" -> ClearResourceSpecs(i)
                          [] kind = "attributes" -> ClearAttributeSpecs(i)
      set(i, r) == [acc |-> r.acc, inst |-> AddInstructionAttribute(i, r.attrs)]
      visit(a, i, x) ==
        CASE x.kind = "disasm" -> VisitDisasmSpec(a, i, x.formats)
          [] x.kind = "semfunc" -> VisitSemfuncSpec(a, i, x.codes)
          [] x.kind = "resources" -> VisitResourceDetails(a, i, x.details)
          [] x.kind = "attributes" -> set(i, VisitInstructionAttributeList(a, InInst(a, i.parts), x.list))
      step(s, k) ==
        IF \E j \in 1 .. k - 1 : attributes[j].kind = attributes[k].kind
          THEN [acc |-> Err(s.acc, {"multiple specifications"}), inst |-> clear(s.inst, attributes[k].kind)]
          ELSE visit(s.acc, clear(s.inst, attributes[k].kind), attributes[k])
  IN FoldLeft(step, [acc |-> acc, inst |-> inst], [k \in DOMAIN attributes |-> k])

\* The operands of the n-th part, which has no children when its latencies
\* are visited.  A latency is an expression, is found when decoding, or is
\* the slot's default, else 1.
VisitOpcodeOperands(acc, inst, n, ops) ==
  LET locator(type, k, reloc) == [spec |-> n - 1, type |-> type, instance |-> k - 1, reloc |-> reloc]
      typed(o, plain, array) == IF o.array THEN array ELSE plain
      located == FoldLeft(LAMBDA m, x : PutNew(m, x.name, x.at), inst.locators,
        (IF ops.pred = NoName THEN <<>> ELSE <<[name |-> ops.pred, at |-> locator("p", 1, FALSE)]>>)
        \o [k \in DOMAIN ops.sources |-> [name |-> ops.sources[k].name,
              at |-> locator(typed(ops.sources[k], "s", "t"), k, ops.sources[k].reloc)]]
        \o [k \in DOMAIN ops.dests |-> [name |-> ops.dests[k].name,
              at |-> locator(typed(ops.dests[k], "d", "e"), k, ops.dests[k].reloc)]])
      latency(a, d) ==
        CASE d.how = "expr" -> Visited(InInst(acc, <<a.part>>), d.expr)
          [] d.how = "wildcard" -> [expr |-> NoExpr, errors |-> {}]
          [] d.how = "default" -> [expr |-> IF acc.slot.latency # NoExpr THEN acc.slot.latency ELSE TemplateConstant(1),
                                   errors |-> {}]
      add(a, d, v) ==
        [acc |-> Err(a.acc, v.errors),
         part |-> [a.part EXCEPT !.dests = Append(@, [name |-> d.name, array |-> d.array, lat |-> v.expr])]]
      append(built) == [acc |-> built.acc,
                        inst |-> [inst EXCEPT !.locators = located, !.parts = Append(@, built.part)]]
  IN append(FoldLeft(LAMBDA a, d : add(a, d, latency(a, d)),
                     [acc |-> acc, part |-> [NewPart(acc.slot.attrs) EXCEPT !.pred = ops.pred, !.sources = ops.sources]],
                     ops.dests))

\* The rows of values of each range, substituted one after the other; if the
\* variables of a range are not used its first row stands for all.
RECURSIVE GenerateOpcodeSpec(_, _)
GenerateOpcodeSpec(ranges, specs) ==
  IF ranges = <<>> THEN specs
  ELSE LET r == Head(ranges)
           used == \E s \in Range(specs) : \E p \in Range(s.pieces) : p.var /\ p.text \in Range(r.vars)
           rows == IF used THEN r.rows ELSE SubSeq(r.rows, 1, 1)
           index(v) == CHOOSE k \in DOMAIN r.vars : r.vars[k] = v
           subst(p, row) == IF p.var /\ p.text \in Range(r.vars)
                              THEN [var |-> FALSE, text |-> row[index(p.text)]] ELSE p
       IN FlattenSeq([n \in DOMAIN rows |->
            GenerateOpcodeSpec(Tail(ranges),
              [k \in DOMAIN specs |->
                 [specs[k] EXCEPT !.pieces = [j \in DOMAIN @ |-> subst(@[j], rows[n])]]])])

\* Any error so far, a stale one as well, ends the generator.
ProcessOpcodeGenerator(i, spec) ==
  LET bound == FlattenSeq([k \in DOMAIN spec.ranges |-> spec.ranges[k].vars])
      used  == {p.text : p \in {q \in UNION {Range(s.pieces) : s \in Range(spec.specs)} : q.var}}
      sizes == \A r \in Range(spec.ranges) : \A row \in Range(r.rows) : Len(row) = Len(r.vars)
      checked == ReportIf(ReportIf(i, ~IsInjective(bound), "duplicate binding"),
                          ~(used \subseteq Range(bound)), "undefined binding")
      made  == GenerateOpcodeSpec(spec.ranges, spec.specs)
      named(s) == [s EXCEPT !.name = Concatenated[[k \in DOMAIN s.pieces |-> s.pieces[k].text]]]
  IN IF ~sizes \/ checked.errors # {} THEN [info |-> Report(checked, {"generator"}), specs |-> <<>>]
     ELSE [info |-> i, specs |-> [k \in DOMAIN made |-> named(made[k])]]

CreateOpcode(i, name) ==
  IF name \in Range(i.opcodes) THEN Report(i, {"opcode declared"}) ELSE [i EXCEPT !.opcodes = Append(@, name)]

Inheriting(acc, name) == {k \in DOMAIN acc.slot.bases : name \in DOMAIN acc.info.slots[acc.slot.bases[k].name].insts}

\* A new opcode: its operands, part by part, then its attributes.
CreateInstruction(acc, spec) ==
  LET inst == NewInstruction(spec.name, IF spec.size = 0 THEN acc.slot.opsize ELSE spec.size)
      attribute(s) == VisitOpcodeAttributes(s.acc, s.inst, spec.attributes)
      record(s) == [acc |-> [s.acc EXCEPT !.info.insts = Put(@, spec.name, s.inst)], inst |-> s.inst]
  IN record(attribute(FoldLeft(LAMBDA s, k : VisitOpcodeOperands(s.acc, s.inst, k, spec.parts[k]),
                               [acc |-> acc, inst |-> inst], [k \in DOMAIN spec.parts |-> k])))

RECURSIVE ProcessOpcodeSpec(_, _)
ProcessOpcodeSpec(s, spec) ==
  LET found == Inheriting(s.acc, spec.name)
      fail(kind) == [s EXCEPT !.acc = Err(@, {kind})]
      opcode == CreateOpcode(s.acc.info, spec.name)
      add(r) == [s EXCEPT !.acc = r.acc, !.insts = Append(@, r.inst)]
      each(g) == FoldLeft(ProcessOpcodeSpec, [s EXCEPT !.acc.info = g.info], g.specs)
  IN CASE spec.kind = "generate" ->
            each(ProcessOpcodeGenerator(s.acc.info, spec))
       [] spec.kind = "deleted" ->
            IF found = {} THEN fail("deleted") ELSE [s EXCEPT !.deleted = @ \cup {spec.name}]
       [] spec.kind = "overridden" ->
            IF Cardinality(found) # 1 THEN fail("overridden") ELSE [s EXCEPT !.overridden = Append(@, spec)]
       [] spec.kind = "new" ->
            IF spec.name \in Range(s.acc.info.opcodes)
              THEN [s EXCEPT !.acc.info = opcode]
              ELSE add(CreateInstruction([s.acc EXCEPT !.info = opcode], spec))

\* After each base, so that an opcode from a later base is not found.
PerformOpcodeOverrides(acc, overridden) ==
  LET put(r) == [r.acc EXCEPT !.slot.insts = Put(@, r.inst.name, r.inst)]
  IN FoldLeft(LAMBDA a, spec :
                IF spec.name \notin DOMAIN a.slot.insts THEN [a EXCEPT !.info.aborted = TRUE]
                ELSE put(VisitOpcodeAttributes(a, a.slot.insts[spec.name], spec.attributes)),
              acc, overridden)

Appended(acc, r) == [acc EXCEPT !.slot = r.slot, !.info = ReportIf(@, ~r.ok, "append")]

VisitOpcodeList(acc, specs) ==
  LET copied(a, base, deleted) ==
        LET insts == a.info.slots[base.name].insts
        IN FoldLeft(LAMBDA b, n : Appended(b, AppendInheritedInstruction(b.slot, insts[n], base.args)),
                    a, Names(DOMAIN insts \ deleted))
      inherited(s) == FoldLeft(LAMBDA a, base : PerformOpcodeOverrides(copied(a, base, s.deleted), s.overridden),
                               s.acc, s.acc.slot.bases)
      completed(s) == FoldLeft(LAMBDA a, inst : Appended(a, AppendInstruction(a.slot, inst)), inherited(s), s.insts)
  IN completed(FoldLeft(ProcessOpcodeSpec, [acc |-> acc, insts |-> <<>>, deleted |-> {}, overridden |-> <<>>], specs))

-----------------------------------------------------------------------------
(* Slots and bundles.                                                      *)

\* The default instruction needs one semantic function; of more than one
\* function the slot has an empty one, which is found later.
VisitDefaultOpcode(acc, attributes) ==
  LET of(kind) == SelectSeq(attributes, LAMBDA x : x.kind = kind)
      codes == of("semfunc")[1].codes
      twice == IF Len(of("disasm")) > 1 \/ Len(of("semfunc")) > 1 THEN {"duplicate in default"} ELSE {}
      set(shown) ==
        IF of("semfunc") = <<>> THEN Err(shown.acc, twice \cup {"default semfunc"})
        ELSE [Err(shown.acc, twice \cup IF Len(codes) > 1 THEN {"default semfuncs"} ELSE {}) EXCEPT
                !.slot.default = <<[shown.inst EXCEPT
                   !.parts[1].semfunc = IF Len(codes) > 1 THEN NoName ELSE codes[1]]>>]
  IN CASE acc.slot.default # <<>> -> Err(acc, {"default"})
       [] acc.slot.default = <<>> /\ of("disasm") = <<>> -> set([acc |-> acc, inst |-> DefaultInstruction])
       [] OTHER -> set(VisitDisasmSpec(acc, DefaultInstruction, of("disasm")[1].formats))

VisitConstAndDefaultDecls(acc, d) ==
  LET constant(v) ==
        CASE v.expr = NoExpr -> Err(acc, v.errors)
          [] v.expr # NoExpr /\ d.name \in Range(acc.slot.formals) \cup DOMAIN acc.slot.consts ->
               Err(acc, v.errors \cup {"slot constant"})
          [] OTHER -> Err([acc EXCEPT !.slot.consts = Put(@, d.name, v.expr)], v.errors)
      latency(v) == Err([acc EXCEPT !.slot.latency = IF v.expr = NoExpr THEN @ ELSE v.expr], v.errors)
      attributes(r) == [r.acc EXCEPT !.slot.attrs = Merged(r.attrs, @)]
  IN CASE d.kind = "const" -> constant(Visited(InSlot(acc), d.expr))
       [] d.kind = "size" -> [acc EXCEPT !.slot.opsize = d.value]
       [] d.kind = "latency" -> latency(Visited(InSlot(acc), d.expr))
       [] d.kind = "attributes" -> attributes(VisitInstructionAttributeList(acc, InSlot(acc), d.list))
       [] d.kind = "opcode" -> VisitDefaultOpcode(acc, d.attributes)
       [] d.kind = "resources" -> IF d.name \in DOMAIN acc.slot.specs THEN Err(acc, {"resources defined"})
                                  ELSE [acc EXCEPT !.slot.specs = Put(@, d.name, d.details)]

AddBase(acc, base, args) ==
  LET preds == [n \in DOMAIN acc.info.slots \cup {acc.slot.name} |->
                  LET s == IF n = acc.slot.name THEN acc.slot ELSE acc.info.slots[n]
                  IN {s.bases[k].name : k \in DOMAIN s.bases}]
  IN IF CheckPredecessors(preds, acc.slot.name, base)
       THEN [acc EXCEPT !.slot.bases = Append(@, [name |-> base, args |-> args])]
       ELSE Err(acc, {"predecessor"})

RECURSIVE VisitSlotDeclaration(_, _), VisitBaseItem(_, _)

VisitBaseItem(acc, item) ==
  LET derive(seen, args) == IF args = {} THEN Err(seen, {"template expression"})
                            ELSE AddBase(seen, item.name, The(args))
      check(seen) ==
        LET base == seen.info.slots[item.name]
        IN CASE (item.args # <<>>) # base.templated -> Err(seen, {"template arguments"})
             [] (item.args # <<>>) = base.templated /\ Len(item.args) # Len(base.formals) ->
                  Err(seen, {"number of arguments"})
             [] OTHER -> derive(seen, VisitAll(InSlot(seen), item.args))
  IN CASE item.name \notin DOMAIN decls.slots -> Err(acc, {"undefined base"})
       [] item.name \in DOMAIN acc.info.slots -> check(acc)
       [] OTHER -> check([acc EXCEPT !.info = VisitSlotDeclaration(@, item.name)])

\* The slot is known to others when its bases have been visited.
VisitSlotDeclaration(i, name) ==
  LET d == decls.slots[name]
      start == [info |-> ReportIf(i, ~IsInjective(d.formals), "duplicate parameter"), slot |-> NewSlot(d)]
      sized == [FoldLeft(VisitBaseItem, start, d.bases) EXCEPT !.slot.size = d.size]
      put(acc) == [acc.info EXCEPT !.slots = Put(@, name, acc.slot)]
  IN put(VisitOpcodeList(FoldLeft(VisitConstAndDefaultDecls, sized, d.decls), d.opcodes))

NewBundle(name) == [name |-> name, bundles |-> <<>>, uses |-> <<>>]

VisitSlotSpec(i, bname, s) ==
  IF s.name \notin DOMAIN decls.slots THEN Report(i, {"undefined slot"})
  ELSE [IF s.name \in DOMAIN i.slots THEN i ELSE VisitSlotDeclaration(i, s.name) EXCEPT
          !.bundles[bname].uses = Append(@, [name |-> s.name, instances |-> s.instances])]

\* Its parts are lists of slots or of bundles, at most one of each.
RECURSIVE VisitBundleDeclaration(_, _), VisitBundleSpec(_, _, _)
VisitBundleSpec(i, bname, sub) ==
  IF sub \notin DOMAIN decls.bundles THEN Report(i, {"undefined bundle"})
  ELSE [IF sub \in DOMAIN i.bundles THEN i ELSE VisitBundleDeclaration(i, sub) EXCEPT
          !.bundles[bname].bundles = Append(@, sub)]

VisitBundleDeclaration(i, name) ==
  LET parts == decls.bundles[name].parts
      added == [i EXCEPT !.bundles = Put(@, name, NewBundle(name))]
      second == {k \in DOMAIN parts : \E j \in 1 .. k - 1 : parts[j].kind = parts[k].kind}
      upto == {k \in DOMAIN parts : \A m \in second : k < m}
      visit(j, p) == IF p.kind = "slots" THEN FoldLeft(LAMBDA a, s : VisitSlotSpec(a, name, s), j, p.list)
                     ELSE FoldLeft(LAMBDA a, b : VisitBundleSpec(a, name, b), j, p.list)
  IN ReportIf(FoldLeft(visit, added, SubSeq(parts, 1, Cardinality(upto))), second # {}, "multiple lists")

\* A step of VisitIsaDeclaration is an entry of its bundle or slot list.
ProcessTopLevel ==
  /\ phase = "files" /\ frames = <<>> /\ todo = <<>>
  /\ LET isa == decls.isas[desc.isa]
     IN IF desc.isa \in DOMAIN decls.isas
          THEN /\ phase' = "isa"
               /\ todo' = [k \in DOMAIN isa.bundles |-> [kind |-> "bundle", spec |-> isa.bundles[k]]]
                          \o [k \in DOMAIN isa.slots |-> [kind |-> "slot", spec |-> isa.slots[k]]]
               /\ info' = [info EXCEPT !.top = desc.isa, !.bundles = Put(@, desc.isa, NewBundle(desc.isa))]
          ELSE phase' = "failed" /\ info' = Report(info, {"no isa"}) /\ UNCHANGED todo
  /\ UNCHANGED <<desc, frames, decls, order, setters, code>>

VisitIsaDeclaration ==
  /\ phase = "isa" /\ todo # <<>>
  /\ info' = IF todo[1].kind = "bundle" THEN VisitBundleSpec(info, info.top, todo[1].spec)
             ELSE VisitSlotSpec(info, info.top, todo[1].spec)
  /\ todo' = Tail(todo)
  /\ phase' = IF info'.aborted THEN "aborted" ELSE phase
  /\ UNCHANGED <<desc, frames, decls, order, setters, code>>

-----------------------------------------------------------------------------
(* Checks and generation.                                                  *)

RECURSIVE CheckBundle(_, _)
CheckBundle(i, name) ==
  LET checked == FoldLeft(CheckBundle, i, i.bundles[name].bundles)
      use(j, u) ==
        LET slot == j.slots[u.name]
            wrong == \E n \in Range(u.instances) : n >= slot.size
            bare == slot.default = <<>> \/ slot.default[1].parts[1].semfunc = NoName
        IN ReportIf(ReportIf([j EXCEPT !.slots[u.name].referenced = TRUE], wrong, "index out of range"),
                    ~slot.referenced /\ bare, "no default semantic action")
  IN FoldLeft(use, checked, i.bundles[name].uses)

PerformBundleReferenceChecks ==
  /\ phase = "isa" /\ todo = <<>>
  /\ info' = CheckBundle(info, info.top)
  /\ phase' = "order"
  /\ UNCHANGED <<desc, frames, decls, todo, order, setters, code>>

\* The slots are in a hash map: any one may be the next, after its bases.
RECURSIVE AddToSlotOrder(_, _)
AddToSlotOrder(seq, name) ==
  IF name \in Range(seq) THEN seq
  ELSE LET bases == info.slots[name].bases
       IN Append(FoldLeft(LAMBDA s, b : AddToSlotOrder(s, b.name), seq, bases), name)

ComputeSlotAndBundleOrders ==
  /\ phase = "order"
  /\ \E n \in DOMAIN info.slots \ Range(order) : order' = AddToSlotOrder(order, n)
  /\ UNCHANGED <<desc, phase, frames, decls, info, todo, setters, code>>

\* A resource that is acquired in a later cycle by any instruction, templates
\* included, is complex.
AnalyzeResourceUse ==
  /\ phase = "order" /\ Range(order) = DOMAIN info.slots
  /\ LET refs == UNION {UNION {Range(info.slots[s].insts[n].acquire) : n \in DOMAIN info.slots[s].insts}
                        : s \in DOMAIN info.slots}
         open == \E r \in refs : GetValue(r.begin) = {} \/ GetValue(r.end) = {}
         late == {r.resource : r \in {q \in refs : \E v \in GetValue(q.begin) : v # 0}}
     IN info' = ReportIf([info EXCEPT !.resources = [n \in DOMAIN @ |->
                            IF n \in late THEN [@[n] EXCEPT !.simple = FALSE] ELSE @[n]]],
                         info.errors = {} /\ open, "resource cycles")
  /\ phase' = IF info'.errors = {} THEN "emit" ELSE "failed"
  /\ todo' = IF info'.errors = {} THEN order ELSE <<>>
  /\ UNCHANGED <<desc, frames, decls, order, setters, code>>

GenerateClassDefinition ==
  /\ phase = "emit" /\ todo # <<>>
  /\ LET slot == info.slots[todo[1]]
         emit(r) == setters' = r.setters /\ code' = Put(code, slot.name, r.table)
     IN IF slot.referenced THEN emit(CreateFuncGetterGlobalArray(slot, setters, info.resources))
                           ELSE UNCHANGED <<setters, code>>
  /\ todo' = Tail(todo)
  /\ UNCHANGED <<desc, phase, frames, decls, info, order>>

EncodersAsDeclared(i) ==
  [k \in DOMAIN i.opcodes |-> [name |-> i.opcodes[k], operands |-> GenerateOperandEncoder(i.insts[i.opcodes[k]])]]

\* encode_fcns: the functions in the order of the opcodes' names, behind the
\* one for no opcode.
GenerateEncClasses(i) ==
  LET names == Names(DOMAIN i.insts)
  IN [k \in DOMAIN names |-> [name |-> names[k], operands |-> GenerateOperandEncoder(i.insts[names[k]])]]

TopPartsOfUsedSlots(i) ==
  UNION {{i.slots[s].insts[n].parts[1] : n \in DOMAIN i.slots[s].insts}
         : s \in {t \in DOMAIN i.slots : i.slots[t].referenced}}

\* The names in the enumerations of operands and resources: operands of all
\* parts of the instructions of the slots in use.
PartsOfUsedSlots(i) ==
  UNION {UNION {Range(i.slots[s].insts[n].parts) : n \in DOMAIN i.slots[s].insts}
         : s \in {t \in DOMAIN i.slots : i.slots[t].referenced}}
OperandEnums(parts) ==
  LET sources(array) == {o.name : o \in {x \in UNION {Range(p.sources) : p \in parts} : x.array = array}}
      dests(array) == {o.name : o \in {x \in UNION {Range(p.dests) : p \in parts} : x.array = array}}
  IN [PredOp |-> {p.pred : p \in parts} \ {NoName},
      SourceOp |-> sources(FALSE), ListSourceOp |-> sources(TRUE),
      DestOp |-> dests(FALSE), ListDestOp |-> dests(TRUE)]
ResourceEnums(i) ==
  LET complex(array) == {n \in DOMAIN i.resources : ~i.resources[n].simple /\ i.resources[n].array = array}
  IN [SimpleResource |-> {n \in DOMAIN i.resources : i.resources[n].simple},
      ComplexResource |-> complex(FALSE), ListComplexResource |-> complex(TRUE)]
GenerateEnums(i) == Merged(OperandEnums(PartsOfUsedSlots(i)), ResourceEnums(i))

\* Matchers look up the locator of each operand they capture.
GenerateEncoder ==
  /\ phase = "emit" /\ todo = <<>>
  /\ phase' = IF \A s \in DOMAIN code : \A n \in DOMAIN info.slots[s].insts : LocatorsFound(info.slots[s].insts[n])
                THEN "emitted" ELSE "aborted"
  /\ UNCHANGED <<desc, frames, decls, info, todo, order, setters, code>>

Done == phase \in {"emitted", "failed", "aborted"} /\ UNCHANGED vars

Next == \/ VisitTopLevel \/ ReadSource \/ VisitIncludeFile \/ EndOfFile
        \/ ProcessTopLevel \/ VisitIsaDeclaration \/ PerformBundleReferenceChecks
        \/ ComputeSlotAndBundleOrders \/ AnalyzeResourceUse \/ GenerateClassDefinition
        \/ GenerateEncoder \/ Done

Spec == Init /\ [][Next]_vars

-----------------------------------------------------------------------------
(* What a description means: the values of names in a slot whose template  *)
(* parameters have values, without any substitution.                       *)

RECURSIVE Denotes(_, _)
Denotes(names, e) ==
  CASE e.kind = "const" -> {e.value}
    [] e.kind = "ident" -> IF e.name \in DOMAIN names THEN names[e.name] ELSE {}
    [] e.kind = "neg" -> {-v : v \in Denotes(names, e.args[1])}
    [] e.kind = "abs" -> {IF v < 0 THEN -v ELSE v : v \in Denotes(names, e.args[1])}
    [] OTHER -> UNION {UNION {BinaryOperator(e.kind, a, b) : b \in Denotes(names, e.args[2])}
                       : a \in Denotes(names, e.args[1])}

Globals == [n \in DOMAIN info.consts |-> GetValue(info.consts[n])]

\* Names of a slot's own declarations; env gives the values of its formals.
SlotNames(d, env) ==
  LET formals == [n \in Range(d.formals) |-> env[CHOOSE k \in DOMAIN d.formals : d.formals[k] = n]]
      consts == SelectSeq(d.decls, LAMBDA x : x.kind = "const")
      all == FoldLeft(LAMBDA m, x : Put(m, x.name, Denotes(m, x.expr)), Merged(Globals, formals), consts)
  IN [all |-> all, own |-> [n \in DOMAIN formals \cup {x.name : x \in Range(consts)} |-> all[n]]]

Specs(d) ==
  LET expand(x) == IF x.kind = "generate" THEN ProcessOpcodeGenerator(NoInfo, x).specs ELSE <<x>>
  IN FlattenSeq([k \in DOMAIN d.opcodes |-> expand(d.opcodes[k])])
SpecsOf(d, kind) == {x \in Range(Specs(d)) : x.kind = kind}

RECURSIVE OpcodesOf(_)
OpcodesOf(sname) ==
  LET d == decls.slots[sname]
  IN {x.name : x \in SpecsOf(d, "new")}
     \cup (UNION {OpcodesOf(b.name) : b \in Range(d.bases)} \ {x.name : x \in SpecsOf(d, "deleted")})

\* The attribute of a kind, if the specification has it.
Given(spec, kind) == {x \in Range(spec.attributes) : x.kind = kind}

\* What a specification says on top of what is known of an instruction.
WithAttributes(r, d, own, spec) ==
  LET dests == FoldLeft(LAMBDA m, x : PutNew(m, x.name, x.value), NoFunction, FlattenSeq(r.dests))
      names == Merged(dests, own)
      list(x) == [n \in {a.name : a \in Range(x.list)} |->
                    LET a == CHOOSE b \in Range(x.list) : b.name = n
                    IN IF a.expr = NoExpr THEN {0} ELSE Denotes(names, a.expr)]
      scope == Scope([formals |-> d.formals, consts |-> own], TRUE, dests, NoFunction)
      op(item) == ({item.name} \cap DOMAIN dests) \cup FindDestinationOps(scope, item.begin)
      cycles(item) ==
        [name |-> item.name, array |-> item.array,
         begin |-> IF item.begin = NoExpr THEN {0} ELSE Denotes(names, item.begin),
         end |-> IF item.end # NoExpr THEN Denotes(names, item.end)
                 ELSE IF \E n \in op(item) : dests[n] # {} THEN UNION {dests[n] : n \in op(item)} ELSE {0}]
      details(x) == IF x.details.name = NoName THEN x.details
                    ELSE (CHOOSE y \in Range(d.decls) : y.kind = "resources" /\ y.name = x.details.name).details
      acquired(x) == details(x).acquire \o details(x).hold
      \* What is acquired is used as well, unless it is said to be.
      used(x) == details(x).use \o SelectSeq(details(x).acquire, LAMBDA i :
                                              \A u \in Range(details(x).use) : u.name # i.name)
      all(items) == {cycles(i) : i \in Range(items)}
  IN [r EXCEPT
        !.semfuncs = IF Given(spec, "semfunc") = {} THEN @ ELSE The(Given(spec, "semfunc")).codes,
        !.attrs = IF Given(spec, "attributes") = {} THEN @ ELSE list(The(Given(spec, "attributes"))),
        !.use = IF Given(spec, "resources") = {} THEN @ ELSE all(used(The(Given(spec, "resources")))),
        !.acquire = IF Given(spec, "resources") = {} THEN @ ELSE all(acquired(The(Given(spec, "resources"))))]

Fresh(d, env, spec) ==
  LET names == SlotNames(d, env)
      lats  == SelectSeq(d.decls, LAMBDA x : x.kind = "latency")
      sizes == SelectSeq(d.decls, LAMBDA x : x.kind = "size")
      lists == SelectSeq(d.decls, LAMBDA x : x.kind = "attributes")
      value(known, o) ==
        CASE o.how = "wildcard" -> {}
          [] o.how = "default" -> IF lats = <<>> THEN {1} ELSE Denotes(names.all, Last(lats).expr)
          [] o.how = "expr" -> Denotes(Merged(known, names.own), o.expr)
      dests(part) == FoldLeft(LAMBDA a, o :
                       LET v == value(a.known, o)
                       IN [known |-> PutNew(a.known, o.name, v), list |-> Append(a.list, [name |-> o.name, value |-> v])],
                       [known |-> NoFunction, list |-> <<>>], part.dests).list
      attrs == FoldLeft(LAMBDA m, a : PutNew(m, a.name, IF a.expr = NoExpr THEN {0} ELSE Denotes(names.all, a.expr)),
                        NoFunction, FlattenSeq([k \in DOMAIN lists |-> lists[k].list]))
  IN WithAttributes(
       [size |-> IF spec.size # 0 THEN spec.size ELSE IF sizes = <<>> THEN 1 ELSE Last(sizes).value,
        sources |-> [p \in DOMAIN spec.parts |-> spec.parts[p].sources],
        dests |-> [p \in DOMAIN spec.parts |-> dests(spec.parts[p])],
        semfuncs |-> [p \in DOMAIN spec.parts |-> NoName], attrs |-> attrs,
        use |-> {}, acquire |-> {}],
       d, names.own, spec)

RECURSIVE Described(_, _, _)
Described(sname, env, op) ==
  LET d == decls.slots[sname]
      new == {x \in SpecsOf(d, "new") : x.name = op}
      over == {x \in SpecsOf(d, "overridden") : x.name = op}
      from == The({b \in Range(d.bases) : op \in OpcodesOf(b.name)})
      names == SlotNames(d, env)
      below == Described(from.name, [k \in DOMAIN from.args |-> Denotes(names.all, from.args[k])], op)
  IN IF new # {} THEN Fresh(d, env, The(new))
     ELSE IF over = {} THEN below ELSE WithAttributes(below, d, names.own, The(over))

Seen(v) == IF v.known THEN {v.value} ELSE {}

OperandsFit(row, want) ==
  /\ row.size = want.size
  /\ Len(row.operands) = Len(want.dests)
  /\ \A p \in DOMAIN want.dests :
       /\ [k \in DOMAIN row.operands[p].sources |-> row.operands[p].sources[k].name]
            = [k \in DOMAIN want.sources[p] |-> want.sources[p][k].name]
       /\ [k \in DOMAIN row.operands[p].dests |->
             [name |-> row.operands[p].dests[k].name, value |-> Seen(row.operands[p].dests[k].lat)]]
            = want.dests[p]
       /\ want.semfuncs[p] \in {NoName, row.semfuncs[p]}

\* The row sets each attribute of the slot's AttributeEnum; one that the
\* description does not give, or that has no value, is 0.
AttributesFit(s, row, want) ==
  LET names == Names(info.slots[s].attrNames)
      value(n) == IF n \in DOMAIN want.attrs /\ want.attrs[n] # {} THEN The(want.attrs[n]) ELSE 0
  IN DOMAIN want.attrs \subseteq Range(names) /\ row.attribute = [k \in DOMAIN names |-> value(names[k])]

\* The row waits for the resources that are used and reserves the simple ones
\* that are acquired, until the cycle of each.
ResourcesFit(row, want) ==
  LET simple(items) == {i \in items : info.resources[i.name].simple}
      passed == {[name |-> c.enumerator[1], cycles |-> [k \in DOMAIN c.cycles |-> Seen(c.cycles[k])]]
                   : c \in {x \in row.resource.complexHold : x.enum = "ComplexResource"}}
      plain(items) == {[name |-> i.name, cycles |-> <<i.begin, i.end>>]
                         : i \in {x \in items \ simple(items) : ~x.array}}
  IN /\ row.resource.simpleHold = {i.name : i \in simple(want.use)}
     /\ {[name |-> a.name, end |-> Seen(a.end)] : a \in row.resource.acquire}
          = {[name |-> i.name, end |-> i.end] : i \in simple(want.acquire)}
     /\ plain(want.use) \subseteq passed
     /\ passed \subseteq plain(want.use) \cup plain(want.acquire)

\* What the slots in use describe, by slot and opcode.
AllDescribed == [s \in DOMAIN code |-> [op \in DOMAIN code[s] |-> Described(s, <<>>, op)]]

\* Two slots in use have as many attributes, but not the same ones: their
\* instructions may share an attribute setter, which sets by position.
AttributesMixed(s) ==
  \E r \in DOMAIN code : /\ info.slots[r].attrNames # info.slots[s].attrNames
                          /\ Cardinality(info.slots[r].attrNames) = Cardinality(info.slots[s].attrNames)
\* Another instruction acquires the same resources until other cycles: the
\* two may share a resource setter.
CyclesMixed(all, want) ==
  \E s \in DOMAIN all : \E op \in DOMAIN all[s] :
     /\ all[s][op].acquire # want.acquire
     /\ {i.name : i \in all[s][op].acquire} = {i.name : i \in want.acquire}

\* What the row of an opcode in a slot's table does is what the description
\* says: the slot has the opcodes of its bases that it does not delete, and
\* its own; latencies, cycles and attributes have the values that the
\* template arguments give them along the whole chain of bases; what a slot
\* overrides replaces what it inherits, and nothing else; the setters, which
\* instructions of all slots share, fit each of them.  (Attribute setters
\* fit unless slots have as many attributes of other names, and resource
\* setters unless instructions differ in nothing but the cycles.)
GeneratedAsDescribed ==
  phase = "emitted" =>
    LET all == AllDescribed
    IN \A s \in DOMAIN code :
         /\ DOMAIN code[s] = OpcodesOf(s)
         /\ \A op \in DOMAIN code[s] :
              /\ OperandsFit(code[s][op], all[s][op])
              /\ AttributesMixed(s) \/ AttributesFit(s, code[s][op], all[s][op])
              /\ CyclesMixed(all, all[s][op]) \/ ResourcesFit(code[s][op], all[s][op])

\* The key of a resource setter is unique (slot.cc:817): each instruction
\* reserves what its description says until the cycle that it says.  The
\* code breaks it: the key has no cycles of simple resources (slot.cc:834).
CyclesAsDescribed ==
  phase = "emitted" =>
    LET all == AllDescribed
    IN \A s \in DOMAIN code : \A op \in DOMAIN code[s] : ResourcesFit(code[s][op], all[s][op])

\* The key of an attribute setter is unique (slot.cc:229): each instruction
\* has the attributes of its description, in the order of its slot's
\* AttributeEnum.  The code breaks it: of the other attributes of the slot
\* the key has the number only (slot.cc:250).
AttributesAsDescribed ==
  phase = "emitted" =>
    LET all == AllDescribed
    IN \A s \in DOMAIN code : \A op \in DOMAIN code[s] : AttributesFit(s, code[s][op], all[s][op])

\* If the opcodes' names are in the same order in snake and in Pascal case,
\* the matcher of a slot reaches the encode function of the opcode that it
\* matched, and passes as many operands as the function takes, in its order
\* (unless the slot overrides the format).
EncoderFits ==
  phase = "emitted" =>
    LET opcodes == Range(info.opcodes)
        alike == \A k, j \in DOMAIN NameOrder :
                   k < j /\ {NameOrder[k], NameOrder[j]} \subseteq opcodes
                     => PascalRank[NameOrder[k]] < PascalRank[NameOrder[j]]
        fcns == GenerateEncClasses(info)
    IN alike => \A s \in DOMAIN code : \A op \in DOMAIN code[s] :
         LET inst == info.slots[s].insts[op]
             fcn  == fcns[OpcodeEnum(opcodes, op)]
         IN /\ fcn.name = op
            /\ inst.disasm = info.insts[op].disasm =>
                 [k \in DOMAIN fcn.operands |-> fcn.operands[k].op] = GenerateRegEx(inst)

\* The references to resources in the slots' declarations.
ResourceItems ==
  LET lists(x) == Range(x.details.use \o x.details.acquire \o x.details.hold)
      given(d) == {x \in Range(d.decls) : x.kind = "resources"}
                  \cup UNION {Given(o, "resources") : o \in Range(Specs(d))}
  IN UNION {UNION {lists(x) : x \in given(decls.slots[s])} : s \in DOMAIN decls.slots}

\* Each enumerator that the generated setters name is declared: those of the
\* operands of all parts of an instruction and, if no resource is called an
\* array by one instruction and a single resource by another, those of
\* simple and of complex resources.  (Those of lists: ListNamesDeclared.)
NamesDeclared ==
  phase = "emitted" =>
    LET enums == GenerateEnums(info)
        used(part) == /\ part.pred \in enums.PredOp \cup {NoName}
                      /\ \A o \in Range(part.sources) :
                           o.name \in IF o.array THEN enums.ListSourceOp ELSE enums.SourceOp
                      /\ \A o \in Range(part.dests) :
                           o.name \in IF o.array THEN enums.ListDestOp ELSE enums.DestOp
        mixed == \E x, y \in ResourceItems : x.name = y.name /\ x.array # y.array
    IN \A s \in DOMAIN code : \A op \in DOMAIN code[s] :
         /\ \A p \in Range(code[s][op].operands) : used(p)
         /\ LET r == code[s][op].resource
            IN /\ r.simpleHold \cup {a.name : a \in r.acquire} \subseteq enums.SimpleResource
               /\ mixed \/ \A c \in r.complexHold :
                    c.enum = "ComplexResource" => c.enumerator[1] \in enums.ComplexResource

\* The enumerators of lists of complex resources are those of the "List
\* complex resource enumeration type" (instruction_set.cc:723).  The code
\* breaks it: the begin cycle is printed right behind the name (slot.cc:977).
ListNamesDeclared ==
  phase = "emitted" =>
    \A s \in DOMAIN code : \A op \in DOMAIN code[s] : \A c \in code[s][op].resource.complexHold :
      c.enum = "ListComplexResource" => c.enumerator \in {<<n>> : n \in GenerateEnums(info).ListComplexResource}
=============================================================================
