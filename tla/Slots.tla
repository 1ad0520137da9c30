-------------------------------- MODULE Slots --------------------------------
(***************************************************************************)
(* Instructions and the slots that hold them: how an instruction is        *)
(* derived from one of a base slot, and the code that is generated for a   *)
(* slot.  Setter functions are shared: a map, common to all slots, leads   *)
(* from a key to the function that was made for the first instruction with *)
(* that key.                                                               *)
(***************************************************************************)
EXTENDS TemplateExpressions

CONSTANTS NameOrder,    \* all names in lexicographic order
          PascalRank    \* the rank of a name among all in Pascal case

Names(S) == SelectSeq(NameOrder, LAMBDA n : n \in S)
Merged(f, g) == [x \in DOMAIN f \cup DOMAIN g |-> IF x \in DOMAIN g THEN g[x] ELSE f[x]]

-----------------------------------------------------------------------------
(* Instructions: the instruction proper is the first part, the child       *)
(* instructions are the others.                                            *)

NewPart(attrs) == [pred |-> NoName, sources |-> <<>>, dests |-> <<>>, attrs |-> attrs, semfunc |-> NoName]
NewInstruction(name, size) ==
  [name |-> name, size |-> size, locators |-> NoFunction, parts |-> <<>>, use |-> <<>>,
   acquire |-> <<>>, disasm |-> <<>>]
DefaultInstruction == [NewInstruction(NoName, 1) EXCEPT !.parts = <<NewPart(NoFunction)>>]

\* The latencies of the destination operands; of one name the first counts.
GetDestOp(parts) ==
  FoldLeft(LAMBDA m, d : PutNew(m, d.name, d.lat), NoFunction,
           FlattenSeq([k \in DOMAIN parts |-> parts[k].dests]))

AddInstructionAttribute(inst, attrs) ==
  [inst EXCEPT !.parts = [k \in DOMAIN @ |-> [@[k] EXCEPT !.attrs = Merged(@, attrs)]]]
ClearDisasmFormat(inst) == [inst EXCEPT !.disasm = <<>>]
ClearSemfuncCodeString(inst) == [inst EXCEPT !.parts[1].semfunc = NoName]
ClearResourceSpecs(inst) == [inst EXCEPT !.use = <<>>, !.acquire = <<>>]
ClearAttributeSpecs(inst) == [inst EXCEPT !.parts[1].attrs = NoFunction]

ValidateDestLatencies(inst) ==
  \A d \in Range(inst.parts[1].dests) : d.lat = NoExpr \/ \E v \in GetValue(d.lat) : v >= 0

CreateDerivedOpcode(part, args) ==
  LET lats == EvaluateAll([k \in DOMAIN part.dests |-> part.dests[k].lat], args)
  IN {[part EXCEPT !.dests = [k \in DOMAIN @ |-> [@[k] EXCEPT !.lat = l[k]]]] : l \in lats}

CreateDerivedResourceRef(ref, args) ==
  {[ref EXCEPT !.begin = b, !.end = e] : b \in Evaluate(ref.begin, args), e \in Evaluate(ref.end, args)}

\* Everything that may depend on the template's parameters is evaluated.
CreateDerivedInstruction(inst, args) ==
  LET all(rs) == IF \A k \in DOMAIN rs : rs[k] # {} THEN {[k \in DOMAIN rs |-> The(rs[k])]} ELSE {}
      attrs(p) == IF \A n \in DOMAIN p.attrs : Evaluate(p.attrs[n], args) # {}
                    THEN {[n \in DOMAIN p.attrs |-> The(Evaluate(p.attrs[n], args))]} ELSE {}
      parts == all([k \in DOMAIN inst.parts |->
                      {[p EXCEPT !.attrs = a] : p \in CreateDerivedOpcode(inst.parts[k], args),
                                                a \in attrs(inst.parts[k])}])
      refs(rs) == all([k \in DOMAIN rs |-> CreateDerivedResourceRef(rs[k], args)])
  IN {[inst EXCEPT !.parts = ps, !.use = us, !.acquire = as] :
        ps \in parts, us \in refs(inst.use), as \in refs(inst.acquire)}

-----------------------------------------------------------------------------
(* Slots.                                                                  *)

NewSlot(d) ==
  [name |-> d.name, templated |-> d.templated, formals |-> d.formals, bases |-> <<>>, size |-> 1,
   opsize |-> 1, latency |-> NoExpr, default |-> <<>>, consts |-> NoFunction, specs |-> NoFunction,
   attrs |-> NoFunction, attrNames |-> {}, insts |-> NoFunction, referenced |-> FALSE]

\* Inheritance has the form of a tree: no slot is reached along two ways.
RECURSIVE CheckPredecessors(_, _, _)
CheckPredecessors(preds, slot, base) ==
  /\ base \notin preds[slot]
  /\ \A p \in preds[slot] : CheckPredecessors(preds, p, base)
  /\ \A q \in preds[base] : CheckPredecessors(preds, slot, q)

\* These two return the slot and whether it could be done.
AppendInstruction(slot, inst) ==
  IF (slot.templated \/ ValidateDestLatencies(inst)) /\ inst.name \notin DOMAIN slot.insts
    THEN [slot |-> [slot EXCEPT !.insts = Put(@, inst.name, inst)], ok |-> TRUE]
    ELSE [slot |-> slot, ok |-> FALSE]

AppendInheritedInstruction(slot, inst, args) ==
  LET derived == CreateDerivedInstruction(inst, args)
      names == UNION {DOMAIN p.attrs : p \in Range(inst.parts)}
  IN IF inst.name \in DOMAIN slot.insts \/ derived = {} THEN [slot |-> slot, ok |-> FALSE]
     ELSE AppendInstruction([slot EXCEPT !.attrNames = @ \cup names], The(derived))

-----------------------------------------------------------------------------
(* Generated code.                                                         *)

NoLatency == [known |-> FALSE, value |-> 0]
Latency(d) == IF GetValue(d.lat) = {} THEN NoLatency
              ELSE [known |-> TRUE, value |-> The(GetValue(d.lat))]

CreateOperandLookupKey(part) ==
  [pred |-> part.pred,
   sources |-> [k \in DOMAIN part.sources |-> <<part.sources[k].name, part.sources[k].array>>],
   dests |-> [k \in DOMAIN part.dests |->
                [name |-> part.dests[k].name, array |-> part.dests[k].array, lat |-> Latency(part.dests[k])]]]

\* The calls that fetch the operands, with the operand numbers they pass: for
\* sources the number of earlier ones that are no arrays, for destinations
\* two for each earlier one that is no array and one for each array.
GenerateOperandSetterFcn(part) ==
  LET plain(ops, k) == Cardinality({j \in 1 .. k - 1 : ~ops[j].array})
  IN [pred |-> part.pred,
      sources |-> [k \in DOMAIN part.sources |->
                     [name |-> part.sources[k].name, array |-> part.sources[k].array,
                      no |-> plain(part.sources, k)]],
      dests |-> [k \in DOMAIN part.dests |->
                   [name |-> part.dests[k].name, array |-> part.dests[k].array,
                    lat |-> Latency(part.dests[k]), no |-> plain(part.dests, k) + k - 1]]]

\* What is printed: text, operands fetched by their locators, widths.
GenerateDisasmSetterFcn(inst) ==
  [k \in DOMAIN inst.disasm |->
     [text |-> inst.disasm[k].text, width |-> inst.disasm[k].width,
      infos |-> [j \in DOMAIN inst.disasm[k].infos |->
                   [info |-> inst.disasm[k].infos[j],
                    at |-> {inst.locators[n] : n \in {inst.disasm[k].infos[j].op} \cap DOMAIN inst.locators}]]]]
GenerateDisassemblySetter(inst) ==
  <<FlattenSeq([k \in DOMAIN inst.disasm |-> inst.disasm[k].text]), CreateOperandLookupKey(inst.parts[1])>>

\* Of a simple resource the key has the name only.
CreateResourceKey(resources, refs) ==
  {IF resources[r.resource].simple
     THEN [name |-> r.resource, array |-> r.array, simple |-> TRUE, begin |-> NoLatency, end |-> NoLatency]
     ELSE [name |-> r.resource, array |-> r.array, simple |-> FALSE,
           begin |-> Latency([lat |-> r.begin]), end |-> Latency([lat |-> r.end])] : r \in Range(refs)}
GenerateResourceSetter(resources, inst) ==
  <<CreateResourceKey(resources, inst.use), CreateResourceKey(resources, inst.acquire)>>

\* Complex resources to acquire are appended to those that are to be free.
\* That of a list is printed with its begin cycle behind the name and no
\* comma in between: one enumerator and one cycle are passed.
ComplexOperand(r) ==
  LET begin == Latency([lat |-> r.begin])
      end   == Latency([lat |-> r.end])
  IN IF r.array THEN [enum |-> "ListComplexResource", enumerator |-> <<r.resource, begin>>, cycles |-> <<end>>]
                ELSE [enum |-> "ComplexResource", enumerator |-> <<r.resource>>, cycles |-> <<begin, end>>]
GenerateResourceSetterFcn(resources, inst) ==
  LET simple(refs) == {r \in Range(refs) : resources[r.resource].simple}
      complex(refs) == {ComplexOperand(r) : r \in Range(refs) \ simple(refs)}
  IN [opcode |-> inst.name,
      simpleHold |-> {r.resource : r \in simple(inst.use)},
      complexHold |-> complex(inst.use) \cup complex(inst.acquire),
      acquire |-> {[name |-> r.resource, end |-> Latency([lat |-> r.end])] : r \in simple(inst.acquire)}]

\* The values in the order of the slot's attribute names.  The key has those
\* of the instruction, and how many of the slot's names it does not have.
AttributeValues(attrs) == [n \in DOMAIN attrs |-> Latency([lat |-> attrs[n]])]
CreateAttributeLookupKey(slot, inst) ==
  LET n == Cardinality(slot.attrNames) - Cardinality(DOMAIN inst.parts[1].attrs)
  IN [values |-> AttributeValues(inst.parts[1].attrs), missing |-> IF n < 0 THEN 0 ELSE n]
GenerateAttributeSetterFcn(slot, inst) ==
  LET names == Names(slot.attrNames)
      values == AttributeValues(inst.parts[1].attrs)
  IN [k \in DOMAIN names |-> IF names[k] \in DOMAIN values THEN values[names[k]].value ELSE 0]

NoSetters == [operand |-> NoFunction, disasm |-> NoFunction, resource |-> NoFunction, attribute |-> NoFunction]

\* The functions of an instruction that no earlier one has made.
AddSetters(setters, slot, resources, inst) ==
  [operand |-> FoldLeft(LAMBDA m, p : PutNew(m, CreateOperandLookupKey(p), GenerateOperandSetterFcn(p)),
                        setters.operand, inst.parts),
   disasm |-> PutNew(setters.disasm, GenerateDisassemblySetter(inst), GenerateDisasmSetterFcn(inst)),
   resource |-> PutNew(setters.resource, GenerateResourceSetter(resources, inst),
                       GenerateResourceSetterFcn(resources, inst)),
   attribute |-> PutNew(setters.attribute, CreateAttributeLookupKey(slot, inst),
                        GenerateAttributeSetterFcn(slot, inst))]

\* The entry of an instruction in the table of its slot.
InstructionInfo(setters, slot, resources, inst) ==
  LET semfunc(p) == IF p.semfunc = NoName THEN slot.default[1].parts[1].semfunc ELSE p.semfunc
  IN [operands |-> [k \in DOMAIN inst.parts |-> setters.operand[CreateOperandLookupKey(inst.parts[k])]],
      disasm |-> setters.disasm[GenerateDisassemblySetter(inst)],
      resource |-> setters.resource[GenerateResourceSetter(resources, inst)],
      attribute |-> setters.attribute[CreateAttributeLookupKey(slot, inst)],
      semfuncs |-> [k \in DOMAIN inst.parts |-> semfunc(inst.parts[k])],
      size |-> inst.size]

\* The default instruction comes first, then all others by name.
CreateFuncGetterGlobalArray(slot, setters, resources) ==
  LET order == <<slot.default[1]>> \o
               [k \in 1 .. Cardinality(DOMAIN slot.insts) |-> slot.insts[Names(DOMAIN slot.insts)[k]]]
      added == FoldLeft(LAMBDA s, inst : AddSetters(s, slot, resources, inst), setters, order)
  IN [setters |-> added,
      table |-> [n \in DOMAIN slot.insts |-> InstructionInfo(added, slot, resources, slot.insts[n])]]

\* The operands that the pattern of an instruction captures, and those that
\* its encode function takes.
GenerateRegEx(inst) ==
  FlattenSeq([k \in DOMAIN inst.disasm |->
                [j \in DOMAIN inst.disasm[k].infos |-> inst.disasm[k].infos[j].op]])
GenerateOperandEncoder(inst) ==
  LET ops == SelectSeq(GenerateRegEx(inst), LAMBDA n : n \in DOMAIN inst.locators)
  IN [k \in DOMAIN ops |-> [op |-> ops[k], at |-> inst.locators[ops[k]]]]

\* An address has no locator, and an operand that is shifted was not looked
\* up when the format was parsed.
LocatorsFound(inst) == \A k \in DOMAIN GenerateRegEx(inst) : GenerateRegEx(inst)[k] \in DOMAIN inst.locators

\* OpcodeEnum is in the order of the names in Pascal case; names that are the
\* same in Pascal case share a value.
OpcodeEnum(opcodes, name) == Cardinality({PascalRank[n] : n \in {m \in opcodes : PascalRank[m] <= PascalRank[name]}})
=============================================================================
