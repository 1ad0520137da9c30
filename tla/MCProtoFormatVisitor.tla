------------------------- MODULE MCProtoFormatVisitor -------------------------
(* An instruction message with an enum, integers, a plain sub message and a   *)
(* one-of, one member of which has a one-of of its own; every decoder with up *)
(* to MaxInstructions of a pool of instructions, and descriptions with errors.*)
EXTENDS ProtoFormatVisitor

CONSTANT MaxInstructions

MCNameOrder == <<"B", "E", "Inst", "R", "U", "big", "btype", "ext", "flag", "format", "imm", "k", "n", "opcode", "r", "rd",
                 "s1", "s2", "s3", "tail", "utype", "width">>

Field(message, name, index, type) ==
  [message |-> message, name |-> name, index |-> index, type |-> type, sub |-> <<>>, oneof |-> NoName, place |-> 0, values |-> {}]
Sub(f, sub) == [f EXCEPT !.type = "message", !.sub = sub]
In(f, oneof, place) == [f EXCEPT !.oneof = oneof, !.place = place]
Opcodes == {[name |-> "ADD", number |-> 1], [name |-> "BEQ", number |-> 2], [name |-> "MUL", number |-> 6]}

MCMessages ==
  (<<"p", "Inst">> :> [fields |-> {[Field("Inst", "opcode", 0, "enum") EXCEPT !.values = Opcodes],
      Field("Inst", "width", 1, "int32"), Field("Inst", "big", 2, "int64"), Field("Inst", "flag", 3, "bool"),
      Sub(Field("Inst", "ext", 4, "message"), <<"p", "E">>),
      In(Sub(Field("Inst", "utype", 5, "message"), <<"p", "U">>), "format", 0),
      In(Sub(Field("Inst", "btype", 6, "message"), <<"p", "B">>), "format", 1),
      In(Field("Inst", "imm", 7, "uint32"), "format", 2)}]) @@
  (<<"p", "E">> :> [fields |-> {Field("E", "opcode", 0, "int32")}]) @@
  (<<"p", "U">> :> [fields |-> {Field("U", "rd", 0, "int32")}]) @@
  (<<"p", "B">> :> [fields |-> {In(Sub(Field("B", "r", 0, "message"), <<"p", "R">>), "tail", 0),
                               In(Field("B", "k", 1, "int32"), "tail", 1)}]) @@
  (<<"p", "R">> :> [fields |-> {Field("R", "n", 0, "uint32")}])

\* Messages: what is set in the one-ofs, and the values that differ from 0.
Paths == {<<"opcode">>, <<"width">>, <<"big">>, <<"flag">>, <<"imm">>, <<"ext", "opcode">>, <<"utype", "rd">>,
          <<"btype", "k">>, <<"btype", "r", "n">>}
Value(some) == [p \in Paths |-> IF p \in DOMAIN some THEN some[p] ELSE 0]
Shapes == {[set |-> {}, value |-> <<"flag">> :> 1 @@ <<"ext", "opcode">> :> 2],
           [set |-> {<<"utype">>}, value |-> <<"utype", "rd">> :> 3 @@ <<"ext", "opcode">> :> 2], [set |-> {<<"utype">>}, value |-> <<"big">> :> 17],
           [set |-> {<<"btype">>, <<"btype", "k">>}, value |-> <<"flag">> :> 1],
           [set |-> {<<"btype">>, <<"btype", "r">>}, value |-> <<"btype", "r", "n">> :> 2],
           [set |-> {<<"imm">>}, value |-> <<"big">> :> 1 @@ <<"ext", "opcode">> :> 2]}
MCMessageValues == {[set |-> s.set, value |-> Value(s.value @@ (<<"opcode">> :> o) @@ (<<"width">> :> w))] :
                      s \in Shapes, o \in {0, 1, 2, 6}, w \in {0, 1, 5}}

Number(v) == [kind |-> "number", suffix |-> FALSE, value |-> v]
Enum(n) == [kind |-> "ident", name |-> n, value |-> 0]
If(path, op, expr) == [path |-> path, op |-> op, expr |-> expr]
Having(path) == If(path, "has", Number(0))
Opcode(n) == If(<<"opcode">>, "==", Enum(n))
Width(op, v) == If(<<"width">>, op, Number(v))
Set(name, path) == [name |-> name, path |-> path, ifNot |-> FALSE]
Inst(name, constraints, refs, setters) ==
  [name |-> name, generate |-> FALSE, constraints |-> constraints, refs |-> refs, setters |-> setters]

Pool == {
  Inst("add", <<Opcode("ADD"), Having(<<"utype">>)>>, <<>>, <<Set("s1", <<"utype", "rd">>)>>),
  Inst("beq", <<Opcode("BEQ"), Having(<<"btype">>)>>, <<>>, <<Set("s3", <<"width">>)>>),
  Inst("mul", <<Opcode("MUL"), Width("==", 1)>>, <<"tail">>, <<>>),
  Inst("half", <<Opcode("ADD"), Width("!=", 1)>>, <<>>, <<>>),
  Inst("wide", <<Width(">", 1), If(<<"ext", "opcode">>, "==", Number(2))>>, <<>>, <<Set("s1", <<"utype", "rd">>), Set("s2", <<"imm">>)>>),
  Inst("five", <<Width("==", 5), Having(<<"utype">>)>>, <<>>, <<>>),
  Inst("reg", <<If(<<"btype", "r", "n">>, "==", Number(2))>>, <<>>, <<Set("s1", <<"btype", "r", "n">>)>>),
  Inst("three", <<If(<<"utype", "rd">>, "==", Number(3)), Width("==", 1)>>, <<>>, <<>>),
  Inst("never", <<Opcode("ADD"), Opcode("BEQ")>>, <<>>, <<>>),
  Inst("far", <<If(<<"big">>, "==", Number(17)), Width("<=", 1)>>, <<>>, <<>>),
  Inst("flagged", <<If(<<"flag">>, "==", [kind |-> "bool", value |-> 1]), Width("==", 0)>>, <<>>, <<>>),
  Inst("some", <<Width(">=", 1), Width("<", 5)>>, <<>>, <<>>) }

TailSetters == [name |-> "tail", setters |-> <<Set("s2", <<"btype", "k">>), Set("s1", <<"imm">>)>>]
TailOnly == [name |-> "tail", setters |-> <<Set("s2", <<"btype", "k">>)>>]

Group(name, insts) == [name |-> name, message |-> <<"Inst">>, setterGroups |-> <<TailOnly>>, insts |-> insts]
Listed(name, children) == [name |-> name, children |-> children]
Using(alias, of) == [name |-> alias, of |-> of]
Decoder(groups) == [name |-> "dec", opcodeEnums |-> <<"OpcodeEnum">>, namespaces |-> 1, groups |-> groups]
File(groups, listed) == [usings |-> <<Using("Inst", <<"p", "Inst">>)>>, groups |-> groups,
                         decoders |-> <<Decoder(listed)>>, includes |-> <<>>]
Description(file) == [imported |-> TRUE, messages |-> MCMessages, main |-> file, sources |-> <<>>, decoder |-> "dec"]
One(insts) == Description(File(<<Group("g", insts)>>, <<Listed("g", <<>>)>>))
Chosen == {s \in UNION {[1..n -> Pool] : n \in 1..MaxInstructions} : IsInjective(s)}

\* Descriptions in which something is wrong, or a group is combined.
Base == CHOOSE i \in Pool : i.name = "add"
Other == CHOOSE i \in Pool : i.name = "beq"
With(constraint) == One(<<Base, Inst("x", <<constraint>>, <<>>, <<>>)>>)
Setting(setters, refs) == One(<<Base, Inst("x", <<Opcode("BEQ"), Having(<<"btype">>)>>, refs, setters)>>)
Two(listed) == Description(File(<<Group("g", <<Base>>), Group("h", <<Other>>), [Group("u", <<Other>>) EXCEPT !.message = <<"p", "U">>],
                                  [Group("e", <<>>) EXCEPT !.message = <<"Nothing">>]>>, listed))
Generator(bindings, uses) == One(<<Base, [generate |-> TRUE, bindings |-> bindings, uses |-> uses, name |-> "gen"]>>)
Bind(names, tuples) == [names |-> names, tuples |-> tuples]

Errors == {
  [One(<<Base>>) EXCEPT !.imported = FALSE], [One(<<Base>>) EXCEPT !.decoder = "other"],
  [One(<<Base>>) EXCEPT !.main.includes = <<"file", "missing">>], [One(<<Base>>) EXCEPT !.sources = <<"file", "malformed">>],
  [One(<<Base>>) EXCEPT !.sources = <<"file">>], [One(<<Base>>) EXCEPT !.main.groups = @ \o @],
  [One(<<Base>>) EXCEPT !.main.usings = Append(@, Using("J", <<"Inst">>))],
  [One(<<Base>>) EXCEPT !.main.decoders[1].opcodeEnums = <<"">>], [One(<<Base>>) EXCEPT !.main.decoders[1].groups = <<>>],
  [One(<<Base>>) EXCEPT !.main.usings = <<>>], [One(<<Base>>) EXCEPT !.main.groups[1].setterGroups = <<TailSetters, TailOnly>>],
  With(If(<<"nothing">>, "==", Number(1))), With(If(<<"nothing", "rd">>, "==", Number(1))), With(If(<<"width", "rd">>, "==", Number(1))),
  With(Having(<<"width">>)), With(If(<<"width">>, "==", [Number(1) EXCEPT !.suffix = TRUE])), With(If(<<"width">>, "==", Enum("ADD"))),
  With(If(<<"width">>, "==", [kind |-> "bool", value |-> 1])), With(Having(<<"btype", "r">>)), With(Opcode("NOP")),
  One(<<Inst("x", <<Having(<<"utype">>), Having(<<"utype">>), If(<<"utype", "rd">>, ">", Number(1))>>, <<>>, <<>>)>>),
  One(<<Inst("x", <<Having(<<"utype">>), Having(<<"imm">>)>>, <<>>, <<>>)>>),
  Setting(<<Set("s1", <<"utype", "rd">>)>>, <<>>), Setting(<<>>, <<"none">>), Setting(<<Set("s2", <<"width">>)>>, <<"tail">>),
  Setting(<<Set("s1", <<"ext">>)>>, <<>>), Setting(<<Set("s1", <<"big">>), Set("s1", <<"flag">>)>>, <<>>),
  Setting(<<[Set("s3", <<"btype", "k">>) EXCEPT !.ifNot = TRUE]>>, <<>>), Setting(<<[Set("s3", <<"width">>) EXCEPT !.ifNot = TRUE]>>, <<>>),
  Setting(<<Set("s3", <<"nothing">>)>>, <<>>), Setting(<<Set("s3", <<"nothing", "k">>)>>, <<>>),
  Setting(<<Set("s2", <<"flag">>)>>, <<>>), Setting(<<Set("s1", <<"btype", "r", "n">>), Set("s3", <<"imm">>)>>, <<>>),
  Two(<<Listed("g", <<>>), Listed("h", <<>>), Listed("g", <<>>)>>), Two(<<Listed("i", <<>>)>>), Two(<<Listed("e", <<>>)>>),
  Two(<<Listed("p", <<"g", "h">>)>>), Two(<<Listed("p", <<"g", "h">>), Listed("g", <<>>)>>), Two(<<Listed("p", <<"g", "h">>), Listed("p", <<"h">>)>>),
  Two(<<Listed("p", <<"g", "h">>), Listed("q", <<"h">>)>>), Two(<<Listed("p", <<"g", "g">>)>>), Two(<<Listed("p", <<"g", "i", "h">>)>>),
  Two(<<Listed("p", <<"e", "g">>)>>), Two(<<Listed("p", <<"e">>)>>), Two(<<Listed("p", <<"g", "u">>)>>), Two(<<Listed("p", <<"u">>)>>),
  Two(<<Listed("g", <<>>), Listed("p", <<"h", "g">>)>>),
  Generator(<<Bind(<<"a", "b">>, {2})>>, {"a", "b"}), Generator(<<Bind(<<"a">>, {}), Bind(<<"a">>, {})>>, {"a"}),
  Generator(<<Bind(<<"a", "b">>, {2, 3})>>, {"a"}), Generator(<<Bind(<<"a">>, {})>>, {"b"}) }

MCDescriptions == {One(s) : s \in Chosen} \cup Errors
=============================================================================
