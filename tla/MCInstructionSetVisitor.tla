----------------------- MODULE MCInstructionSetVisitor -----------------------
(* Small instruction set descriptions.                                     *)
EXTENDS InstructionSetVisitor

CONSTANTS MaxOpcodes,     \* how many of the opcodes below a slot declares
          ArgValues       \* the values of template arguments

N(v) == TemplateConstant(v)
X(name) == Ident(name)
Op2(op, a, b) == Node(op, 0, <<a, b>>)
Fn(f, a) == Node(f, 0, <<a>>)

Src(name) == [name |-> name, array |-> FALSE, reloc |-> FALSE]
SrcA(name) == [Src(name) EXCEPT !.array = TRUE]
Dst(name, how, e) == [name |-> name, array |-> FALSE, reloc |-> FALSE, how |-> how, expr |-> e]
DstA(name) == [Dst(name, "default", NoExpr) EXCEPT !.array = TRUE]
Part(pred, sources, dests) == [pred |-> pred, sources |-> sources, dests |-> dests]

Show(text, ops) == [kind |-> "disasm", formats |-> <<
  [text |-> <<text>>, malformed |-> FALSE,
   infos |-> [k \in DOMAIN ops |-> [op |-> ops[k], shifted |-> FALSE, style |-> "d"]]]>>]
Does(codes) == [kind |-> "semfunc", codes |-> codes]
Has(list) == [kind |-> "attributes", list |-> list]
At(name, e) == [name |-> name, expr |-> e]
Ref(name, b, e) == [name |-> name, array |-> FALSE, begin |-> b, end |-> e]
RefA(name, b, e) == [Ref(name, b, e) EXCEPT !.array = TRUE]
Res(use, acquire, hold) ==
  [kind |-> "resources", details |-> [name |-> NoName, use |-> use, acquire |-> acquire, hold |-> hold]]
Named(name) == [Res(<<>>, <<>>, <<>>) EXCEPT !.details.name = name]

O(name, parts, attributes) ==
  [name |-> name, kind |-> "new", size |-> 0, parts |-> parts, attributes |-> attributes, pieces |-> <<>>,
   ranges |-> <<>>, specs |-> <<>>]
Del(name) == [O(name, <<>>, <<>>) EXCEPT !.kind = "deleted"]
Over(name, attributes) == [O(name, <<>>, attributes) EXCEPT !.kind = "overridden"]
Gen(ranges, specs) == [O(NoName, <<>>, <<>>) EXCEPT !.kind = "generate", !.ranges = ranges, !.specs = specs]

Decl(kind, name, e) == [kind |-> kind, name |-> name, expr |-> e]
Default == [kind |-> "opcode", attributes |-> <<Show("unknown", <<>>), Does(<<"Illegal">>)>>]
S(name, formals, bases, dds, opcodes) ==
  [name |-> name, templated |-> formals # <<>>, formals |-> formals, bases |-> bases, size |-> 1,
   decls |-> dds, opcodes |-> opcodes]
B(name, args) == [name |-> name, args |-> args]
Use(name) == [name |-> name, instances |-> <<>>]
Isa(bundles, slots) == [name |-> "isa", bundles |-> bundles, slots |-> slots]
File(slots, bundles, isas, consts, includes) ==
  [slots |-> slots, bundles |-> bundles, isas |-> isas, consts |-> consts, includes |-> includes, widths |-> <<>>]
Desc(files, sources) == [files |-> files, sources |-> sources, isa |-> "isa"]

\* A template of two parameters, and one that is derived from it with
\* expressions of its own parameter.
t == S("t", <<"p", "q">>, <<>>,
       <<Decl("const", "c", Op2("+", X("p"), Op2("*", X("q"), N(2)))), Decl("latency", NoName, X("q")),
         [kind |-> "attributes", list |-> <<At("late", Op2("-", X("p"), X("q"))), At("g", X("k"))>>]>>,
       <<O("add", <<Part(NoName, <<Src("rs")>>, <<Dst("rd", "expr", X("p"))>>)>>,
           <<Show("add", <<"rd", "rs">>), Does(<<"Add">>)>>),
         O("mul", <<Part("pr", <<Src("rs"), SrcA("rl")>>, <<Dst("rd", "expr", X("c")), Dst("fl", "wildcard", NoExpr)>>),
                    Part(NoName, <<Src("rc")>>, <<Dst("rt", "default", NoExpr)>>)>>,
           <<Show("mul", <<"rs", "rd">>), Does(<<"Mul", "MulChild">>), Has(<<At("a", Fn("abs", Op2("-", X("q"), N(3))))>>)>>)>>)
u == S("u", <<"r">>, <<B("t", <<Op2("+", X("r"), N(1)), Op2("*", X("r"), N(2))>>)>>,
       <<Decl("const", "p", Op2("*", X("r"), N(3)))>>,
       <<Over("add", <<Does(<<"AddU">>), Has(<<At("b", X("p"))>>)>>),
         O("sub", <<Part(NoName, <<Src("rs")>>, <<Dst("rd", "expr", X("r")), Dst("rt", "expr", Op2("+", X("rd"), N(1)))>>)>>,
           <<Show("sub", <<"rd", "rs">>)>>)>>)

Loads == Gen(<<[vars |-> <<"w">>, rows |-> <<<<"_b">>, <<"_h">>>>]>>,
             <<[O(NoName, <<Part(NoName, <<Src("rs")>>, <<Dst("rd", "default", NoExpr)>>)>>, <<Show("ld", <<"rd", "rs">>)>>)
                  EXCEPT !.pieces = <<[var |-> FALSE, text |-> "ld"], [var |-> TRUE, text |-> "w"]>>]>>)

\* What a slot that is not a template may declare on top of what it inherits.
Pool == <<
  Over("mul", <<Res(<<Ref("bus", NoExpr, NoExpr)>>, <<Ref("rd", NoExpr, NoExpr), Ref("port", N(1), X("rt"))>>, <<>>),
                Has(<<At("late", N(7))>>)>>),
  Del("mul"),
  Del("add"),
  Over("sub", <<Show("sub.v", <<"rs", "rd">>), Does(<<"SubV">>)>>),
  Loads,
  O("add1", <<Part(NoName, <<Src("rs")>>, <<Dst("rd", "expr", N(2))>>)>>,
    <<Show("add1", <<"rs", "rd">>), Named("res")>>),
  [O("zero", <<Part(NoName, <<Src("rs")>>, <<Dst("rd", "expr", N(2)), DstA("rl")>>)>>, <<Show("zero", <<>>)>>)
    EXCEPT !.size = 4] >>
Subsets == {ks \in SUBSET DOMAIN Pool : Cardinality(ks) <= MaxOpcodes}
Chosen(ks) == LET of(k) == IF k \in ks THEN <<Pool[k]>> ELSE <<>> IN FlattenSeq([k \in DOMAIN Pool |-> of(k)])

v(arg, ks) == S("v", <<>>, <<B("u", <<Op2("/", N(arg), X("k"))>>)>>,
  <<Default, [kind |-> "size", value |-> 2],
    [kind |-> "resources", name |-> "res",
     details |-> [name |-> NoName, use |-> <<>>, acquire |-> <<Ref("port", NoExpr, N(2))>>, hold |-> <<Ref("rd", X("rd"), NoExpr)>>]]>>,
  Chosen(ks))
w(arg) == S("w", <<>>, <<B("t", <<N(arg), N(1)>>)>>, <<Default>>,
  <<O("nop", <<Part(NoName, <<>>, <<>>)>>, <<Show("nop", <<>>), Has(<<At("a", NoExpr)>>)>>)>>)

Main(slots) == File(slots, <<[name |-> "bnd", parts |-> <<[kind |-> "slots", list |-> <<Use("w")>>]>>]>>,
                    <<Isa(<<"bnd">>, <<Use("v")>>)>>, <<At("k", N(1))>>, <<>>)
One(file) == Desc([m \in {"main"} |-> file], <<"main">>)

Templates == {One(Main(<<t, u, v(arg, ks), w(arg)>>)) : arg \in ArgValues, ks \in Subsets}

\* Instructions of two slots that share setters: resources that are acquired
\* until the same or other cycles, lists of resources, a resource that is a
\* list and a single one; attributes of the same or of other names.
r(name, items) == O(name, <<Part(NoName, <<Src("rs")>>, <<Dst("rd", "expr", N(2))>>)>>, <<Show(name, <<"rs">>), Res(<<>>, items, <<>>)>>)
at(name, list) == O(name, <<Part(NoName, <<Src("rs")>>, <<>>)>>, <<Show(name, <<"rs">>), Has(list)>>)
TwoSlots(first, second) ==
  One(Main(<<S("v", <<>>, <<>>, <<Default>>, first), S("w", <<>>, <<>>, <<Default>>, second)>>))
Cycles(end) == TwoSlots(<<r("add", <<Ref("port", NoExpr, N(3))>>)>>, <<r("sub", <<Ref("port", NoExpr, N(end))>>)>>)
Lists(first, second) == TwoSlots(<<r("add", <<first>>)>>, <<r("sub", <<second>>)>>)
Attributes(name) == TwoSlots(<<at("add", <<At("b", N(1))>>), at("nop", <<At("g", N(2))>>)>>,
                             <<at("sub", <<At("b", N(1))>>), at("zero", <<At(name, N(2))>>)>>)

Shared == {Cycles(2), Attributes("a"), Lists(RefA("bus", N(1), NoExpr), Ref("port", N(1), NoExpr)),
           Cycles(3), Attributes("g"), Lists(RefA("bus", NoExpr, N(2)), Ref("port", N(1), N(2))),
           Lists(RefA("bus", N(1), NoExpr), Ref("bus", N(1), N(2))),
           Lists(Ref("bus", N(1), N(2)), RefA("bus", N(1), N(2)))}

\* Names that are not in the same order in Pascal case.
n(name) == O(name, <<Part(NoName, <<Src("rs")>>, <<>>)>>, <<Show(name, <<"rs">>)>>)
Unordered == One(Main(<<S("v", <<>>, <<>>, <<Default>>, <<n("add1"), n("add_0")>>), S("w", <<>>, <<>>, <<Default>>, <<>>)>>))

\* Descriptions that are refused, or that end the program.
x == S("x", <<>>, <<>>, <<Default>>, <<n("nop")>>)
y == S("y", <<>>, <<>>, <<Default>>, <<n("sub")>>)
TwoBases(over) == One(File(<<x, y, S("v", <<>>, <<B("x", <<>>), B("y", <<>>)>>, <<Default>>, <<Over(over, <<Does(<<"Other">>)>>)>>)>>,
                           <<>>, <<Isa(<<>>, <<Use("v")>>)>>, <<>>, <<>>))
NoDefault == One(Main(<<S("v", <<>>, <<>>, <<>>, <<n("nop")>>), S("w", <<>>, <<>>, <<Default>>, <<>>)>>))
Address == One(Main(<<S("v", <<>>, <<>>, <<Default>>, <<O("nop", <<Part(NoName, <<>>, <<>>)>>, <<Show("nop", <<NoName>>)>>)>>),
                      S("w", <<>>, <<>>, <<Default>>, <<>>)>>))
Diamond == One(File(<<x, S("y", <<>>, <<B("x", <<>>)>>, <<Default>>, <<>>), S("v", <<>>, <<B("x", <<>>), B("y", <<>>)>>, <<Default>>, <<>>)>>,
                    <<>>, <<Isa(<<>>, <<Use("v"), Use("gone")>>)>>, <<>>, <<>>))
NoIsa == One(File(<<x>>, <<>>, <<>>, <<>>, <<>>))
Included(includes) ==
  Desc([m \in {"main", "i1", "i2"} |->
          CASE m = "main" -> File(<<x>>, <<>>, <<Isa(<<>>, <<Use("x"), Use("y")>>)>>, <<>>, <<"i1">>)
            [] m = "i1" -> File(<<>>, <<>>, <<>>, <<At("k", N(1))>>, includes)
            [] m = "i2" -> File(<<y>>, <<>>, <<>>, <<>>, <<"i1">>)], <<"main", "i2">>)

MCDescriptions == Templates \cup Shared \cup {Unordered, TwoBases("nop"), TwoBases("sub"), NoDefault, Address, Diamond, NoIsa,
                                  Included(<<"i2">>), Included(<<>>), Included(<<"gone">>)}

MCNameOrder == <<"a", "add", "add1", "add_0", "b", "g", "late", "ld_b", "ld_h", "mul", "nop", "sub", "zero">>
MCPascalRank == [m \in Range(MCNameOrder) |->
  CASE m = "add1" -> 4 [] m = "add_0" -> 3
    [] OTHER -> CHOOSE k \in DOMAIN MCNameOrder : MCNameOrder[k] = m]
MCConcatenated == [m \in {<<"ld", "_b">>, <<"ld", "_h">>} |-> IF m[2] = "_b" THEN "ld_b" ELSE "ld_h"]
=============================================================================
