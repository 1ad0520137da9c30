-------------------------- MODULE MCBinFormatVisitor --------------------------
(* Small descriptions for the binary format compiler: words of six bits.   *)
EXTENDS BinFormatVisitor

CONSTANT MaxEncodings   \* how many of the encodings below form a group

F(name, width) == [name |-> name, format |-> NoName, width |-> width, signed |-> FALSE]
S(name, width) == [F(name, width) EXCEPT !.signed = TRUE]
R(name, format, size) == [F(name, size) EXCEPT !.format = format]
Ov(name, width, parts) == [name |-> name, signed |-> FALSE, width |-> width, parts |-> parts]
Of(name, ranges) == [kind |-> "field", name |-> name, ranges |-> ranges, value |-> {}, width |-> 0]
Bits(ranges) == [Of(NoName, ranges) EXCEPT !.kind = "format"]
Const(value, width) == [Of(NoName, <<>>) EXCEPT !.kind = "const", !.value = value, !.width = width]
Fmt(name, width, parent, fields, overlays) ==
  [name |-> name, width |-> width, parent |-> parent, packed |-> FALSE,
   fields |-> fields, overlays |-> overlays]

C(lhs, op, value) == [lhs |-> lhs, op |-> op, value |-> value, rhs |-> NoName, var |-> NoName]
CR(lhs, op, rhs) == [C(lhs, op, 0) EXCEPT !.rhs = rhs]
I(name, format, constraints) ==
  [name |-> name, parent |-> NoName, format |-> format, constraints |-> constraints,
   vary |-> NoName, generate |-> <<>>, assignments |-> <<>>]
Sp(name, parent, constraints) == [I(name, NoName, constraints) EXCEPT !.parent = parent]
G(name, format, insts) ==
  [name |-> name, width |-> 6, format |-> format, insts |-> insts, children |-> <<>>]
Combined(name, children) == [G(name, NoName, <<>>) EXCEPT !.width = 0, !.children = children]
D(groups) == [name |-> "dec", groups |-> groups]
Attr(name) == [name |-> name, children |-> <<>>]

File(formats, groups, decoders, includes, isOnce) ==
  [formats |-> formats, groups |-> groups, decoders |-> decoders, includes |-> includes,
   once |-> isOnce]
Desc(files, sources) == [files |-> files, sources |-> sources, decoder |-> "dec"]
One(formats, groups, decoders) ==
  Desc([m \in {"main"} |-> File(formats, groups, decoders, <<>>, FALSE)], <<"main">>)

\* fmt: op a b, two bits each; sub and twin are derived from it, leaf from
\* sub.  They agree on t; ab, in fmt, sub and twin, and v, in sub and leaf, are
\* different bits.
fmt == Fmt("fmt", 6, NoName, <<F("op", 2), F("a", 2), S("b", 2)>>,
           <<Ov("ab", 3, <<Of("b", <<<<0, 0>>>>), Of("a", <<>>)>>),
             Ov("az", 3, <<Of("a", <<<<1, 0>>>>), Const({0}, 1)>>),
             Ov("hi", 2, <<Bits(<<<<5, 5>>, <<0, 0>>>>)>>)>>)
sub == Fmt("sub", 0, "fmt", <<F("op", 2), F("a", 2), F("c", 1), F("d", 1)>>,
           <<Ov("ab", 3, <<Of("c", <<>>), Of("a", <<>>)>>), Ov("v", 1, <<Of("d", <<>>)>>)>>)
twin == Fmt("twin", 6, "fmt", <<F("op", 2), F("x", 4)>>, <<Ov("ab", 3, <<Of("x", <<<<2, 0>>>>)>>),
                                                          Ov("t", 2, <<Of("x", <<<<3, 2>>>>)>>),
                                                          Ov("v", 1, <<Of("x", <<<<0, 0>>>>)>>)>>)
leaf == Fmt("leaf", 6, "sub", <<F("op", 2), F("a", 2), F("e", 2)>>,
            <<Ov("t", 2, <<Of("a", <<>>)>>), [Ov("v", 1, <<Of("e", <<<<1, 1>>>>)>>) EXCEPT !.signed = TRUE]>>)
wide == Fmt("wide", 12, NoName, <<R("pair", "fmt", 2)>>, <<>>)
middle == Fmt("middle", 7, NoName, <<R("one", "fmt", 1), F("flag", 1)>>, <<>>)
\* Packed structs below, at and above Narrow bits; rest has the smallest.
struct == [Fmt("struct", 5, NoName, <<F("p", 1), S("q", 3), F("r", 1)>>, <<>>) EXCEPT !.packed = TRUE]
even == [Fmt("even", 6, NoName, <<R("one", "fmt", 1)>>, <<>>) EXCEPT !.packed = TRUE]
large == [Fmt("large", 9, NoName, <<F("p", 1), R("one", "fmt", 1), S("q", 2)>>, <<>>) EXCEPT !.packed = TRUE]
rest == Fmt("rest", 11, NoName, <<R("one", "fmt", 1), R("s", "struct", 1)>>, <<>>)

Pool == <<
  I("i1", "fmt", <<C("op", "eq", 0)>>),
  I("i2", "fmt", <<C("op", "eq", 1), C("a", "eq", 1)>>),
  I("i3", "sub", <<C("op", "eq", 1), C("a", "eq", 2), C("c", "eq", 1)>>),
  I("i4", "sub", <<C("op", "eq", 1), C("a", "eq", 2), C("c", "eq", 0), C("d", "eq", 1)>>),
  I("i5", "fmt", <<C("op", "eq", 2), C("a", "ne", 0)>>),
  I("i6", "fmt", <<C("op", "eq", 2), C("ab", "eq", 3)>>),
  I("i7", "fmt", <<C("a", "eq", 3), C("b", "eq", -1)>>),
  I("i8", "fmt", <<C("op", "eq", 2), C("az", "eq", 5)>>),
  I("i9", "fmt", <<C("op", "eq", 1), CR("a", "lt", "op")>>),
  I("i10", "fmt", <<C("op", "eq", 3), C("a", "eq", 0), C("b", "eq", 1)>>),
  I("i11", "fmt", <<C("b", "eq", 0), C("hi", "eq", 2)>>),
  I("i12", "twin", <<C("op", "eq", 3), C("t", "eq", 1)>>),
  I("i13", "leaf", <<C("op", "eq", 3), C("t", "eq", 1), C("e", "gt", 1)>>),
  I("i14", "sub", <<C("op", "eq", 2), C("ab", "eq", 7)>>) >>

Chosen(keep) == SelectSeq(Pool, LAMBDA i : i.name \in keep)
Kept(n) == {keep \in SUBSET {Pool[k].name : k \in DOMAIN Pool} : Cardinality(keep) \in 1 .. n}

Layouts == <<fmt, sub, twin, leaf, wide, middle, struct, even, large, rest>>

\* Every small set of encodings in one group; i6 and i14 do not agree on ab.
Group(keep) == One(Layouts, <<G("g", "fmt", Chosen(keep))>>, <<D(<<Attr("g")>>)>>)
Groups == {Group(keep) : keep \in Kept(MaxEncodings) \cup {{Pool[k].name : k \in DOMAIN Pool} \ {"i14"}}}

Gen == [I("gen", "fmt", <<>>) EXCEPT
  !.assignments = <<[var |-> "v", values |-> <<[name |-> "i1", value |-> 0], [name |-> "i2", value |-> 1]>>],
                    [var |-> "u", values |-> <<[name |-> "u", value |-> 1], [name |-> "u", value |-> 2]>>]>>,
  !.generate = <<[I("i", "fmt", <<[C("op", "eq", 0) EXCEPT !.var = "v"], [C("a", "eq", 0) EXCEPT !.var = "u"]>>)
                    EXCEPT !.vary = "v"]>>]
Undefined == [Gen EXCEPT !.assignments = <<Gen.assignments[1], Gen.assignments[1]>>]

s1 == Sp("s1", "i5", <<C("b", "eq", 1)>>)
s2 == Sp("s2", "i5", <<C("a", "gt", 1)>>)
s3 == Sp("s3", "i2", <<CR("b", "eq", "op")>>)
\* Specializations, generators, combined groups, and what is refused.
Shapes ==
  {One(Layouts, <<G("g", "fmt", insts), G("h", "fmt", <<Pool[1], Pool[2]>>), Combined("both", <<"g", "h">>)>>,
       <<D(groups)>>)
     : insts \in {<<Pool[5], s2, s1, Pool[10]>>, <<Pool[5], s1, s1, Sp("s2", "s1", <<>>)>>, <<Gen, Pool[5]>>,
                  <<s3, Undefined>>, <<I("i1", "none", <<>>)>>, <<I("i1", "struct", <<C("p", "eq", 1)>>)>>,
                  <<I("i1", "wide", <<>>)>>, <<I("i1", "fmt", <<C("op", "eq", 4), C("none", "eq", 0)>>)>>, <<>>},
       groups \in {<<Attr("g")>>, <<Attr("h"), Attr("h"), Attr("none")>>,
                   <<Attr("both")>>, <<[Attr("mix") EXCEPT !.children = <<"h", "g", "h", "none">>], Attr("mix")>>,
                   <<[Attr("mix") EXCEPT !.children = <<"none">>]>>,
                   <<Attr("g"), [Attr("g2") EXCEPT !.children = <<"g", "h">>]>>, <<>>}}

BadFormats ==
  {One(<<f, fmt>>, <<G("g", "fmt", <<I("i1", f.name, <<C("op", "eq", 1)>>)>>)>>, <<D(<<Attr("g")>>)>>)
     : f \in {Fmt("sub", 0, NoName, <<>>, <<>>), Fmt("sub", 6, "none", <<>>, <<>>),
              Fmt("sub", 5, "fmt", <<F("op", 5)>>, <<>>), Fmt("sub", 6, "fmt", <<F("op", 2)>>, <<>>),
              Fmt("sub", 6, "fmt", <<F("op", 2), F("op", 4), F("x", 4)>>, <<Ov("x", 1, <<>>)>>),
              Fmt("sub", 6, "fmt", <<F("op", 2), F("x", 4)>>,
                  <<Ov("y", 2, <<Of("x", <<<<4, 4>>>>), Of("none", <<>>)>>), Ov("z", 9, <<>>)>>),
              [Fmt("sub", 8, NoName, <<F("op", 8), R("w", "wide", 2)>>, <<>>) EXCEPT !.packed = TRUE],
              fmt}}

\* Includes: repeated, recursive, missing, once.
Files(once1, inc2) ==
  Desc([m \in {"main", "one", "two"} |->
     CASE m = "main" -> File(<<>>, <<G("g", "fmt", <<Pool[1], Pool[9]>>)>>, <<D(<<Attr("g")>>)>>,
                             <<"one", "two", "one">>, FALSE)
       [] m = "one" -> File(<<fmt>>, <<>>, <<>>, <<>>, once1)
       [] m = "two" -> File(<<sub>>, <<>>, <<>>, inc2, FALSE)], <<"main">>)
Includes == {Files(o, i) : o \in BOOLEAN, i \in {<<>>, <<"one">>, <<"two">>, <<"main">>, <<"none">>}}
            \cup {Desc([m \in {"main"} |-> File(<<fmt>>, <<>>, <<>>, <<>>, FALSE)], <<"main", "main">>)}

MCDescriptions == Groups \cup Shapes \cup BadFormats \cup Includes

MCNameOrder == <<"both", "dec", "even", "flag", "fmt", "g", "g2", "gen", "h", "i", "i1", "i10", "i11", "i12",
  "i13", "i14", "i2", "i3", "i4", "i5", "i6", "i7", "i8", "i9", "large", "leaf", "main", "middle", "mix", "none",
  "one", "rest", "s1", "s2", "s3", "struct", "sub", "twin", "two", "wide">>
=============================================================================
