-------------------------- MODULE MCSimpleAssembler --------------------------
(* Sources of a few lines: labels alone and with statements, in several       *)
(* sections, references forward, backward and to nothing.                    *)
EXTENDS SimpleAssembler

Line(label, stmt) == [label |-> label, stmt |-> stmt]
Only(stmt) == Line(NoName, stmt)
To(section) == [kind |-> "section", to |-> section]
Op(code, target, relative, reach) ==
  [kind |-> "op", code |-> code, target |-> target, relative |-> relative, reach |-> reach]
Values(width, signed, values) ==
  [kind |-> "values", width |-> width, signed |-> signed,
   items |-> [k \in DOMAIN values |-> [number |-> TRUE, value |-> values[k]]]]
Cut(values) == [values EXCEPT !.items = Append(@, [number |-> FALSE, value |-> 0]) \o @]

MCLines == {
  Only(To(".text")), Only(To(".data")), Only(To(".bss")),
  Only([kind |-> "global", names |-> {"x"}]),
  Line("x", [kind |-> "empty"]),
  Line("x", Op(1, NoName, FALSE, 0)),
  Line("y", Op(2, "x", TRUE, 1000000)),
  Only(Op(3, "y", FALSE, 5000)),
  Line("y", Values(1, FALSE, <<7>>)),
  Only(Cut(Values(2, TRUE, <<-2>>))),
  Line("x", [kind |-> "strings", texts |-> <<<<65>>>>, zero |-> TRUE]),
  Only([kind |-> "space", n |-> 3]),
  Only([kind |-> "align", n |-> 4]) }

\* Lines that end the parse.
BadLines == {Only(Values(1, FALSE, <<-1>>)), Only([kind |-> "align", n |-> 3]), Only([kind |-> "unsupported"])}
AllLines == MCLines \cup BadLines
=============================================================================
