------------------------- MODULE TemplateExpressions -------------------------
(***************************************************************************)
(* The expressions of instruction set descriptions: latencies, cycles and  *)
(* attribute values, which may depend on the formal parameters of a slot   *)
(* template.  An operation that can fail returns a set: empty if it fails. *)
(***************************************************************************)
EXTENDS Integers, Sequences, FiniteSets, SequencesExt

CONSTANT NoName

NoFunction == [x \in {} |-> x]
Put(f, k, v) == [x \in DOMAIN f \cup {k} |-> IF x = k THEN v ELSE f[x]]
PutNew(f, k, v) == IF k \in DOMAIN f THEN f ELSE Put(f, k, v)
The(S) == CHOOSE x \in S : TRUE

Node(kind, value, args) == [kind |-> kind, value |-> value, name |-> NoName, args |-> args]
TemplateConstant(v) == Node("const", v, <<>>)
TemplateParam(position) == Node("param", position, <<>>)
NoExpr == Node("none", 0, <<>>)       \* null: the latency is known at decode time only
Ident(name) == [Node("ident", 0, <<>>) EXCEPT !.name = name]

\* Integer division rounds towards zero.
Quotient(a, b) == LET q == (IF a < 0 THEN -a ELSE a) \div (IF b < 0 THEN -b ELSE b)
                  IN IF (a < 0) = (b < 0) THEN q ELSE -q

BinaryOperator(op, a, b) ==
  CASE op = "+" -> {a + b}
    [] op = "-" -> {a - b}
    [] op = "*" -> {a * b}
    [] op = "/" -> IF b = 0 THEN {} ELSE {Quotient(a, b)}

AbsoluteValueTemplateFunc(values) == {IF v < 0 THEN -v ELSE v : v \in values}

RECURSIVE IsConstant(_), GetValue(_)
IsConstant(e) == e.kind # "param" /\ \A k \in DOMAIN e.args : IsConstant(e.args[k])

GetValue(e) ==
  CASE e.kind = "const" -> {e.value}
    [] e.kind \in {"param", "none"} -> {}
    [] e.kind = "neg" -> {-v : v \in GetValue(e.args[1])}
    [] e.kind = "abs" -> IF Len(e.args) # 1 THEN {} ELSE AbsoluteValueTemplateFunc(GetValue(e.args[1]))
    [] OTHER -> UNION {UNION {BinaryOperator(e.kind, a, b) : b \in GetValue(e.args[2])}
                       : a \in GetValue(e.args[1])}

\* The argument of a formal parameter; it belongs to another template, so the
\* parameters in it stay.
BoundLast(args, position) == IF position > Len(args) THEN {} ELSE {args[Len(args)]}
Bound(args, position) == IF position > Len(args) THEN {} ELSE {args[position]}

\* A copy of the expression with the arguments in place of the parameters;
\* operations on constants are carried out.  No arguments: parameters stay.
RECURSIVE Evaluate(_, _)
Evaluate(e, args) ==
  LET subs == [k \in DOMAIN e.args |-> Evaluate(e.args[k], args)]
      copy == [e EXCEPT !.args = [k \in DOMAIN subs |-> The(subs[k])]]
      folded(x) == IF IsConstant(x) THEN {TemplateConstant(v) : v \in GetValue(x)} ELSE {x}
  IN CASE e.kind \in {"const", "none"} -> {e}
       [] e.kind = "param" -> IF args = <<>> THEN {e}
                              ELSE UNION {IF IsConstant(a) THEN folded(a) ELSE Evaluate(a, <<>>)
                                          : a \in Bound(args, e.value)}
       [] e.kind = "abs" -> IF \E k \in DOMAIN subs : subs[k] = {} THEN {} ELSE {copy}
       [] OTHER -> IF \E k \in DOMAIN subs : subs[k] = {} THEN {} ELSE folded(copy)

EvaluateAll(es, args) ==
  IF \A k \in DOMAIN es : Evaluate(es[k], args) # {}
    THEN {[k \in DOMAIN es |-> The(Evaluate(es[k], args))]} ELSE {}

-----------------------------------------------------------------------------
(* Names in expressions.  A scope is what they may stand for: formals and  *)
(* constants of the slot, the destination operands of the instruction, or, *)
(* outside of instructions only, the global constants.                     *)

Scope(slot, inInst, dests, globals) ==
  [formals |-> slot.formals, consts |-> slot.consts, inInst |-> inInst, dests |-> dests,
   globals |-> globals]
NoSlot == [formals |-> <<>>, consts |-> NoFunction]

GetTemplateFormal(scope, name) == {k \in DOMAIN scope.formals :
  scope.formals[k] = name /\ \A j \in 1 .. k - 1 : scope.formals[j] # name}

Meaning(scope, name) ==
  CASE GetTemplateFormal(scope, name) # {} -> {TemplateParam(The(GetTemplateFormal(scope, name)))}
    [] GetTemplateFormal(scope, name) = {} /\ name \in DOMAIN scope.consts -> {scope.consts[name]}
    [] OTHER -> LET map == IF scope.inInst THEN scope.dests ELSE scope.globals
                IN IF name \in DOMAIN map THEN {map[name]} \ {NoExpr} ELSE {}

Functions_ == {"abs"}
Operators_ == {"neg", "+", "-", "*", "/"}

RECURSIVE VisitExpression(_, _)
VisitExpression(scope, e) ==
  LET subs == [k \in DOMAIN e.args |-> VisitExpression(scope, e.args[k])]
  IN CASE e.kind = "const" -> {e}
       [] e.kind = "ident" -> Meaning(scope, e.name)
       [] OTHER -> IF e.kind \notin Functions_ \cup Operators_ \/ \E k \in DOMAIN subs : subs[k] = {}
                     THEN {} ELSE {[e EXCEPT !.args = [k \in DOMAIN subs |-> The(subs[k])]]}

\* A wrong number of arguments is an error, but the expression is built.
RECURSIVE WrongArity(_)
WrongArity(e) == \/ e.kind \in Functions_ /\ Len(e.args) # 1
                 \/ \E k \in DOMAIN e.args : WrongArity(e.args[k])

VisitAll(scope, es) == LET rs == [k \in DOMAIN es |-> VisitExpression(scope, es[k])]
                       IN IF \E k \in DOMAIN rs : rs[k] = {} THEN {} ELSE {[k \in DOMAIN rs |-> The(rs[k])]}

RECURSIVE FindDestinationOps(_, _)
FindDestinationOps(scope, e) ==
  IF e.kind = "ident"
    THEN IF GetTemplateFormal(scope, e.name) = {} /\ e.name \notin DOMAIN scope.consts
           THEN {e.name} \cap DOMAIN scope.dests ELSE {}
    ELSE UNION {FindDestinationOps(scope, e.args[k]) : k \in DOMAIN e.args}
=============================================================================
