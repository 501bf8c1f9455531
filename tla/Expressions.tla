----------------------------- MODULE Expressions -----------------------------
(***************************************************************************)
(* The expression visitors.  Every engine has its own copy of an encoder   *)
(* (an IR expression becomes a z3 term over versioned constants), of an    *)
(* evaluator (it becomes a value under the concrete valuations), or of     *)
(* both.  Each is a stack machine: visiting a leaf pushes a term, visiting *)
(* an operator visits its operands from left to right, pops their terms    *)
(* and pushes one.  The copies have drifted apart in the operators they    *)
(* accept, in what they do with an addition of Booleans and in which side  *)
(* of a change annotation they follow.                                     *)
(*                                                                         *)
(* A z3 term is modelled by the value it has under a store that gives the  *)
(* current version of every variable its value, so that an encoder and an  *)
(* evaluator can be compared.  z3's integers are unbounded.                *)
(***************************************************************************)
EXTENDS Integers, Sequences, SequencesExt, TLC

CONSTANTS
  Engines,     \* the engines whose visitors are run
  Trees,       \* the expressions given to them
  Stores       \* the values of the program's variables

VARIABLES
  engine,      \* the engine whose executor handles an assignment
  tree,        \* its right-hand side
  store,       \* the valuations of the context
  phase,       \* "encode", "evaluate" or "done", in the executor's order
  mode,        \* "old" or "new": the version of the program under analysis
  todo,        \* what the visitor has left to do, the next first
  stack,       \* _expression_stack
  encoded,     \* what encode returned
  evaluated    \* what evaluate returned

vars == <<engine, tree, store, phase, mode, todo, stack, encoded, evaluated>>

(***************************************************************************)
(* Values carry their z3 sort; "throws" is an exception nobody catches,    *)
(* which ends the tool, and "undefined" is a term built by a z3 operator   *)
(* from operands of the wrong sort: the asserts in front of it are         *)
(* compiled out of a release build.                                        *)
(***************************************************************************)
BooleanValue(b) == [sort |-> "bool", n |-> IF b THEN 1 ELSE 0]
IntegerValue(n) == [sort |-> "int", n |-> n]
Throws    == [sort |-> "throws", n |-> 0]
Undefined == [sort |-> "undefined", n |-> 0]
None      == [sort |-> "none", n |-> 0]

IsInt(v)  == v.sort = "int"
IsBool(v) == v.sort = "bool"
IsTrue(v) == v = BooleanValue(TRUE)
ToInt(v)  == IF IsBool(v) THEN IntegerValue(v.n) ELSE v    \* ite(v, 1, 0)

Arithmetic(op, l, r) ==
  CASE op = "add" -> IntegerValue(l.n + r.n)
    [] op = "sub" -> IntegerValue(l.n - r.n)
    [] op = "mul" -> IntegerValue(l.n * r.n)
    [] op = "ge"  -> BooleanValue(l.n >= r.n)
    [] op = "gt"  -> BooleanValue(l.n > r.n)
    [] op = "le"  -> BooleanValue(l.n <= r.n)
    [] op = "lt"  -> BooleanValue(l.n < r.n)

Logic(op, l, r) ==
  CASE op = "and" -> BooleanValue(IsTrue(l) /\ IsTrue(r))
    [] op = "or"  -> BooleanValue(IsTrue(l) \/ IsTrue(r))
    [] op = "xor" -> BooleanValue(IsTrue(l) # IsTrue(r))

LogicOperators == {"and", "or", "xor"}

(***************************************************************************)
(* The z3 operator `how` applied to the two terms popped.                  *)
(***************************************************************************)
Z3(how, l, r) ==
  CASE how = "eq" -> IF l.sort = r.sort THEN BooleanValue(l = r) ELSE Undefined
    [] how = "ne" -> IF l.sort = r.sort THEN BooleanValue(l # r) ELSE Undefined
    [] how \in LogicOperators ->
         IF IsBool(l) /\ IsBool(r) THEN Logic(how, l, r) ELSE Undefined
    [] OTHER -> IF IsInt(l) /\ IsInt(r) THEN Arithmetic(how, l, r) ELSE Undefined

\* Encoder::visit, ADD: the left operand, when it is a Boolean, is cast as
\* ite(right, 1, 0), and a condition that is no Boolean makes z3 throw
AddCastingRight(l, r) ==
  IF IsBool(l) /\ IsInt(r) THEN Throws
  ELSE IF IsBool(l) THEN Z3("add", ToInt(r), ToInt(r))
       ELSE Z3("add", l, ToInt(r))

\* Evaluator::visit, ADD: both operands are cast
AddCasting(l, r) == Z3("add", ToInt(l), ToInt(r))

(***************************************************************************)
(* One record per visitor: how it applies each binary operator it accepts, *)
(* the unary operators and the leaves it accepts, and what it does with a  *)
(* change annotation.  The operators that a table does not list throw.     *)
(***************************************************************************)
Plain(ops) == [op \in ops |-> op]

Accesses == {"variable", "field"}
Basic    == {"boolean", "integer"} \union Accesses
Signs    == {"neg", "not"}

CastingOperators ==
  Plain({"ge", "eq", "and", "or", "gt", "lt", "sub", "xor", "ne", "le"})
FewOperators == Plain({"ge", "add", "eq", "and", "or"})
ShadowOperators == Plain({"ge", "add", "eq", "and", "or", "sub", "gt", "lt"})

AhornEncoderBinary   == CastingOperators @@ ("add" :> "addCastingRight")

\* Mutant of AhornEvaluatorBinary: casts the operand that the encoder casts
AhornEvaluatorBinaryCastingRight == CastingOperators @@ ("add" :> "addCastingRight")

AhornEvaluatorBinary == CastingOperators @@ ("add" :> "addCasting")
AhornEncoder ==
  [binary |-> AhornEncoderBinary, unary |-> Signs, change |-> "throws",
   leaves |-> Basic \union {"time", "enumerated"}]
AhornEvaluator ==
  [binary |-> AhornEvaluatorBinary, unary |-> Signs, change |-> "throws",
   leaves |-> Basic \union {"time", "enumerated"}]

ConcolicEncoderBinary   == CastingOperators @@ ("add" :> "addCastingRight")
ConcolicEvaluatorBinary == CastingOperators @@ ("add" :> "addCasting")
ConcolicEncoder ==
  [binary |-> ConcolicEncoderBinary, unary |-> Signs, change |-> "throws",
   leaves |-> Basic \union {"time", "enumerated"}]
ConcolicEvaluator ==
  [binary |-> ConcolicEvaluatorBinary, unary |-> Signs, change |-> "throws",
   leaves |-> Basic \union {"time", "enumerated"}]

EtfaEncoderBinary == CastingOperators @@ ("add" :> "addCastingRight")
EtfaEncoder ==
  [binary |-> EtfaEncoderBinary, unary |-> Signs, change |-> "throws",
   leaves |-> Basic \union {"time", "enumerated"}]

SummarizationEncoderBinary == CastingOperators @@ ("add" :> "addCastingRight")
SummarizationEncoder ==
  [binary |-> SummarizationEncoderBinary, unary |-> Signs, change |-> "throws",
   leaves |-> Basic \union {"time", "enumerated"}]

ReuseEncoderBinary == CastingOperators @@ ("add" :> "addCastingRight")
ReuseEncoder ==
  [binary |-> ReuseEncoderBinary, unary |-> Signs, change |-> "mode",
   leaves |-> Basic \union {"time", "enumerated"}]

BaselineEncoderBinary   == FewOperators
BaselineEvaluatorBinary == FewOperators
BaselineEncoder ==
  [binary |-> BaselineEncoderBinary, unary |-> Signs, change |-> "throws", leaves |-> Basic]
BaselineEvaluator ==
  [binary |-> BaselineEvaluatorBinary, unary |-> Signs, change |-> "throws", leaves |-> Basic]

CbmcEncoderBinary == FewOperators
CbmcEncoder ==
  [binary |-> CbmcEncoderBinary, unary |-> Signs, change |-> "throws", leaves |-> Basic]

OaEncoderBinary == Plain({"ge", "add", "eq", "and", "or", "gt", "lt", "sub", "xor"})
OaEncoder ==
  [binary |-> OaEncoderBinary, unary |-> Signs, change |-> "throws",
   leaves |-> Basic \union {"enumerated"}]

\* the second phase executes the new version only
ShadowEncoderBinary   == ShadowOperators
ShadowEvaluatorBinary == ShadowOperators
ShadowEncoder ==
  [binary |-> ShadowEncoderBinary, unary |-> Signs, change |-> "new",
   leaves |-> Basic \union {"time", "enumerated"}]
ShadowEvaluator ==
  [binary |-> ShadowEvaluatorBinary, unary |-> Signs, change |-> "new",
   leaves |-> Basic \union {"time", "enumerated"}]

\* the first phase, in its modes OLD and NEW
DivergenceEncoderBinary   == ShadowOperators
DivergenceEvaluatorBinary == ShadowOperators
DivergenceEncoder ==
  [binary |-> DivergenceEncoderBinary, unary |-> Signs, change |-> "mode",
   leaves |-> Basic \union {"time", "enumerated"}]
DivergenceEvaluator ==
  [binary |-> DivergenceEvaluatorBinary, unary |-> Signs, change |-> "mode",
   leaves |-> Basic \union {"time", "enumerated"}]

SimulatorEvaluatorBinary == ShadowOperators
SimulatorEvaluator ==
  [binary |-> SimulatorEvaluatorBinary, unary |-> Signs, change |-> "mode",
   leaves |-> Basic \union {"time", "enumerated"}]

ExperimentalEncoderBinary ==
  Plain({"add", "sub", "gt", "ge", "eq", "le", "mul", "lt", "and", "or", "ne"})
ExperimentalEvaluatorBinary ==
  Plain({"add", "sub", "gt", "ge", "eq", "le", "mul", "lt", "and", "or", "ne"})
ExperimentalEncoder ==
  [binary |-> ExperimentalEncoderBinary, unary |-> Signs, change |-> "mode", leaves |-> Basic]
ExperimentalEvaluator ==
  [binary |-> ExperimentalEvaluatorBinary, unary |-> Signs, change |-> "mode", leaves |-> Basic]

SmartEncoderBinary   == Plain({"ge", "add"})
SmartEvaluatorBinary == Plain({"ge", "add"})
SmartEncoder ==
  [binary |-> SmartEncoderBinary, unary |-> {}, change |-> "throws", leaves |-> Basic]
SmartEvaluator ==
  [binary |-> SmartEvaluatorBinary, unary |-> {}, change |-> "throws", leaves |-> Basic]

Encoders ==
  [ahorn |-> AhornEncoder, concolic |-> ConcolicEncoder, etfa |-> EtfaEncoder,
   summarization |-> SummarizationEncoder, reuse |-> ReuseEncoder,
   baseline |-> BaselineEncoder, cbmc |-> CbmcEncoder, oa |-> OaEncoder,
   shadow |-> ShadowEncoder, divergence |-> DivergenceEncoder,
   experimental |-> ExperimentalEncoder, smart |-> SmartEncoder]

Evaluators ==
  [ahorn |-> AhornEvaluator, concolic |-> ConcolicEvaluator,
   baseline |-> BaselineEvaluator, shadow |-> ShadowEvaluator,
   divergence |-> DivergenceEvaluator, simulator |-> SimulatorEvaluator,
   experimental |-> ExperimentalEvaluator, smart |-> SmartEvaluator]

Visitor == IF phase = "encode" THEN Encoders[engine] ELSE Evaluators[engine]

(***************************************************************************)
(* The visits.                                                             *)
(***************************************************************************)
Visit(t)   == [do |-> "visit", tree |-> t]
Combine(t) == [do |-> "combine", tree |-> t]

IsLeaf(t) == t.node \notin {"unary", "binary", "change"}

\* an evaluator reads the concrete valuation, an encoder makes the constant
\* of the current version: both stand for the value in the store
LeafTerm(t) ==
  CASE t.node \in Accesses -> store[t.name]
    [] t.node = "boolean" -> BooleanValue(t.value)
    [] OTHER -> IntegerValue(t.value)

\* std::stack::top and pop, one operand after the other
Top == Last(stack)

ApplyBinary(op, l, r) ==
  LET how == Visitor.binary[op]
  IN CASE how = "addCastingRight" -> AddCastingRight(l, r)
       [] how = "addCasting" -> AddCasting(l, r)
       [] OTHER -> Z3(how, l, r)

ApplyUnary(op, v) ==
  CASE op = "neg" -> IF IsInt(v) THEN IntegerValue(-v.n) ELSE Undefined
    [] op = "not" -> IF IsBool(v) THEN BooleanValue(~IsTrue(v)) ELSE Undefined

\* encode or evaluate returns v, or throws; the executor calls evaluate
\* after encode when the engine has both
Return(v) ==
  /\ stack' = IF v = Throws THEN stack ELSE <<>>
  /\ encoded' = IF phase = "encode" THEN v ELSE encoded
  /\ evaluated' = IF phase = "evaluate" THEN v ELSE evaluated
  /\ IF phase = "encode" /\ v # Throws /\ engine \in DOMAIN Evaluators
     THEN phase' = "evaluate" /\ todo' = <<Visit(tree)>>
     ELSE phase' = "done" /\ todo' = <<>>

Step == phase # "done" /\ todo # <<>> /\ UNCHANGED <<engine, tree, store, mode>>
Current == Head(todo)
Rest  == Tail(todo)
Continue == UNCHANGED <<phase, encoded, evaluated>>

VisitLeaf ==
  /\ Step /\ Current.do = "visit" /\ IsLeaf(Current.tree)
  /\ IF Current.tree.node \in Visitor.leaves
     THEN stack' = Append(stack, LeafTerm(Current.tree)) /\ todo' = Rest /\ Continue
     ELSE Return(Throws)

VisitOperands ==
  /\ Step /\ Current.do = "visit" /\ Current.tree.node \in {"unary", "binary"}
  /\ LET t == Current.tree
         operands == IF t.node = "unary" THEN <<Visit(t.arg)>>
                     ELSE <<Visit(t.left), Visit(t.right)>>
     IN IF t.node = "unary" /\ Visitor.unary = {}
        THEN Return(Throws)
        ELSE todo' = operands \o <<Combine(t)>> \o Rest /\ Continue /\ UNCHANGED stack

VisitChange ==
  /\ Step /\ Current.do = "visit" /\ Current.tree.node = "change"
  /\ LET old == Visitor.change = "mode" /\ mode = "old"
         side == IF old THEN Current.tree.old ELSE Current.tree.new
     IN IF Visitor.change = "throws" THEN Return(Throws)
        ELSE todo' = <<Visit(side)>> \o Rest /\ Continue /\ UNCHANGED stack

CombineUnary ==
  /\ Step /\ Current.do = "combine" /\ Current.tree.node = "unary"
  /\ IF Current.tree.op \in Visitor.unary
     THEN /\ stack' = Append(Front(stack), ApplyUnary(Current.tree.op, Top))
          /\ todo' = Rest /\ Continue
     ELSE Return(Throws)

CombineBinary ==
  /\ Step /\ Current.do = "combine" /\ Current.tree.node = "binary"
  /\ LET l == stack[Len(stack) - 1]
         v == IF Current.tree.op \in DOMAIN Visitor.binary
              THEN ApplyBinary(Current.tree.op, l, Top) ELSE Throws
     IN IF v = Throws THEN Return(Throws)
        ELSE stack' = Append(Front(Front(stack)), v) /\ todo' = Rest /\ Continue

Finish ==
  /\ phase # "done" /\ todo = <<>>
  /\ Return(Top)
  /\ UNCHANGED <<engine, tree, store, mode>>

Init ==
  /\ engine \in Engines /\ tree \in Trees /\ store \in Stores
  /\ mode \in {"old", "new"}
  /\ phase = IF engine \in DOMAIN Encoders THEN "encode" ELSE "evaluate"
  /\ todo = <<Visit(tree)>> /\ stack = <<>>
  /\ encoded = None /\ evaluated = None

Next ==
  \/ VisitLeaf \/ VisitOperands \/ VisitChange
  \/ CombineUnary \/ CombineBinary \/ Finish

Spec == Init /\ [][Next]_vars

-----------------------------------------------------------------------------
(* The meaning of an expression in the version of the program under        *)
(* analysis, as Structured Text defines it; a Boolean counts as 0 or 1 in  *)
(* an addition.                                                            *)
RECURSIVE Meaning(_, _)
Meaning(t, version) ==
  CASE t.node = "unary" -> ApplyUnary(t.op, Meaning(t.arg, version))
    [] t.node = "binary" ->
         LET l == Meaning(t.left, version)
             r == Meaning(t.right, version)
         IN IF t.op = "add" THEN AddCasting(l, r) ELSE Z3(t.op, l, r)
    [] t.node = "change" ->
         Meaning(IF version = "old" THEN t.old ELSE t.new, version)
    [] OTHER -> LeafTerm(t)

\* the shadow executor of the second phase runs the new version only
Version == IF engine = "shadow" THEN "new" ELSE mode

(* The operands of the additions that are computed on the way.             *)
RECURSIVE Additions(_, _)
Additions(t, version) ==
  CASE t.node = "unary" -> Additions(t.arg, version)
    [] t.node = "change" ->
         Additions(IF version = "old" THEN t.old ELSE t.new, version)
    [] t.node = "binary" ->
         Additions(t.left, version) \union Additions(t.right, version)
         \union IF t.op = "add"
                THEN {<<Meaning(t.left, version), Meaning(t.right, version)>>} ELSE {}
    [] OTHER -> {}

(* Where an addition may differ from the one that counts Booleans as 0 or  *)
(* 1: the encoders that cast cast the right operand in place of the left   *)
(* one, which shows where the two are different Booleans; the engines that *)
(* do not cast are wrong wherever a Boolean is added.                      *)
CastingEngines == {"ahorn", "concolic", "etfa", "summarization", "reuse"}

Miscast(l, r) ==
  IF engine \in CastingEngines THEN IsBool(l) /\ IsBool(r) /\ l # r
  ELSE IsBool(l) \/ IsBool(r)

Answers(v) == v.sort \notin {"none", "throws"}
Miscasts == \E p \in Additions(tree, Version) : Miscast(p[1], p[2])

(* What a visitor returns is what the expression means in the version of   *)
(* the program under analysis, unless the expression adds Booleans in a    *)
(* way the visitor is known to get wrong: no copy swaps operands, leaves   *)
(* one on the stack, follows the wrong side of a change, computes another  *)
(* operator or casts an operand of an addition that needs no cast.  An     *)
(* evaluator of the concolic engines is right about every addition.        *)
AnswersAreMeant ==
  /\ Answers(encoded) => encoded = Meaning(tree, Version) \/ Miscasts
  /\ Answers(evaluated) =>
       evaluated = Meaning(tree, Version) \/ (engine \notin CastingEngines /\ Miscasts)
=============================================================================
