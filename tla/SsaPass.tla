------------------------------- MODULE SsaPass -------------------------------
(***************************************************************************)
(* The SSA construction of Braun et al. as ssa_pass.cpp implements it: the *)
(* blocks are filled from a worklist, a block is sealed once all blocks    *)
(* before it are filled, a variable that a block does not define is looked *)
(* up in the blocks before it, and a merge gets a phi candidate, which is  *)
(* removed again when all its operands are the same.                       *)
(***************************************************************************)
EXTENDS CallTransformation

(***************************************************************************)
(* The members of the pass, for the POU at hand.  Only the value counter   *)
(* is kept from one POU to the next.                                       *)
(***************************************************************************)
NewSsa(name, value) ==
  [name |-> name, value |-> value, defs |-> <<>>, vars |-> <<>>, phis |-> <<>>, code |-> <<>>,
   filled |-> {}, sealed |-> {}, queue |-> <<>>, initial |-> <<>>, ok |-> TRUE]

Throw(s) == [s EXCEPT !.ok = FALSE]

Versioned(name, value) == Append(name, ToString(value))

WriteVariable(s, name, label, value) ==
  LET known == IF name \in DOMAIN s.defs THEN s.defs[name] ELSE <<>>
  IN [s EXCEPT !.defs = (name :> ((label :> value) @@ known)) @@ @]

Fresh(s, ssaName) ==
  [s EXCEPT !.value = @ + 1, !.vars = (s.value :> ssaName) @@ @]

NameOf(s, value) == IF value \in DOMAIN s.vars THEN s.vars[value] ELSE <<"undefined">>

Insert(s, label, instruction) ==
  LET code == IF label \in DOMAIN s.code THEN s.code[label] ELSE <<>>
  IN [s EXCEPT !.code = (label :> Append(code, instruction)) @@ @]

(***************************************************************************)
(* A phi candidate all of whose operands are one value is replaced by that *)
(* value, in the phis that use it, too.  Each returns the state s and a    *)
(* value v.                                                                *)
(***************************************************************************)
Without(f, x) == [y \in DOMAIN f \ {x} |-> f[y]]

Replace(operands, old, new) ==
  [i \in DOMAIN operands |-> IF operands[i] = old THEN new ELSE operands[i]]

\* Mutant of TryRemoveTrivialPhi: it is kept
KeepTrivialPhi(s, value) == [s |-> s, v |-> value]

RECURSIVE TryRemoveTrivialPhi(_, _)
TryRemoveTrivialPhi(s, value) ==
  LET phi == s.phis[value]
      others == Range(phi.operands) \ {value}
      same == CHOOSE o \in others : TRUE
      users == RemoveFirst(phi.users, value)
      rerouted == [p \in DOMAIN s.phis |->
                     IF p \in Range(users)
                     THEN [s.phis[p] EXCEPT !.operands = Replace(@, value, same)] ELSE s.phis[p]]
      removed == [s EXCEPT !.phis = Without(rerouted, value), !.vars = Without(@, value)]
      again(t, u) == IF u \in DOMAIN t.phis THEN TryRemoveTrivialPhi(t, u).s ELSE t
  IN CASE ~s.ok -> [s |-> s, v |-> value]
       [] Cardinality(others) > 1 -> [s |-> s, v |-> value]
       [] others = {} \/ ~(Range(users) \subseteq DOMAIN s.phis) -> [s |-> Throw(s), v |-> value]
       [] OTHER -> [s |-> FoldLeft(again, removed, users), v |-> same]

PlaceOperandlessPhi(s, name, label) ==
  [Fresh(s, Versioned(name, s.value)) EXCEPT
     !.phis = (s.value :> [label |-> label, operands |-> <<>>, users |-> <<>>]) @@ @]

(***************************************************************************)
(* Reading a variable at a block.  The operands of a phi come from all     *)
(* incoming edges, those that return from a callee included.               *)
(***************************************************************************)
RECURSIVE ReadVariable(_, _, _, _)

AddOperand(s, g, name, value, preceding) ==
  LET r == ReadVariable(s, g, name, preceding)
      appended == [r.s EXCEPT !.phis[value].operands = Append(@, r.v)]
  IN IF ~r.s.ok THEN r.s
     ELSE IF r.v \in DOMAIN appended.phis /\ r.v # value
          THEN [appended EXCEPT !.phis[r.v].users = Append(@, value)]
          ELSE appended

Simplify(s, value) == IF s.ok THEN TryRemoveTrivialPhi(s, value) ELSE [s |-> s, v |-> value]

AddPhiOperands(s, g, name, value) ==
  Simplify(FoldLeft(LAMBDA t, p : AddOperand(t, g, name, value, p), s,
                    Preceding(g, s.phis[value].label)),
           value)

LocalPreceding(g, label) ==
  LET local == Filter(Incoming(g, label), LAMBDA e : e.type # "return")
  IN [i \in DOMAIN local |-> local[i].src]

\* what was read is the definition at the label from now on
Recorded(r, name, label) ==
  IF r.s.ok THEN [s |-> WriteVariable(r.s, name, label, r.v), v |-> r.v] ELSE r

ReadThroughPhi(s, g, name, label) ==
  AddPhiOperands(WriteVariable(PlaceOperandlessPhi(s, name, label), name, label, s.value),
                 g, name, s.value)

ReadVariableRecursive(s, g, name, label) ==
  LET preceding == LocalPreceding(g, label)
  IN IF label \notin s.sealed THEN [s |-> Throw(s), v |-> -1]
     ELSE Recorded(IF Len(preceding) = 1 THEN ReadVariable(s, g, name, preceding[1])
                   ELSE ReadThroughPhi(s, g, name, label),
                   name, label)

ReadVariable(s, g, name, label) ==
  IF ~s.ok \/ name \notin DOMAIN s.defs THEN [s |-> Throw(s), v |-> -1]
  ELSE IF label \in DOMAIN s.defs[name] THEN [s |-> s, v |-> s.defs[name][label]]
  ELSE ReadVariableRecursive(s, g, name, label)

(***************************************************************************)
(* Instructions.  A constant becomes a variable of its own; a field is     *)
(* left as it is.                                                          *)
(***************************************************************************)
EncodeConstant(s, label, e) ==
  LET name == <<"const" \o ToString(s.value)>>
      set == [op |-> "assign", target |-> VarAccess(name), rhs |-> e, type |-> "regular"]
  IN [s |-> WriteVariable(Insert(Fresh(s, name), label, set), name, label, s.value),
      e |-> VarAccess(name)]

\* the variable access that stands for what was read
Accessed(r) == [s |-> r.s, e |-> VarAccess(NameOf(r.s, r.v))]

RECURSIVE SsaEncode(_, _, _, _)
SsaEncode(s, g, label, e) ==
  CASE e.node = "binary" ->
         LET l == SsaEncode(s, g, label, e.left)
             r == SsaEncode(l.s, g, label, e.right)
         IN [s |-> r.s, e |-> [e EXCEPT !.left = l.e, !.right = r.e]]
    [] e.node = "unary" ->
         LET o == SsaEncode(s, g, label, e.operand)
         IN [s |-> o.s, e |-> [e EXCEPT !.operand = o.e]]
    [] e.node = "const" -> EncodeConstant(s, label, e)
    [] e.node = "var"   -> Accessed(ReadVariable(s, g, e.name, label))
    [] OTHER            -> [s |-> s, e |-> e]

\* the name under which a field that is written is remembered
WrittenName(target) ==
  IF target.node = "field" THEN <<target.inst \o "." \o Head(target.name)>> \o Tail(target.name)
  ELSE target.name

\* the target gets a new version, unless it is an explicit output
Define(s, label, i, keep) ==
  LET ssaName == IF keep THEN i.target.name ELSE Versioned(i.target.name, s.value)
  IN WriteVariable(Insert(Fresh(s, ssaName), label, [i EXCEPT !.target.name = ssaName]),
                   WrittenName(i.target), label, s.value)

\* r: the state after, and the result of, encoding the right-hand side of i
Assign(r, label, i) ==
  LET encoded == [i EXCEPT !.rhs = r.e]
  IN CASE i.type = "in" -> Insert(r.s, label, encoded)
       [] i.target.node = "field" -> Throw(r.s)
       [] OTHER -> Define(r.s, label, encoded, "output" \in Range(Tail(i.target.name)))

VisitAssignment(s, g, label, i) ==
  IF i.type # "out" THEN Assign(SsaEncode(s, g, label, i.rhs), label, i)
  ELSE IF i.rhs.node = "field" THEN Define(s, label, i, FALSE) ELSE Throw(s)

Decide(r, label, i) == Insert(r.s, label, [i EXCEPT !.rhs = r.e])

VisitInstruction(s, g, label, i) ==
  CASE ~s.ok           -> s
    [] i.op = "assign" -> VisitAssignment(s, g, label, i)
    [] i.op = "havoc"  -> IF i.target.node = "field" THEN Throw(s)
                          ELSE Define(s, label, i, "output" \in Range(Tail(i.target.name)))
    [] i.op = "if"     -> Decide(SsaEncode(s, g, label, i.rhs), label, i)
    [] i.op = "call"   -> Insert(s, label, i)

Visit(s, g, label) ==
  [FoldLeft(LAMBDA t, i : VisitInstruction(t, g, label, i), s, g.code[label])
     EXCEPT !.filled = @ \union {label}]

(***************************************************************************)
(* Before the worklist: a definition of every variable at the entry.       *)
(***************************************************************************)
DefineInitially(s, g, v) ==
  LET ssaName == IF HasSuffix(v.name) THEN v.name ELSE Versioned(v.name, s.value)
      defined == WriteVariable(Fresh(s, ssaName), v.name, g.entry, s.value)
  IN IF v.storage = "temporary" THEN s
     ELSE [defined EXCEPT !.initial = (v.name :> ssaName) @@ @]

\* Mutant of ReturnLabels: no block is sealed in advance
ReturnLabelsNone(g) == {}

ReturnLabels(g) == {e.dst : e \in {f \in Range(g.edges) : f.type = "call-to-return"}}

\* the ends of a program hold no instruction, those of a function block do
StartSsa(g, name, value) ==
  [FoldLeft(LAMBDA s, v : DefineInitially(s, g, v), NewSsa(name, value), g.vars) EXCEPT
     !.filled = IF IsBlock(g) THEN {} ELSE {g.entry, g.exit},
     !.sealed = {g.entry} \union ReturnLabels(g),
     !.queue  = <<g.entry>>]

(***************************************************************************)
(* One turn of the worklist.                                               *)
(***************************************************************************)
IsSealable(s, g, label) == Range(Preceding(g, label)) \subseteq s.filled

Push(s, labels) == [s EXCEPT !.queue = @ \o labels]

LocalSucceeding(g, label) ==
  LET local == Filter(Outgoing(g, label), LAMBDA e : e.type \notin {"call", "return"})
  IN [i \in DOMAIN local |-> local[i].dst]

Sealed(s, g, label) ==
  IF IsSealable(s, g, label) THEN [s EXCEPT !.sealed = @ \union {label}] ELSE s

\* what is to be done behind a block; at the exit, if it could be sealed
Onward(s, g, label) ==
  CASE label = g.entry -> <<Succeeding(g, label)[1]>>
    [] label \notin s.sealed -> <<>>
    [] OTHER -> LocalSucceeding(g, label)

\* the entry is sealed in advance and visited whether it counts as filled or
\* not; the exit is visited whether it is sealed or not
VisitBlock(s, g, label) ==
  CASE label \notin s.sealed /\ label # g.exit -> Push(s, <<label>>)
    [] label \in s.sealed \intersect s.filled /\ label # g.entry -> s
    [] OTHER -> Push(Visit(s, g, label), Onward(s, g, label))

Turn(s, g) ==
  LET label == Head(s.queue)
  IN VisitBlock(Sealed([s EXCEPT !.queue = Tail(@)], g, label), g, label)

(***************************************************************************)
(* After it: every variable is read at the exit, and the phis that are     *)
(* left are put in front of their blocks.  An operand is listed under the  *)
(* first label at which it is the definition of the variable; the          *)
(* variable is the part of the operand's name before the underscore.       *)
(***************************************************************************)
ForcedReads(s, g) ==
  LET read == SelectSeq(g.vars, LAMBDA v : IsElementary(v) /\ v.storage # "temporary")
  IN FoldLeft(LAMBDA t, v : ReadVariable(t, g, v.name, g.exit).s, s, read)

\* Mutant of OperandLabels: where the operand is defined last
OperandLabelsLast(s, operand) ==
  LET defs == s.defs[<<Head(s.vars[operand])>>]
      all == {l \in DOMAIN defs : defs[l] = operand}
  IN IF all = {} THEN {} ELSE {Max(all)}

OperandLabels(s, operand) ==
  LET defs == s.defs[<<Head(s.vars[operand])>>] IN {l \in DOMAIN defs : defs[l] = operand}

PhiOperands(s, phi) ==
  LET listed == {o \in Range(phi.operands) : OperandLabels(s, o) # {}}
      label(o) == Min(OperandLabels(s, o))
  IN [l \in {label(o) : o \in listed} |-> s.vars[CHOOSE o \in listed : label(o) = l]]

PhiInstruction(s, value) ==
  [op |-> "assign", target |-> VarAccess(s.vars[value]), type |-> "regular",
   rhs |-> [node |-> "phi", operands |-> PhiOperands(s, s.phis[value])]]

\* no variable of the name before the underscore: std::map::at throws
OperandsResolve(s) ==
  \A p \in DOMAIN s.phis : \A o \in Range(s.phis[p].operands) :
    o \in DOMAIN s.vars /\ <<Head(s.vars[o])>> \in DOMAIN s.defs

EmitPhis(s) ==
  FoldLeft(LAMBDA t, v : [t EXCEPT !.code = InFront(@, t.phis[v].label, PhiInstruction(t, v))],
           s, Labels(s.phis))

FinalNames(s, g) ==
  [n \in {m \in DOMAIN s.initial : g.exit \in DOMAIN s.defs[m]} |-> NameOf(s, s.defs[n][g.exit])]

\* a block that was never filled has no instructions to be moved
AllFilled(s, g) == DOMAIN g.code \ {g.entry, g.exit} \subseteq DOMAIN s.code

SsaGraph(s, g) ==
  LET at(l) == IF l \in DOMAIN s.code THEN s.code[l] ELSE <<>>
  IN [g EXCEPT !.code = [l \in DOMAIN @ |-> at(l)], !.initial = s.initial,
               !.final = FinalNames(s, g)]
=============================================================================
