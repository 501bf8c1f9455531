----------------------------- MODULE GraphPasses -----------------------------
(***************************************************************************)
(* The passes over graphs other than the SSA construction, and how a graph *)
(* is run.  A vertex holds a sequence of instructions; a graph of a POU is *)
(* a record as Compiler!Build returns it.                                  *)
(***************************************************************************)
EXTENDS Compiler

Filter(edges, Test(_)) == SelectSeq(edges, Test)
Outgoing(g, label) == Filter(g.edges, LAMBDA e : e.src = label)
Incoming(g, label) == Filter(g.edges, LAMBDA e : e.dst = label)
Succeeding(g, label) == [i \in DOMAIN Outgoing(g, label) |-> Outgoing(g, label)[i].dst]
Preceding(g, label)  == [i \in DOMAIN Incoming(g, label) |-> Incoming(g, label)[i].src]

CallToReturn(g, label) ==
  Outgoing(g, label)[SelectInSeq(Outgoing(g, label), LAMBDA e : e.type = "call-to-return")]

\* the first one, when several calls return to the same label
InterproceduralReturn(g, label) ==
  Incoming(g, label)[SelectInSeq(Incoming(g, label), LAMBDA e : e.type = "return")]

Kind(g, label) == g.code[label][1].op         \* of a vertex with one instruction

(***************************************************************************)
(* Decision transformation: a vertex of its own on either branch of every  *)
(* decision, numbered from 9000.  The graph of a POU is transformed once   *)
(* per POU that holds an instance of it, and of the copies of a decision   *)
(* only the first is remembered.                                           *)
(***************************************************************************)
FirstIntermediate == 9000

IsDecision(code) == code # <<>> /\ Last(code).op \in {"if", "while"}

Decisions(g) == SelectSeq(Labels(g.code), LAMBDA l : IsDecision(g.code[l]))

Intermediate(successors, e) == successors[e.src][IF e.type = "true" THEN 1 ELSE 2]

\* Mutant of Split: one label is used twice
SplitShort(d, label) ==
  [d EXCEPT !.label = @ + 1,
            !.successors = @ @@ (label :> <<d.label, d.label + 1>>),
            !.fresh = @ \union {d.label, d.label + 1}]

Split(d, label) ==
  [d EXCEPT !.label = @ + 2,
            !.successors = @ @@ (label :> <<d.label, d.label + 1>>),
            !.fresh = @ \union {d.label, d.label + 1}]

\* d: the next label, the successors remembered, and the graphs in the order
\* they were transformed, the callees of a POU before it
RECURSIVE TransformDecisions(_, _, _)
TransformDecisions(d0, graphs, name) ==
  LET g == graphs[name]
      types == {v.type : v \in Range(Instances(g.vars))}
      d1 == FoldSet(LAMBDA t, d : TransformDecisions(d, graphs, t), d0, types)
      d2 == FoldLeft(Split, [d1 EXCEPT !.fresh = {}], Decisions(g))
      via(e) == Intermediate(d2.successors, e)
      edge(e) == IF e.type \in {"true", "false"}
                 THEN <<[e EXCEPT !.dst = via(e)], EdgeOf(via(e), e.dst, "intra")>>
                 ELSE <<e>>
      copy == [g EXCEPT !.code = @ @@ [l \in d2.fresh |-> <<>>],
                        !.edges = FlattenSeq([i \in DOMAIN @ |-> edge(@[i])])]
  IN [d2 EXCEPT !.copies = Append(@, [name |-> name, graph |-> copy])]

NewTransformation == [label |-> FirstIntermediate, successors |-> <<>>, fresh |-> {}, copies |-> <<>>]

(***************************************************************************)
(* Basic blocks: a leader starts a block, which runs on over assignments   *)
(* up to the next leader, or to a decision or a call that it includes.     *)
(***************************************************************************)
LeadersAt(g, label) ==
  LET merge == IF Len(Preceding(g, label)) > 1 THEN {label} ELSE {}
      of(op) == CASE op = "call"  -> {CallToReturn(g, label).dst}
                  [] op = "if"    -> Range(Succeeding(g, label))
                  [] op = "while" -> {label} \union Range(Succeeding(g, label))
                  [] OTHER        -> {}
  IN merge \union
     (CASE label = g.entry -> {label} \union Range(Succeeding(g, label))
        [] label = g.exit  -> {label}
        [] OTHER           -> of(Kind(g, label)))

Leaders(g) == UNION {LeadersAt(g, l) : l \in DOMAIN g.code}

RECURSIVE BlockOf(_, _, _)
BlockOf(g, leaders, labels) ==
  LET next == Succeeding(g, Last(labels))[1]
  IN IF Kind(g, Last(labels)) \notin {"assign", "havoc"} \/ next \in leaders THEN labels
     ELSE BlockOf(g, leaders, Append(labels, next))

BlockEdges(g, leader, labels) ==
  LET out == Outgoing(g, Last(labels))
      return == InterproceduralReturn(g, CallToReturn(g, Last(labels)).dst)
      own == IF Len(labels) > 1 THEN [return EXCEPT !.call = leader] ELSE return
  IN [i \in DOMAIN out |-> [out[i] EXCEPT !.src = leader]]
     \o IF Kind(g, Last(labels)) = "call" THEN <<own>> ELSE <<>>

Blocks(g) ==
  LET leaders == Leaders(g)
      blocks == [l \in leaders \ {g.entry, g.exit} |-> BlockOf(g, leaders, <<l>>)]
      ends == (g.entry :> <<>>) @@ (g.exit :> <<>>)
      edges(l) == IF l = g.entry THEN Outgoing(g, l)
                  ELSE IF l = g.exit THEN <<>> ELSE BlockEdges(g, l, blocks[l])
      order == InOrder(leaders)
  IN [g EXCEPT !.code = ends @@ [l \in DOMAIN blocks |->
                                   [i \in DOMAIN blocks[l] |-> g.code[blocks[l][i]][1]]],
               !.edges = FlattenSeq([i \in DOMAIN order |-> edges(order[i])])]

(***************************************************************************)
(* Three-address code: an operand that is an operation itself is computed  *)
(* into a temporary in front of the instruction.  The temporaries of all   *)
(* POUs are numbered with one counter, which no constructor initialises.   *)
(***************************************************************************)
VarAccess(name) == [node |-> "var", name |-> name]

IsOperation(e) == e.node \in {"binary", "unary"}

\* t: the counter and the instructions emitted for the vertex; the expression
\* it is left with is t.e
Temporary(t) ==
  LET name == <<"temp" \o ToString(t.value)>>
      set == [op |-> "assign", target |-> VarAccess(name), rhs |-> t.e, type |-> "regular"]
  IN [t EXCEPT !.value = @ + 1, !.e = VarAccess(name), !.code = Append(@, set)]

RECURSIVE TacEncode(_, _)

Simple(t, kinds) == IF t.e.node \in kinds THEN Temporary(t) ELSE t

TacOperand(t, e, kinds) == Simple(TacEncode(t, e), kinds)

TacEncode(t, e) ==
  CASE e.node = "binary" ->
         LET l == TacOperand(t, e.left, {"binary", "unary"})
             r == TacOperand(l, e.right, {"binary", "unary"})
         IN [r EXCEPT !.e = [e EXCEPT !.left = l.e, !.right = r.e]]
    [] e.node = "unary" ->
         LET o == TacOperand(t, e.operand, {"binary"})
         IN [o EXCEPT !.e = [e EXCEPT !.operand = o.e]]
    [] OTHER -> [t EXCEPT !.e = e]

\* the condition of a decision is not an operation
TacCondition(t) == IF IsOperation(t.e) THEN Temporary(t) ELSE t

\* the instruction with the expression that is left
TacAppend(t, i) == [t EXCEPT !.code = Append(@, [i EXCEPT !.rhs = t.e])]

TacInstruction(t, i) ==
  CASE i.op = "assign" -> TacAppend(TacEncode(t, i.rhs), i)
    [] i.op = "if"     -> TacAppend(TacCondition(TacEncode(t, i.rhs)), i)
    [] OTHER           -> [t EXCEPT !.code = Append(@, i)]

Temporaries(code, vars) ==
  LET targets == {i.target.name : i \in {j \in Range(code) : j.op = "assign" /\ j.target.node = "var"}}
  IN targets \ Names(vars)

Collect(t, label) == [t EXCEPT !.all = (label :> t.code) @@ @]

TacVertex(t, g, label) ==
  Collect(FoldLeft(TacInstruction, [t EXCEPT !.code = <<>>], g.code[label]), label)

Declared(names) ==
  FoldSet(LAMBDA n, d : Append(d, [name |-> n, storage |-> "temporary", type |-> "INT"]), <<>>, names)

\* t: the instructions of all vertices
TacGraph(t, g) ==
  [g EXCEPT !.code = t.all,
            !.vars = @ \o Declared(UNION {Temporaries(t.all[l], g.vars) : l \in DOMAIN t.all})]

\* s: the counter and the graphs transformed; a WHILE is not implemented
TacPou(s, graphs, name) ==
  LET g == graphs[name]
      start == [value |-> s.value, e |-> 0, code |-> <<>>, all |-> <<>>]
      add(t) == [value |-> t.value, graphs |-> (name :> TacGraph(t, g)) @@ s.graphs]
  IN add(FoldLeft(LAMBDA t, l : TacVertex(t, g, l), start, Labels(g.code)))

HasWhile(graphs) ==
  \E n \in DOMAIN graphs : \E l \in DOMAIN graphs[n].code :
    \E i \in Range(graphs[n].code[l]) : i.op = "while"
=============================================================================
