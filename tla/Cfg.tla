------------------------------- MODULE Cfg -------------------------------
(***************************************************************************)
(* Control-flow graphs of an IEC 61131-3 program, as the symbolic         *)
(* execution engines see them: one graph per POU (the PROGRAM and the     *)
(* function blocks it calls), after the decision transformation pass has  *)
(* put an instruction-less vertex on every branch of a decision.          *)
(*                                                                         *)
(* A program p is a record                                                 *)
(*   main      the name of the PROGRAM                                     *)
(*   cfgs      name -> [type, entry, exit, vertices, edges, vars, inputs,  *)
(*             init]                                                       *)
(*   scopes    scope -> name of the cfg it instantiates; a scope is the    *)
(*             path of instance names from the program, so <<"P", "f">>    *)
(*             is the variable f of program P                              *)
(*   summaries name -> sequence of the summaries of that function block    *)
(*   open      whether every variable is unconstrained at the start of a   *)
(*             cycle, as the over-approximating engine has it              *)
(*                                                                         *)
(* vertices maps a label to [type, op, ...]; op is "none" for a vertex     *)
(* without an instruction.  An edge is [src, dst, type].  A flattened      *)
(* variable is a pair <<scope, name>>.                                     *)
(***************************************************************************)
EXTENDS Naturals, Sequences, FiniteSets

EdgeTypes == {"INTRAPROCEDURAL", "TRUE_BRANCH", "FALSE_BRANCH", "CALL",
              "CALL_TO_RETURN", "RETURN"}

MainScope(p) == <<p.main>>

CfgOf(p, scope) == p.cfgs[p.scopes[scope]]

MainCfg(p) == CfgOf(p, MainScope(p))

(* Cfg::getOutgoingEdges and Cfg::getIncomingEdges.                        *)
OutgoingEdges(g, l) == {e \in g.edges : e.src = l}

IncomingEdges(g, l) == {e \in g.edges : e.dst = l}

(* Cfg::getTrueEdge, getFalseEdge, getIntraproceduralEdge,                 *)
(* getIntraproceduralCallToReturnEdge, getInterproceduralCallEdge: the     *)
(* target of the one outgoing edge of the given type.                      *)
Target(g, l, type) ==
  (CHOOSE e \in OutgoingEdges(g, l) : e.type = type).dst

(* Cfg::getSucceedingLabels at the vertices that have a single one: entry  *)
(* vertices and the intermediate vertices of a decision.                   *)
SucceedingLabel(g, l) == (CHOOSE e \in OutgoingEdges(g, l) : TRUE).dst

(* Cfg::updateFlattenedInterface: the elementary variables of the program  *)
(* and of every function block instance below it.                          *)
FlattenedInterface(p) ==
  UNION {{s} \X CfgOf(p, s).vars : s \in DOMAIN p.scopes}

(* Only the program's own variables keep their declared initial value: the *)
(* variables made for a nested instance are built without one and start at *)
(* the default of their type.                                              *)
InitialValue(p, x) ==
  IF Len(x[1]) = 1 THEN CfgOf(p, x[1]).init[x[2]] ELSE FALSE

(* Executor::_whole_program_inputs; the over-approximating engine treats   *)
(* every variable as one.                                                  *)
WholeProgramInputs(p) ==
  IF p.open THEN FlattenedInterface(p) ELSE {MainScope(p)} \X MainCfg(p).inputs

(* Where a program makes a variable nondeterministic.                      *)
HavocPoints(p) ==
  UNION {{<<s, "havoc", l>> : l \in {k \in DOMAIN CfgOf(p, s).vertices :
                                      CfgOf(p, s).vertices[k].op = "havoc"}} :
           s \in DOMAIN p.scopes}

(* Merger::initializeMergePoints.  A regular vertex where several edges    *)
(* meet is a merge point unless a call returns to it; every exit vertex is *)
(* one.  A merge point is <<scope, depth, label, return label>>.           *)
IsJoin(g, l) ==
  /\ g.vertices[l].type = "REGULAR"
  /\ Cardinality(IncomingEdges(g, l)) > 1
  /\ \A e \in IncomingEdges(g, l) :
        e.type \notin {"CALL_TO_RETURN", "CALL", "RETURN"}

ReturnLabels(p, s) ==
  IF Len(s) = 1
  THEN {MainCfg(p).entry}
  ELSE LET caller == CfgOf(p, SubSeq(s, 1, Len(s) - 1))
       IN  {Target(caller, l, "CALL_TO_RETURN") :
              l \in {k \in DOMAIN caller.vertices :
                       /\ caller.vertices[k].op = "call"
                       /\ caller.vertices[k].instance = s[Len(s)]}}

MergePoints(p) ==
  UNION {{<<s, Len(s), l, r>> :
            l \in {k \in DOMAIN CfgOf(p, s).vertices :
                     IsJoin(CfgOf(p, s), k)} \cup {CfgOf(p, s).exit},
            r \in ReturnLabels(p, s)} : s \in DOMAIN p.scopes}

(* Explorer::initializeCoverage: what there is to cover, over the program  *)
(* and all its callees.                                                    *)
Statements(p) == UNION {DOMAIN p.cfgs[n].vertices : n \in DOMAIN p.cfgs}

Branches(p) ==
  {l \in Statements(p) : \E n \in DOMAIN p.cfgs :
      /\ l \in DOMAIN p.cfgs[n].vertices
      /\ p.cfgs[n].vertices[l].op = "if"} \X BOOLEAN

(* Mutant: the false branches are not counted.                             *)
TrueBranchesTaken(g, l, k) ==
  {<<l, TRUE>> : e \in {d \in OutgoingEdges(g, l) : d.dst = k /\ d.type = "TRUE_BRANCH"}}

(* The branches the step from l to its successor k takes, as               *)
(* Explorer::updateCoverage finds them among the edges of g.               *)
BranchesTaken(g, l, k) ==
  {<<l, e.type = "TRUE_BRANCH">> :
      e \in {d \in OutgoingEdges(g, l) :
               d.dst = k /\ d.type \in {"TRUE_BRANCH", "FALSE_BRANCH"}}}

-----------------------------------------------------------------------------
(* What the compiler, the graph builder and the decision transformation    *)
(* pass promise of a program.                                              *)

(* Vertex l has an edge of the given type, and each leads into labels.     *)
Leads(g, l, type, labels) ==
  /\ \E e \in OutgoingEdges(g, l) : e.type = type
  /\ \A e \in OutgoingEdges(g, l) : e.type = type => e.dst \in labels

WellFormedVertex(p, s, l) ==
  LET g == CfgOf(p, s)
      v == g.vertices[l]
      labels == DOMAIN g.vertices
      callee == Append(s, v.instance)
  IN  /\ l \in Nat
      /\ v.type \in {"ENTRY", "REGULAR", "EXIT"}
      /\ v.type = "EXIT" <=> l = g.exit
      /\ v.type # "REGULAR" => v.op = "none"
      /\ (v.op = "none" /\ v.type # "EXIT") =>
           /\ OutgoingEdges(g, l) # {}
           /\ \A e \in OutgoingEdges(g, l) : e.dst \in labels
      /\ v.op \in {"assign", "havoc"} => Leads(g, l, "INTRAPROCEDURAL", labels)
      /\ v.op = "if" => /\ Leads(g, l, "TRUE_BRANCH", labels)
                        /\ Leads(g, l, "FALSE_BRANCH", labels)
      /\ v.op = "call" => /\ callee \in DOMAIN p.scopes
                          /\ Leads(g, l, "CALL", DOMAIN CfgOf(p, callee).vertices)
                          /\ Leads(g, l, "CALL_TO_RETURN", labels)

(* Scopes are paths of names; only the program's own has length 1.  The    *)
(* compiler numbers the exit of a POU last, so that no join is above it.   *)
WellFormed(p) ==
  /\ MainScope(p) \in DOMAIN p.scopes
  /\ \A s \in DOMAIN p.scopes :
       LET g == CfgOf(p, s)
       IN  /\ s \in Seq(STRING) /\ s # <<>>
           /\ Len(s) = 1 => s = MainScope(p)
           /\ p.scopes[s] \in DOMAIN p.cfgs
           /\ g.type = IF s = MainScope(p) THEN "PROGRAM" ELSE "FUNCTION_BLOCK"
           /\ {g.entry, g.exit} \subseteq DOMAIN g.vertices
           /\ \A l \in DOMAIN g.vertices :
                WellFormedVertex(p, s, l) /\ (IsJoin(g, l) => l <= g.exit)
           /\ \A e \in g.edges : e.type \in {"TRUE_BRANCH", "FALSE_BRANCH"} =>
                e.src \in DOMAIN g.vertices /\ g.vertices[e.src].op = "if"
==========================================================================
