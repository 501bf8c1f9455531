-------------------------- MODULE Summarization --------------------------
(***************************************************************************)
(* The summarization engine (src/ahorn/src/se/summarization): before the   *)
(* program is executed it explores every path of every function block that *)
(* the program calls and keeps one summary per path.                       *)
(*                                                                         *)
(* A path context is a record                                              *)
(*   name, scope   the function block and the instance it is explored for  *)
(*   label         the current vertex                                      *)
(*   literals      the labels visited so far: the chain of assumption      *)
(*                 literals b_<scope>_<label>                              *)
(*   assumptions   the literals <<term, sign>> assumed, in path order      *)
(*   hard          the assignments [name, term] made, in path order        *)
(*   ver           the context's version of every variable of the instance *)
(*   val           what the names of the path stand for: a name is mapped  *)
(*                 to the set of start environments in which it is true    *)
(* A start environment is the set of the instance's variables that are true*)
(* at its entry; nothing is assumed about them.                            *)
(***************************************************************************)
EXTENDS SymbolicContext

CONSTANTS
  Programs,              \* identifiers of the programs to summarize
  Code                   \* the control-flow graphs of each of them

(* What Engine::initialize asserts, that a function block that it explores *)
(* has no callees: such a block only refers to variables of its own.       *)
OneCalleeDepth(p) ==
  \A s \in DOMAIN p.scopes : Len(s) > 1 =>
    \A l \in DOMAIN CfgOf(p, s).vertices :
      LET v == CfgOf(p, s).vertices[l]
      IN  /\ v.op # "call"
          /\ \A ref \in References(v) : Flatten(s, ref) \in {s} \X CfgOf(p, s).vars
          /\ v.op = "assign" => IsExpression(v.rhs)
          /\ v.op = "if" => IsExpression(v.cond)

ASSUME SummarizedCodeAssumption ==
  \A q \in Programs :
    /\ WellFormed(Code[q]) /\ ReferencesResolve(Code[q]) /\ OneCalleeDepth(Code[q])
    /\ IsFiniteSet(DOMAIN MainCfg(Code[q]).vertices)

VARIABLES
  prog,                  \* the program given to Engine::run
  explorer,              \* Explorer::_contexts, a stack
  version,               \* Executor::_flattened_name_to_version
  summaries              \* Summarizer::_name_to_summaries

vars == <<prog, explorer, version, summaries>>

P == Code[prog]

-----------------------------------------------------------------------------
(* Engine::initialize: of the calls of each function block the first one   *)
(* is explored, in the order of the labels.                                *)
CalledAt(p, l) == p.scopes[<<p.main, MainCfg(p).vertices[l].instance>>]

FirstCalls(p) ==
  LET calls == {l \in DOMAIN MainCfg(p).vertices : MainCfg(p).vertices[l].op = "call"}
  IN  {l \in calls : \A k \in calls : CalledAt(p, k) = CalledAt(p, l) => l <= k}

InitialPath(p, l) ==
  LET name == CalledAt(p, l)
      scope == <<p.main, MainCfg(p).vertices[l].instance>>
      g == p.cfgs[name]
  IN  [name |-> name, scope |-> scope, label |-> g.entry, literals |-> <<g.entry>>,
       assumptions |-> <<>>, hard |-> <<>>,
       ver |-> [x \in {scope} \X g.vars |-> 0],
       val |-> [n \in ({scope} \X g.vars) \X {0} |->
                  {env \in Environments(g) : n[1][2] \in env}]]

Init ==
  /\ prog \in Programs
  /\ LET Rank(l) == Cardinality({k \in FirstCalls(P) : k <= l})
     IN  explorer = [i \in 1 .. Cardinality(FirstCalls(P)) |->
                       InitialPath(P, CHOOSE l \in FirstCalls(P) : Rank(l) = i)]
  /\ version = [x \in FlattenedInterface(P) |-> 0]
  /\ summaries = <<>>

-----------------------------------------------------------------------------
(* Engine::step pops the last context, executes it and pushes the contexts *)
(* that succeed it.                                                        *)
Current == explorer[Len(explorer)]
Graph == P.cfgs[Current.name]
Vertex == Graph.vertices[Current.label]

Push(contexts) ==
  /\ explorer' = SubSeq(explorer, 1, Len(explorer) - 1) \o contexts
  /\ UNCHANGED prog

(* The assumption literal of the next vertex is related to the current one.*)
Follow(d, next) == [d EXCEPT !.label = next, !.literals = Append(@, next)]

(* Encoder::encode of the summarization: names carry no cycle.             *)
EncodeInPath(d, e) ==
  [op |-> e.op, args |-> [i \in DOMAIN e.args |->
                            LET x == Flatten(d.scope, e.args[i]) IN <<x, d.ver[x]>>]]

EnvironmentsOf(p, d, term) ==
  Meaning(Environments(p.cfgs[d.name]), term.op,
          [i \in DOMAIN term.args |-> d.val[term.args[i]]])

(* The start environments that satisfy the assumptions of the path.        *)
Feasible(p, d) ==
  {env \in Environments(p.cfgs[d.name]) :
     \A i \in DOMAIN d.assumptions :
       (env \in EnvironmentsOf(p, d, d.assumptions[i][1])) = d.assumptions[i][2]}

(* The entry vertex and the intermediate vertices of decisions.            *)
HandlePassThroughVertex ==
  /\ explorer # <<>>
  /\ Vertex.type = "ENTRY" \/ (Vertex.type = "REGULAR" /\ Vertex.op = "none")
  /\ Push(<<Follow(Current, SucceedingLabel(Graph, Current.label))>>)
  /\ UNCHANGED <<version, summaries>>

VisitAssignmentInstruction ==
  /\ explorer # <<>>
  /\ Vertex.op = "assign"
  /\ LET x == Flatten(Current.scope, Vertex.var)
         name == <<x, version[x] + 1>>
         term == EncodeInPath(Current, Vertex.rhs)
     IN  /\ version' = [version EXCEPT ![x] = @ + 1]
         /\ Push(<<Follow([Current EXCEPT !.ver[x] = version[x] + 1,
                                    !.hard = Append(@, [name |-> name, term |-> term]),
                                    !.val = Emplace(@, {name}, [n \in {name} |->
                                                      EnvironmentsOf(P, Current, term)])],
                          Target(Graph, Current.label, "INTRAPROCEDURAL"))>>)
  /\ UNCHANGED summaries

(* Mutant: the false branch is always taken up.                            *)
VisitIfWithoutCheck ==
  /\ explorer # <<>>
  /\ Vertex.op = "if"
  /\ LET Branch(sign, type) ==
           Follow([Current EXCEPT !.assumptions =
                     Append(@, <<EncodeInPath(Current, Vertex.cond), sign>>)],
                  Target(Graph, Current.label, type))
     IN  Push(<<Branch(TRUE, "TRUE_BRANCH"), Branch(FALSE, "FALSE_BRANCH")>>)
  /\ UNCHANGED <<version, summaries>>

(* The false branch is not checked when the true branch is unsatisfiable.  *)
(* The forked context is pushed last and so explored first.                *)
VisitIfInstruction ==
  /\ explorer # <<>>
  /\ Vertex.op = "if"
  /\ LET cond == EncodeInPath(Current, Vertex.cond)
         holds == EnvironmentsOf(P, Current, cond)
         Branch(sign, type) ==
           Follow([Current EXCEPT !.assumptions = Append(@, <<cond, sign>>)],
                  Target(Graph, Current.label, type))
         positive == Branch(TRUE, "TRUE_BRANCH")
         negative == Branch(FALSE, "FALSE_BRANCH")
     IN  \/ /\ Feasible(P, Current) \cap holds = {}
            /\ Push(<<negative>>)
         \/ /\ Feasible(P, Current) \cap holds # {}
            /\ Feasible(P, Current) \subseteq holds
            /\ Push(<<positive>>)
         \/ /\ Feasible(P, Current) \cap holds # {}
            /\ ~(Feasible(P, Current) \subseteq holds)
            /\ Push(<<positive, negative>>)
  /\ UNCHANGED <<version, summaries>>

-----------------------------------------------------------------------------
(* Summarizer::summarizePath.                                              *)

(* Mutant: the versions of the exploration are kept.                       *)
KeepVersion(d, n) == n

(* The written names of a variable are numbered from 1 in the order of     *)
(* their versions; a name that is only read gets the number before it.     *)
ReversionInSummary(d, n) ==
  <<n[1], Cardinality({i \in DOMAIN d.hard :
                         d.hard[i].name[1] = n[1] /\ d.hard[i].name[2] <= n[2]})>>

SummaryOf(d) ==
  LET R(n) == ReversionInSummary(d, n)
      RTerm(t) == [t EXCEPT !.args = [i \in DOMAIN @ |-> R(@[i])]]
  IN  [assumptions |-> [i \in DOMAIN d.assumptions |->
                          <<RTerm(d.assumptions[i][1]), d.assumptions[i][2]>>],
       hard |-> [i \in DOMAIN d.hard |-> [name |-> R(d.hard[i].name),
                                          term |-> RTerm(d.hard[i].term)]],
       literals |-> d.literals]

(* Mutant: summaries are compared by how many assumptions they make.       *)
AsManyAssumptions(s, t) == Len(s.assumptions) = Len(t.assumptions)

(* operator== on summaries looks at the assumptions only.                  *)
SameSummary(s, t) == s.assumptions = t.assumptions

(* Mutant: the summarized path stays on the stack.                         *)
SummarizePathAgain ==
  /\ explorer # <<>>
  /\ Vertex.type = "EXIT"
  /\ UNCHANGED vars

SummarizePath ==
  /\ explorer # <<>>
  /\ Vertex.type = "EXIT"
  /\ LET s == SummaryOf(Current)
         known == IF Current.name \in DOMAIN summaries THEN summaries[Current.name] ELSE <<>>
     IN  summaries' =
           IF \E i \in DOMAIN known : SameSummary(known[i], s)
           THEN summaries
           ELSE [n \in DOMAIN summaries \cup {Current.name} |->
                   IF n = Current.name THEN Append(known, s) ELSE summaries[n]]
  /\ Push(<<>>)
  /\ UNCHANGED version

(* Engine::run has returned.                                               *)
Done == explorer = <<>> /\ UNCHANGED vars

Step ==
  \/ HandlePassThroughVertex \/ VisitAssignmentInstruction
  \/ VisitIfInstruction \/ SummarizePath

Next == Step \/ Done

Spec == Init /\ [][Next]_vars /\ WF_vars(Step)
==========================================================================
