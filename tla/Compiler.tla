------------------------------- MODULE Compiler -------------------------------
(***************************************************************************)
(* PouCompiler and the graph builder.  The compiler numbers the            *)
(* instructions of all POUs with one counter.  An assignment is followed   *)
(* by an explicit goto; the last statement of a branch jumps to where the  *)
(* enclosing statement ends, which is not known yet: it gets a placeholder *)
(* (a negative label) that the outermost statement replaces when it is     *)
(* complete.  A branch that is missing jumps where the last instruction    *)
(* compiled so far jumps.                                                  *)
(***************************************************************************)
EXTENDS StructuredText

(***************************************************************************)
(* The compiler's members: the label counter, the placeholders, the flag   *)
(* that the statement compiled next is the last of a branch, the           *)
(* instructions of the POU at hand, and the modules compiled so far.  ok   *)
(* is false once it has thrown or left defined behaviour.                  *)
(***************************************************************************)
NewCompiler ==
  [label |-> 0, placeholder |-> -1, placeholders |-> <<>>, last |-> FALSE,
   code |-> <<>>, modules |-> <<>>, ok |-> TRUE]

Abort(c) == [c EXCEPT !.ok = FALSE]
Top(c)   == Last(c.placeholders)
Pop(c)   == [c EXCEPT !.placeholders = Front(@)]

PushFresh(c) ==
  [c EXCEPT !.placeholder = @ - 1, !.placeholders = Append(@, c.placeholder - 1)]

Skip(c) == [c EXCEPT !.label = @ + 1]

EmitAt(c, label, instruction) == [c EXCEPT !.code = @ @@ (label :> instruction)]

Emit(c, instruction) == Skip(EmitAt(c, c.label, instruction))

Goto(to) == [op |-> "goto", to |-> to]

Branch(cond, then, else) == [op |-> "if", rhs |-> cond, then |-> then, else |-> else]

\* where the statement compiled next continues: after the enclosing one when
\* it is the last of a branch
Continuation(c) == IF c.last THEN Top(c) ELSE c.label

(***************************************************************************)
(* The target of a missing branch: that of the last instruction compiled,  *)
(* which has to be a goto, or in one of three places a call.               *)
(***************************************************************************)
LastInstruction(c) == c.code[Max(DOMAIN c.code)]

LeadsOn(c, kinds) == DOMAIN c.code # {} /\ LastInstruction(c).op \in kinds

\* Mutant of TargetOfLast: the missing branch continues at the next label
TargetOfLastNext(c) == c.label

TargetOfLast(c) ==
  LET i == LastInstruction(c) IN IF i.op = "call" THEN i.return ELSE i.to

\* the placeholder on top stands for `next`
Resolve(c, next) ==
  LET at(l) == IF l = Top(c) THEN next ELSE l
      set(i) == CASE i.op = "goto"  -> [i EXCEPT !.to = at(@)]
                  [] i.op = "if"    -> [i EXCEPT !.then = at(@), !.else = at(@)]
                  [] i.op = "while" -> [i EXCEPT !.exit = at(@)]
                  [] i.op = "call"  -> [i EXCEPT !.return = at(@)]
                  [] OTHER          -> i
  IN Pop([c EXCEPT !.code = [l \in DOMAIN @ |-> set(@[l])]])

(***************************************************************************)
(* Assignments.                                                            *)
(***************************************************************************)
CompileAssignment(c, target, rhs, type) ==
  LET assigned ==
        Emit(c, IF rhs.node = "nondet" THEN [op |-> "havoc", target |-> target]
                ELSE [op |-> "assign", target |-> target, rhs |-> rhs, type |-> type])
  IN Emit(assigned, Goto(IF c.last THEN Top(c) ELSE assigned.label + 1))

(***************************************************************************)
(* Invocations: parameters in, the call, parameters out.  Parameters that  *)
(* the statement does not mention are completed by identities.             *)
(***************************************************************************)
Field(inst, name) == [node |-> "field", inst |-> inst, name |-> name]

Missing(names, assigned) == SelectSeq(names, LAMBDA n : n \notin assigned)

Completed(s, vars, storage, given, mentioned) ==
  LET all == [i \in DOMAIN Stored(vars, storage) |-> Stored(vars, storage)[i].name]
      identity(n) == [target |-> Field(s.inst, n), rhs |-> Field(s.inst, n)]
      missing == Missing(all, mentioned)
  IN given \o [i \in DOMAIN missing |-> identity(missing[i])]

CompileInvocation(c0, pous, vars, s) ==
  LET callee == TypeOf(vars, s.inst)
      interface == pous[callee].vars
      last == c0.last
      ins  == Completed(s, interface, "input", s.pre, {s.pre[i].target.name : i \in DOMAIN s.pre})
      outs == Completed(s, interface, "output", s.post, {s.post[i].rhs.name : i \in DOMAIN s.post})
      in(c, a) == CompileAssignment(c, a.target, a.rhs, "in")
      out(c, i) == CompileAssignment([c EXCEPT !.last = last /\ i = Len(outs)],
                                     outs[i].target, outs[i].rhs, "out")
      before == FoldLeft(in, [c0 EXCEPT !.last = FALSE], ins)
      at == before.label
      called(c, return) ==
        EmitAt(c, at, [op |-> "call", inst |-> s.inst, return |-> return,
                       entry |-> c.modules[callee].entry])
  IN IF outs = <<>>
     THEN LET c == [Skip(before) EXCEPT !.last = last] IN called(c, Continuation(c))
     ELSE called(FoldLeft(out, Skip(before), [i \in DOMAIN outs |-> i]), at + 1)

(***************************************************************************)
(* Statements.  A branch is compiled with the flag set for its last        *)
(* statement.                                                              *)
(***************************************************************************)
RECURSIVE Compile(_, _, _, _)

CompileAll(c, pous, vars, statements) ==
  FoldLeft(LAMBDA d, s : Compile(d, pous, vars, s), c, statements)

CompileBranch(c, pous, vars, body) ==
  [Compile([CompileAll(c, pous, vars, Front(body)) EXCEPT !.last = TRUE], pous, vars, Last(body))
     EXCEPT !.last = FALSE]

NonEmpty(elsifs) == SelectSeq(elsifs, LAMBDA b : b.body # <<>>)

\* the decision at the label, once its branch has been compiled: the other
\* branch is what follows, if there is more of the statement
DecideAt(label, cond, d, more, kinds) ==
  LET at(else) == EmitAt(d, label, Branch(cond, label + 1, else))
  IN CASE more -> at(d.label)
       [] LeadsOn(d, kinds) -> at(TargetOfLast(d))
       [] OTHER -> Abort(d)

CompileThen(c, pous, vars, s) ==
  IF s.then = <<>> THEN c
  ELSE DecideAt(c.label, s.cond, CompileBranch(Skip(c), pous, vars, s.then),
                NonEmpty(s.elsifs) # <<>> \/ s.else # <<>>, {"goto", "call"})

\* an ELSIF without statements makes the loop over its statements run past
\* the end
CompileElsif(c, pous, vars, s, i) ==
  IF s.elsifs[i].body = <<>> THEN Abort(c)
  ELSE DecideAt(c.label, s.elsifs[i].cond, CompileBranch(Skip(c), pous, vars, s.elsifs[i].body),
                i < Len(s.elsifs) \/ s.else # <<>>, {"goto"})

CompileElsifs(c, pous, vars, s) ==
  IF NonEmpty(s.elsifs) = <<>> THEN c
  ELSE FoldLeft(LAMBDA d, i : CompileElsif(d, pous, vars, s, i), c, [i \in DOMAIN s.elsifs |-> i])

\* with nothing but an ELSE, the last condition decides
DecideElse(label, s, d) ==
  LET cond == IF s.elsifs = <<>> THEN s.cond ELSE Last(s.elsifs).cond
  IN IF LeadsOn(d, {"goto"}) THEN EmitAt(d, label, Branch(cond, TargetOfLast(d), label + 1))
     ELSE Abort(d)

CompileElse(c, pous, vars, s) ==
  CASE s.else = <<>> -> c
    [] s.then # <<>> \/ NonEmpty(s.elsifs) # <<>> -> CompileBranch(c, pous, vars, s.else)
    [] OTHER -> DecideElse(c.label, s, CompileBranch(Skip(c), pous, vars, s.else))

\* a statement that is not the last of a branch has a placeholder of its own
Open(c) == IF c.last THEN [c EXCEPT !.last = FALSE] ELSE PushFresh(c)

Close(c, last) == IF last THEN [c EXCEPT !.last = TRUE] ELSE Resolve(c, c.label)

CompileIf(c, pous, vars, s) ==
  IF s.then = <<>> /\ NonEmpty(s.elsifs) = <<>> /\ s.else = <<>>
  THEN IF c.last THEN Open(c) ELSE Pop(Open(c))
  ELSE Close(CompileElse(CompileElsifs(CompileThen(Open(c), pous, vars, s), pous, vars, s),
                         pous, vars, s),
             c.last)

\* the body has a placeholder of its own, which stands for the header
Repeat(c, header, cond) ==
  EmitAt(c, header, [op |-> "while", rhs |-> cond, body |-> header + 1, exit |-> Continuation(c)])

CompileWhile(c, pous, vars, s) ==
  LET opened == Skip(PushFresh([c EXCEPT !.last = FALSE]))
  IN IF s.body = <<>> THEN [c EXCEPT !.last = FALSE]
     ELSE Repeat([Resolve(CompileBranch(opened, pous, vars, s.body), c.label) EXCEPT !.last = c.last],
                 c.label, s.cond)

Lowered(s) ==
  [node |-> "if", cond |-> s.cases[1].cond, then |-> s.cases[1].body,
   elsifs |-> Tail(s.cases), else |-> s.else]

Compile(c, pous, vars, s) ==
  IF ~c.ok THEN c
  ELSE CASE s.node = "assign" -> CompileAssignment(c, s.target, s.rhs, "regular")
         [] s.node = "call"   -> CompileInvocation(c, pous, vars, s)
         [] s.node = "if"     -> CompileIf(c, pous, vars, s)
         [] s.node = "while"  -> CompileWhile(c, pous, vars, s)
         [] s.node = "case"   -> CompileIf(c, pous, vars, Lowered(s))

(***************************************************************************)
(* A POU is compiled after the POUs it has instances of.                   *)
(***************************************************************************)
EndModule(c, name, entry) ==
  [Skip(c) EXCEPT !.modules = (name :> [entry |-> entry, exit |-> c.label, code |-> c.code]) @@ @,
                  !.code = <<>>]

CompileBody(c, pous, name) ==
  EndModule(CompileAll(Skip(c), pous, pous[name].vars, pous[name].body), name, c.label)

RECURSIVE CompilePou(_, _, _)
CompilePou(c, pous, name) ==
  IF name \in DOMAIN c.modules \/ ~c.ok THEN c
  ELSE CompileBody(FoldLeft(LAMBDA d, v : CompilePou(d, pous, v.type), c, Instances(pous[name].vars)),
                   pous, name)

(***************************************************************************)
(* The builder turns a module into a graph: gotos become edges that leave  *)
(* the label before theirs.                                                *)
(***************************************************************************)
EdgeOf(src, dst, type) == [src |-> src, dst |-> dst, type |-> type, call |-> -1]

ReturnEdge(src, dst, call) == [src |-> src, dst |-> dst, type |-> "return", call |-> call]

InOrder(labels) ==
  FoldSet(LAMBDA x, s : SelectSeq(s, LAMBDA y : y < x) \o <<x>> \o SelectSeq(s, LAMBDA y : y > x),
          <<>>, labels)

Labels(f) == InOrder(DOMAIN f)

BuiltEdges(modules, vars, m, label) ==
  LET i == m.code[label]
  IN CASE i.op = "goto"  -> <<EdgeOf(label - 1, i.to, "intra")>>
       [] i.op = "if"    -> <<EdgeOf(label, i.then, "true"), EdgeOf(label, i.else, "false")>>
       [] i.op = "while" -> <<EdgeOf(label, i.body, "true"), EdgeOf(label, i.exit, "false")>>
       [] i.op = "call"  ->
            <<EdgeOf(label, i.entry, "call"), EdgeOf(label, i.return, "call-to-return"),
              ReturnEdge(modules[TypeOf(vars, i.inst)].exit, i.return, label)>>
       [] OTHER          -> <<>>

Build(pous, modules, name) ==
  LET m == modules[name]
      vars == pous[name].vars
      own == {l \in DOMAIN m.code : m.code[l].op # "goto"}
      edges == FoldLeft(LAMBDA es, l : es \o BuiltEdges(modules, vars, m, l), <<>>, Labels(m.code))
      same == [n \in Names(vars) |-> n]
  IN [kind |-> pous[name].kind, vars |-> vars, entry |-> m.entry, exit |-> m.exit,
      code |-> [l \in own |-> <<m.code[l]>>] @@ (m.entry :> <<>>) @@ (m.exit :> <<>>),
      edges |-> <<EdgeOf(m.entry, m.entry + 1, "intra")>> \o edges,
      initial |-> same, final |-> same]
=============================================================================
