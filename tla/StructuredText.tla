---------------------------- MODULE StructuredText ----------------------------
(***************************************************************************)
(* Programs as the parser delivers them - POUs with an interface and a     *)
(* list of statements - and what they mean.  This is the reference the     *)
(* compiler and the passes are compared with: a program is run for some    *)
(* cycles, statement by statement, and its variables are observed at the   *)
(* end of every cycle.                                                     *)
(*                                                                         *)
(* A name is the sequence of its parts between underscores, since two      *)
(* passes take names apart there.  Booleans are the integers 0 and 1.      *)
(***************************************************************************)
EXTENDS Integers, Sequences, SequencesExt, FiniteSetsExt, TLC

Undefined == -9                    \* what reading an unwritten cell yields

Apply(op, l, r) ==
  LET bit(b) == IF b THEN 1 ELSE 0
  IN CASE op = "add" -> l + r
       [] op = "and" -> bit(l = 1 /\ r = 1)
       [] op = "or"  -> bit(l = 1 \/ r = 1)
       [] op = "eq"  -> bit(l = r)
       [] op = "ge"  -> bit(l >= r)
       [] op = "lt"  -> bit(l < r)

(***************************************************************************)
(* A store maps cells to values.  A cell is a variable of a POU instance,  *)
(* and an instance is named by the path of instance names leading to it.   *)
(***************************************************************************)
Main == <<>>
Oracle == <<<<"oracle">>, <<"oracle">>>>       \* what nondet() returns

Cell(frame, ref) ==
  IF ref.node = "field" THEN <<Append(frame, ref.inst), ref.name>> ELSE <<frame, ref.name>>

Content(store, cell) == IF cell \in DOMAIN store THEN store[cell] ELSE Undefined

Put(store, cell, v) == (cell :> v) @@ store

RECURSIVE Value(_, _, _)
Value(e, frame, store) ==
  CASE e.node = "const"  -> e.value
    [] e.node = "nondet" -> store[Oracle]
    [] e.node = "unary"  -> 1 - Value(e.operand, frame, store)
    [] e.node = "binary" -> Apply(e.op, Value(e.left, frame, store), Value(e.right, frame, store))
    [] OTHER             -> Content(store, Cell(frame, e))

(***************************************************************************)
(* Interfaces: a variable has a name, a storage class and a type, which is *)
(* "BOOL", "INT" or the name of the POU it is an instance of.              *)
(***************************************************************************)
IsElementary(v) == v.type \in {"BOOL", "INT"}

Stored(vars, storage) == SelectSeq(vars, LAMBDA v : IsElementary(v) /\ v.storage = storage)

Names(vars) == {vars[i].name : i \in DOMAIN vars}

TypeOf(vars, inst) == vars[CHOOSE i \in DOMAIN vars : vars[i].name = <<inst>>].type

Instances(vars) == SelectSeq(vars, LAMBDA v : ~IsElementary(v))

(***************************************************************************)
(* Statements.                                                             *)
(***************************************************************************)
Branches(s) ==         \* of an IF or a CASE, each with its condition
  IF s.node = "case" THEN s.cases ELSE <<[cond |-> s.cond, body |-> s.then]>> \o s.elsifs

RECURSIVE Exec(_, _, _, _, _)
Exec(pous, name, frame, statements, store) ==
  IF statements = <<>> THEN store
  ELSE
    LET s == Head(statements)
        run(body, st) == Exec(pous, name, frame, body, st)
        taken == SelectInSeq(Branches(s), LAMBDA b : Value(b.cond, frame, store) = 1)
        assign(st, a) == Put(st, Cell(frame, a.target), Value(a.rhs, frame, st))
        callee == TypeOf(pous[name].vars, s.inst)
    IN run(Tail(statements),
         CASE s.node = "assign" -> assign(store, s)
           [] s.node \in {"if", "case"} ->
                run(IF taken = 0 THEN s.else ELSE Branches(s)[taken].body, store)
           [] s.node = "while" ->
                IF Value(s.cond, frame, store) = 1 THEN run(s.body \o <<s>>, store) ELSE store
           [] s.node = "call" ->
                FoldLeft(assign,
                         Exec(pous, callee, Append(frame, s.inst), pous[callee].body,
                              FoldLeft(assign, store, s.pre)),
                         s.post))

(***************************************************************************)
(* A run over some cycles: the inputs are set, the body is executed, and   *)
(* the variables of the program are observed.                              *)
(***************************************************************************)
RECURSIVE Zeroed(_, _, _)
Zeroed(pous, name, frame) ==
  LET vars == pous[name].vars
  IN FoldLeft(LAMBDA store, v :
                IF IsElementary(v) THEN Put(store, <<frame, v.name>>, 0)
                ELSE Zeroed(pous, v.type, Append(frame, v.name[1])) @@ store,
              <<>>, vars)

InitialStore(project, oracle) == Put(Zeroed(project.pous, project.main, Main), Oracle, oracle)

WithInputs(store, inputs) == [x \in {<<Main, n>> : n \in DOMAIN inputs} |-> inputs[x[2]]] @@ store

MainVars(project) == project.pous[project.main].vars

Observed(project, store) ==
  [n \in Names(SelectSeq(MainVars(project), IsElementary)) |-> Content(store, <<Main, n>>)]

CyclesRun == 2

InputSequences(project) ==
  [1..CyclesRun -> [Names(Stored(MainVars(project), "input")) -> {0, 1}]]

Oracles == {0, 1}

RunOnce(project, store) ==
  Exec(project.pous, project.main, Main, project.pous[project.main].body, store)

\* what the program's variables are after each cycle
Meaning(project, inputs, oracle) ==
  LET stores[c \in 0..CyclesRun] ==
        IF c = 0 THEN InitialStore(project, oracle)
        ELSE RunOnce(project, WithInputs(stores[c - 1], inputs[c]))
  IN [c \in 1..CyclesRun |-> Observed(project, stores[c])]
=============================================================================
