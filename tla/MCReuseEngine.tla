-------------------------- MODULE MCReuseEngine --------------------------
(***************************************************************************)
(* The reuse engine on changed programs, against the simulation of their   *)
(* function block in either version.                                       *)
(***************************************************************************)
EXTENDS ReuseEngine, MCPrograms

CONSTANT MaxSteps

(* A program that calls one or two instances of the function block g with  *)
(* the given changes: a function from labels to new expressions.           *)
Changed(g, changes, instances) ==
  LET main == Main({"a", "y"}, {"a"}, 15,
                (10 :> Entry @@ 11 :> Let(Field("f", "in"), Var(Own("a"))) @@ 12 :> Call("f")
                 @@ 13 :> Let(Own("y"), Var(Field("f", "out")))
                 @@ 14 :> (IF "g" \in instances THEN Call("g") ELSE Let(Own("y"), Not(Own("y"))))
                 @@ 15 :> Exit),
                {Flow(10, 11), Flow(11, 12), Flow(13, 14)} \cup CallEdges(12, 1, g.exit, 13)
                  \cup IF "g" \in instances THEN CallEdges(14, 1, g.exit, 15) ELSE {Flow(14, 15)})
      block == [g EXCEPT !.vertices = [l \in DOMAIN @ |->
                  IF l \in DOMAIN changes THEN @[l] @@ ("new" :> changes[l]) ELSE @[l]]]
  IN  [main |-> "P", cfgs |-> [P |-> main, B |-> block],
       scopes |-> [s \in {<<"P">>} \cup {<<"P", i>> : i \in instances} |->
                     IF s = <<"P">> THEN "P" ELSE "B"],
       summaries |-> <<>>, open |-> FALSE]

(* IF in THEN st := NOT st; ELSE out := FALSE; END_IF;                     *)
(* IF st THEN out := in; ELSE out := NOT out; END_IF;  st := out;          *)
TwoDecisions ==
  [type |-> "FUNCTION_BLOCK", entry |-> 1, exit |-> 9,
   vars |-> {"in", "st", "out"}, inputs |-> {"in"},
   init |-> [x \in {"in", "st", "out"} |-> FALSE],
   vertices |-> (1 :> Entry @@ 2 :> If(Var(Own("in"))) @@ 3 :> Let(Own("st"), Not(Own("st")))
                 @@ 4 :> Let(Own("out"), False) @@ 5 :> If(Var(Own("st")))
                 @@ 6 :> Let(Own("out"), Var(Own("in"))) @@ 7 :> Let(Own("out"), Not(Own("out")))
                 @@ 8 :> Let(Own("st"), Var(Own("out"))) @@ 9 :> Exit
                 @@ 9100 :> Between @@ 9101 :> Between @@ 9102 :> Between @@ 9103 :> Between),
   edges |-> {Flow(1, 2), Flow(3, 5), Flow(4, 5), Flow(6, 8), Flow(7, 8), Flow(8, 9)}
               \cup Decision(2, 9100, 3, 9101, 4) \cup Decision(5, 9102, 6, 9103, 7)]

MCChanges ==
  [same |-> Changed(FunctionBlock, <<>>, {"f"}),
   sameTwins |-> Changed(ChoosingBlock, <<>>, {"f", "g"}),
   branch |-> Changed(ChoosingBlock, 3 :> False, {"f"}),
   both |-> Changed(ChoosingBlock, 3 :> False @@ 4 :> True, {"f"}),
   condition |-> Changed(FunctionBlock, 2 :> Not(Own("in")), {"f"}),
   early |-> Changed(FunctionBlock, 3 :> Var(Own("st")), {"f"}),
   inner |-> Changed(TwoDecisions, 6 :> Not(Own("in")), {"f"}),
   outer |-> Changed(TwoDecisions, 3 :> Var(Own("st")), {"f"}),
   widened |-> Changed(FunctionBlock, 2 :> And(Own("in"), Own("st")), {"f"}),
   copied |-> Changed(FunctionBlock, 4 :> Var(Own("in")), {"f"}),
   twins |-> Changed(ChoosingBlock, 3 :> False, {"f", "g"})]

(* The two versions.                                                       *)
NewVertex(v) ==
  IF "new" \notin DOMAIN v THEN v
  ELSE IF v.op = "if" THEN [v EXCEPT !.cond = v.new] ELSE [v EXCEPT !.rhs = v.new]

NewVersion(p) ==
  [p EXCEPT !.cfgs = [n \in DOMAIN @ |->
     [@[n] EXCEPT !.vertices = [l \in DOMAIN @ |-> NewVertex(@[l])]]]]

NewCode == [q \in Programs |-> NewVersion(Code[q])]

New == INSTANCE SummarizationCorrectness WITH
         explorer <- paths, version <- pathVersion, Code <- NewCode

-----------------------------------------------------------------------------

(* The run of the new version through the callee of the call at l, which   *)
(* starts in env, writes in the end what summary s says.                   *)
AgreesWithRun(l, s, env) ==
  LET run == New!CalleeRun(New!P, l, env)
      final == New!Effect(P.cfgs[S!CalledAt(P, l)], s).final
  IN  \A x \in WrittenVariables(s) : (env \in final[x]) = (x[2] \in run.env)

(* Wherever summary s applies, the run of the new version goes along its   *)
(* labels, writes what it says and nothing else.                           *)
IsValid(l, s) ==
  LET h == P.cfgs[S!CalledAt(P, l)]
  IN  \A env \in New!Effect(h, s).applies :
        LET run == New!CalleeRun(New!P, l, env)
        IN  /\ s.literals = run.labels
            /\ AgreesWithRun(l, s, env)
            /\ \A x \in h.vars :
                 x \notin {y[2] : y \in WrittenVariables(s)} => (x \in run.env) = (x \in env)

(* The summaries that the engine returns, kept or made anew, are about the *)
(* new version.  Kept ones need not be (see the README).                   *)
ReusedSummariesAreValid ==
  phase = "done" =>
    \A l \in S!FirstCalls(P) : \A s \in RangeOf(summaries[S!CalledAt(P, l)]) : IsValid(l, s)

(* A summary of the old version is kept exactly when some run of the new   *)
(* version agrees with it: the phases 2 and 3 ask an encoding over literals*)
(* with the equations of both branches of every merge, in which an         *)
(* execution may be missing, or be none.                                   *)
KeptWhenSomeRunAgrees ==
  phase = "regenerate" =>
    \A l \in {k \in S!FirstCalls(P) : S!CalledAt(P, k) = Callee} :
      \A s \in RangeOf(summaries[Callee]) :
        s \in RangeOf(valid[Callee]) <=>
          \E env \in New!Effect(CalleeCfg, s).applies : AgreesWithRun(l, s, env)

(* A summary made anew is exact and reads, in the numbering that the lookup*)
(* relies on, the values at the call and what it has written before,       *)
(* whatever versions the merges and the other branches of the encoding it  *)
(* was read off have used up.                                              *)
RegeneratedSummariesAreExact ==
  \A l \in S!FirstCalls(P) : S!CalledAt(P, l) \in DOMAIN regenerated =>
    \A s \in RangeOf(regenerated[S!CalledAt(P, l)]) : New!IsSelfContained(s) /\ IsValid(l, s)

(* And they are all of it: one applies whatever the values at the call are,*)
(* and of one instance only one does.                                      *)
SummariesCoverNewVersion ==
  phase = "done" =>
    \A l \in S!FirstCalls(P) :
      LET h == P.cfgs[S!CalledAt(P, l)]
          all == summaries[S!CalledAt(P, l)]
          applies == [i \in DOMAIN all |-> New!Effect(h, all[i]).applies]
      IN  \A env \in S!Environments(h) :
            LET applicable == {i \in DOMAIN all : env \in applies[i]}
            IN  /\ applicable # {}
                /\ Cardinality(CallLabels) = 1 => Cardinality(applicable) = 1

(* No summary is made anew whose path meets no change: it is kept.         *)
UnchangedPathsAreKept ==
  (phase = "done" /\ Cardinality(CallLabels) = 1) =>
    \A name \in DOMAIN regenerated : \A i \in DOMAIN regenerated[name] :
      LET s == regenerated[name][i]
          h == P.cfgs[name]
      IN  New!Effect(h, s).applies = {} \/
          \E k \in DOMAIN s.literals : "new" \in DOMAIN h.vertices[s.literals[k]]
==========================================================================
