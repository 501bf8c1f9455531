--------------------------- MODULE ReuseEngine ---------------------------
(***************************************************************************)
(* The reuse engine of src/ahorn/src/se/reuse.  A changed program contains *)
(* both versions: a changed instruction carries the old and the new        *)
(* expression, here the fields rhs or cond and new of its vertex.  The     *)
(* summaries of the old version, made by the summarization engine from the *)
(* program as it was, which has the same vertices and edges, are           *)
(* taken over into the new version when one of three phases finds them     *)
(* valid; the paths that no valid summary covers are summarized anew from  *)
(* an encoding of the new version.                                         *)
(***************************************************************************)
EXTENDS LiteralContext

LOCAL INSTANCE SequencesExt

VARIABLES
  paths,                 \* the stack of the summarization engine
  pathVersion,           \* the versions that engine hands out
  summaries,             \* Summarizer::_name_to_summaries, of either version
  todo,                  \* the calls of the program still to be looked at
  old,                   \* Executor::_old
  encodings,             \* the encoded contexts of the current call, old first
  unchecked,             \* its summaries that have not been checked yet
  valid,                 \* name_to_valid_summaries
  regenerated            \* name_to_regenerated_summaries

reuseVars == <<todo, old, encodings, unchecked, valid, regenerated>>
vars == <<loopVars, paths, pathVersion, summaries, reuseVars>>

S == INSTANCE Summarization WITH explorer <- paths, version <- pathVersion

-----------------------------------------------------------------------------
CallLabels == {l \in DOMAIN MainCfg(P).vertices : MainCfg(P).vertices[l].op = "call"}

InOrder(labels) == SetToSortSeq(labels, LAMBDA l, k : l < k)

Init ==
  /\ S!Init
  /\ phase = "summarize"
  /\ explorer = {}
  /\ merger = NoMerges
  /\ version = [x \in FlattenedInterface(P) |-> 0]
  /\ held = <<>>
  /\ todo = InOrder(CallLabels)
  /\ old = TRUE
  /\ encodings = <<>>
  /\ unchecked = <<>>
  /\ valid = <<>>
  /\ regenerated = <<>>

(* The summaries of the old version.                                       *)
Summarize ==
  /\ phase = "summarize"
  /\ S!Step
  /\ UNCHANGED <<phase, explorer, merger, version, held, reuseVars>>

BeginRun ==
  /\ phase = "summarize"
  /\ paths = <<>>
  /\ phase' = "run"
  /\ UNCHANGED <<prog, explorer, merger, version, held, paths, pathVersion, summaries, reuseVars>>

-----------------------------------------------------------------------------
(* The call that Engine::run is looking at.                                *)
CallLabel == Head(todo)
Callee == S!CalledAt(P, CallLabel)
CalleeCfg == P.cfgs[Callee]
CalleeScope == <<P.main, MainCfg(P).vertices[CallLabel].instance>>

(* Engine::getInitialContext.                                              *)
InitialLiteralContext ==
  LET entry == <<CalleeScope, CalleeCfg.entry, 0>>
  IN  [cycle |-> 0, label |-> CalleeCfg.entry,
       stack |-> <<[scope |-> MainScope(P), ret |-> MainCfg(P).entry],
                   [scope |-> CalleeScope, ret |-> Target(MainCfg(P), CallLabel, "CALL_TO_RETURN")]>>,
       ver |-> [x \in {CalleeScope} \X CalleeCfg.vars |-> 0],
       lit |-> entry, preceding |-> [l \in {entry} |-> {{}}],
       assumptions |-> <<>>, hard |-> <<>>]

(* The encoding of one version starts from nothing.                        *)
BeginEncoding(ofOld) ==
  /\ old' = ofOld
  /\ explorer' = {InitialLiteralContext}
  /\ merger' = NoMerges
  /\ version' = [x \in FlattenedInterface(P) |-> 0]
  /\ phase' = "step"
  /\ UNCHANGED held

(* The loop of Engine::run over the vertices takes up the next call.       *)
NextCall ==
  /\ phase = "run"
  /\ todo # <<>>
  /\ BeginEncoding(TRUE)
  /\ encodings' = <<>>
  /\ unchecked' = <<>>
  /\ valid' = Emplace(valid, {Callee}, [n \in {Callee} |-> <<>>])
  /\ UNCHANGED <<prog, paths, pathVersion, summaries, todo, regenerated>>

-----------------------------------------------------------------------------
(* Executor::execute, as in se/cbmc but within one function block.         *)

BeginMerge == TakeMergePoint /\ UNCHANGED <<paths, pathVersion, summaries, reuseVars>>

MergePair ==
  /\ phase = "merge"
  /\ Len(held) > 1
  /\ MergeFirstTwo
  /\ UNCHANGED <<paths, pathVersion, summaries, reuseVars>>

EndMerge == ReleaseMerged /\ UNCHANGED <<paths, pathVersion, summaries, reuseVars>>

(* DepthFirstHeuristic: all contexts are equally deep.                     *)
Execute(c) == phase = "step" /\ c \in explorer /\ \A d \in explorer : c.label >= d.label

HandleEntryOrIntermediateVertex ==
  \E c \in explorer :
    /\ Execute(c)
    /\ Vertex(c).type = "ENTRY" \/ (Vertex(c).type = "REGULAR" /\ Vertex(c).op = "none")
    /\ Replace(c, <<MoveTo(c, SucceedingLabel(Graph(c), c.label))>>)
    /\ UNCHANGED <<version, paths, pathVersion, summaries, reuseVars>>

(* Encoder::visit(ChangeExpression) encodes the operand of the version.    *)
Expression(v) ==
  IF ~old /\ "new" \in DOMAIN v THEN v.new ELSE IF v.op = "if" THEN v.cond ELSE v.rhs

VisitAssignmentInstruction ==
  \E c \in explorer :
    /\ Execute(c)
    /\ Vertex(c).op = "assign"
    /\ LET x == Flatten(Scope(c), Vertex(c).var)
           next == Target(Graph(c), c.label, "INTRAPROCEDURAL")
       IN  /\ Replace(c, <<Write(version, c, x, Encode(c, Expression(Vertex(c))), next)>>)
           /\ version' = [version EXCEPT ![x] = @ + 1]
    /\ UNCHANGED <<paths, pathVersion, summaries, reuseVars>>

(* A value of the variables at the call is one of these.                   *)
Entries == Environments(CalleeCfg)
AtCall == [x \in {CalleeScope} \X CalleeCfg.vars |-> Free(x[2])]

BranchTarget(c, sign) ==
  Target(Graph(c), c.label, IF sign THEN "TRUE_BRANCH" ELSE "FALSE_BRANCH")

CanBranch(c, term, sign) ==
  BranchModels(AtCall, Entries, c, BranchTarget(c, sign), <<term, sign>>) # {}

(* When the condition cannot be true it is not asked whether it can be     *)
(* false.                                                                  *)
Outcomes(c, term) ==
  IF ~CanBranch(c, term, TRUE) THEN <<FALSE>>
  ELSE IF ~CanBranch(c, term, FALSE) THEN <<TRUE>> ELSE <<TRUE, FALSE>>

VisitIfInstruction ==
  \E c \in explorer :
    /\ Execute(c)
    /\ Vertex(c).op = "if"
    /\ LET term == Encode(c, Expression(Vertex(c)))
           Taken(sign) == Branch(c, BranchTarget(c, sign), <<term, sign>>)
       IN  \E outcomes \in {Outcomes(c, term)} :
             Replace(c, [i \in DOMAIN outcomes |-> Taken(outcomes[i])])
    /\ UNCHANGED <<version, paths, pathVersion, summaries, reuseVars>>

(* The exit completes an encoding; that of the new version comes second.   *)
HandleExitVertex ==
  \E c \in explorer :
    /\ Execute(c)
    /\ Vertex(c).type = "EXIT"
    /\ encodings' = Append(encodings, c)
    /\ \/ /\ old
          /\ BeginEncoding(FALSE)
          /\ UNCHANGED unchecked
       \/ /\ ~old
          /\ explorer' = {}
          /\ phase' = "validate"
          /\ unchecked' = summaries[Callee]
          /\ UNCHANGED <<merger, version, held, old>>
    /\ UNCHANGED <<prog, paths, pathVersion, summaries, todo, valid, regenerated>>

-----------------------------------------------------------------------------
(* The three phases.                                                       *)

(* ChangeAnnotationCollectionPass: phase 1.                                *)
ChangeAnnotatedLabels ==
  {l \in DOMAIN CalleeCfg.vertices : "new" \in DOMAIN CalleeCfg.vertices[l]}

(* Engine::lowerExpression leaves of a summary what it assumes and what it *)
(* writes last, in terms of the values at the call.                        *)
Lowered(s) ==
  LET all == Entries
      Read(n) == {env \in all : n[1][2] \in env}
      hard == HardWorlds(all, s, Read)
      Value(n) == IF n \in WrittenNames(s) THEN hard[n] ELSE Read(n)
      Holds(k) == Meaning(all, k[1].op, [i \in DOMAIN k[1].args |-> Value(k[1].args[i])])
  IN  [precondition |-> {env \in all : \A i \in DOMAIN s.assumptions :
                           (env \in Holds(s.assumptions[i])) = s.assumptions[i][2]},
       postcondition |-> [x \in WrittenVariables(s) |-> hard[<<x, HighestVersion(s, x)>>]]]

(* The query of predicateSensitiveAnalysis and validityCheck: is there an  *)
(* execution of the encoding over literals in which the precondition and,  *)
(* in the end, the postcondition hold?                                     *)
SomeExecution(c, s, avoided) ==
  \E lowered \in {Lowered(s)}, B \in Supports(c.preceding, c.lit) :
    /\ \A l \in B : l[2] \notin avoided
    /\ \E solution \in SolutionsIn(AtCall, Entries, c, B) :
         \E env \in solution.worlds \cap lowered.precondition :
           \A x \in DOMAIN lowered.postcondition :
             (env \in solution.value[CurrentName(c, x)]) = (env \in lowered.postcondition[x])

(* Mutant: the labels of the changes are ignored.                          *)
PredicateSensitiveAnalysisIgnoringChanges(s) == SomeExecution(encodings[1], s, {})

(* Phase 2: an execution of the old version that meets no change.          *)
PredicateSensitiveAnalysis(s) == SomeExecution(encodings[1], s, ChangeAnnotatedLabels)

(* Phase 3: an execution of the new version.                               *)
ValidityCheck(s) == SomeExecution(encodings[2], s, {})

(* The postcondition names the variables of the instance the summary was   *)
(* made for: State::getVersion throws when the call is of another one.     *)
CanLookUp(s) == WrittenVariables(s) \subseteq DOMAIN encodings[1].ver

Keep(new) == valid' = [valid EXCEPT ![Callee] = @ \o new]

AcceptAll ==
  /\ phase = "validate"
  /\ ChangeAnnotatedLabels = {}
  /\ Keep(unchecked)
  /\ unchecked' = <<>>
  /\ phase' = "regenerate"
  /\ UNCHANGED <<prog, explorer, merger, version, held, paths, pathVersion, summaries,
                 todo, old, encodings, regenerated>>

CheckSummary ==
  /\ phase = "validate"
  /\ ChangeAnnotatedLabels # {}
  /\ unchecked # <<>>
  /\ LET s == Head(unchecked)
     IN  /\ CanLookUp(s)
         /\ \E isValid \in {PredicateSensitiveAnalysis(s) \/ ValidityCheck(s)} :
              Keep(IF isValid THEN <<s>> ELSE <<>>)
  /\ unchecked' = Tail(unchecked)
  /\ UNCHANGED <<prog, phase, explorer, merger, version, held, paths, pathVersion, summaries,
                 todo, old, encodings, regenerated>>

LookupThrows ==
  /\ phase = "validate"
  /\ ChangeAnnotatedLabels # {}
  /\ unchecked # <<>>
  /\ ~CanLookUp(Head(unchecked))
  /\ phase' = "aborted"
  /\ UNCHANGED <<prog, explorer, merger, version, held, paths, pathVersion, summaries, reuseVars>>

EndValidation ==
  /\ phase = "validate"
  /\ ChangeAnnotatedLabels # {}
  /\ unchecked = <<>>
  /\ phase' = "regenerate"
  /\ UNCHANGED <<prog, explorer, merger, version, held, paths, pathVersion, summaries, reuseVars>>

-----------------------------------------------------------------------------
(* Regeneration.                                                           *)

(* Engine::determineAssumptionLiteralPaths: the paths from the entry to the*)
(* exit of the encoding.                                                   *)
LiteralPaths(c) ==
  LET to[l \in DOMAIN c.preceding] ==
        UNION {IF A = {} THEN {<<l>>}
               ELSE {Append(path, l) : path \in to[CHOOSE k \in A : TRUE]} :
                 A \in c.preceding[l]}
  IN  to[c.lit]

(* The literals of a summary belong to the instance that was explored.     *)
ScopeOf(name) ==
  LET l == CHOOSE k \in S!FirstCalls(P) : S!CalledAt(P, k) = name
  IN  <<P.main, MainCfg(P).vertices[l].instance>>

SummarizedPath(s) == [i \in DOMAIN s.literals |-> <<ScopeOf(Callee), s.literals[i], 0>>]

(* Mutant: every path is summarized anew.                                  *)
RemainingPathsAll == LiteralPaths(encodings[2])

RemainingPaths ==
  LiteralPaths(encodings[2]) \ {SummarizedPath(valid[Callee][i]) : i \in DOMAIN valid[Callee]}

(* The equations along a path, [name, term], in the order of the path and  *)
(* of the versions.                                                        *)
HardAlong(c, path) ==
  LET Of(l) == IF l \in DOMAIN c.hard THEN c.hard[l] ELSE <<>>
      Sorted(l) == SetToSortSeq(DOMAIN Of(l), LAMBDA m, n : m[2] < n[2])
      Equations(l) == [i \in DOMAIN Sorted(l) |->
                         [name |-> Sorted(l)[i], term |-> Of(l)[Sorted(l)[i]]]]
  IN  FlattenSeq([i \in DOMAIN path |-> Equations(path[i])])

AssumptionsAlong(c, path) ==
  FlattenSeq([i \in DOMAIN path |->
    IF path[i] \in DOMAIN c.assumptions THEN SetToSeq(c.assumptions[path[i]]) ELSE <<>>])

(* Mutant: names keep the versions that the encoding has given out.        *)
KeepVersionOf(written, n) == <<n[1], n[2]>>

(* The written names of a variable are numbered from 1 in the order of     *)
(* their versions; a name that is only read gets the number before it.     *)
Reversioned(written, n) ==
  <<n[1], Cardinality({m \in written : m[1] = n[1] /\ m[2] <= n[2]})>>

(* Summarizer::summarizePath(context, path).                               *)
SummaryFrom(hard, assumptions, path) ==
  LET written == {hard[i].name : i \in DOMAIN hard}
      RTerm(t) == [t EXCEPT !.args = [i \in DOMAIN @ |-> Reversioned(written, @[i])]]
  IN  [assumptions |-> [i \in DOMAIN assumptions |->
                          <<RTerm(assumptions[i][1]), assumptions[i][2]>>],
       hard |-> [i \in DOMAIN hard |-> [name |-> Reversioned(written, hard[i].name),
                                        term |-> RTerm(hard[i].term)]],
       literals |-> [i \in DOMAIN path |-> path[i][2]]]

SummariesAlong(c, remaining) ==
  {SummaryFrom(hard, assumptions, path) : <<hard, assumptions, path>> \in
     {<<HardAlong(c, p), AssumptionsAlong(c, p), p>> : p \in remaining}}

(* The new summaries come in some order; nothing depends on it.            *)
Regenerate ==
  /\ phase = "regenerate"
  /\ \E new \in {SummariesAlong(encodings[2], RemainingPaths)} :
       regenerated' =
         IF new = {} THEN regenerated
         ELSE [n \in DOMAIN regenerated \cup {Callee} |->
                 (IF n \in DOMAIN regenerated THEN regenerated[n] ELSE <<>>)
                   \o (IF n = Callee THEN SetToSeq(new) ELSE <<>>)]
  /\ todo' = Tail(todo)
  /\ phase' = "run"
  /\ UNCHANGED <<prog, explorer, merger, version, held, paths, pathVersion, summaries,
                 old, encodings, unchecked, valid>>

(* The end of Engine::run: the summarizer of the new version.              *)
Return ==
  /\ phase = "run"
  /\ todo = <<>>
  /\ summaries' = [n \in DOMAIN valid |->
                     valid[n] \o (IF n \in DOMAIN regenerated THEN regenerated[n] ELSE <<>>)]
  /\ phase' = "done"
  /\ UNCHANGED <<prog, explorer, merger, version, held, paths, pathVersion, reuseVars>>

-----------------------------------------------------------------------------
EngineStep ==
  \/ Summarize \/ BeginRun \/ NextCall
  \/ BeginMerge \/ MergePair \/ EndMerge
  \/ HandleEntryOrIntermediateVertex \/ VisitAssignmentInstruction \/ VisitIfInstruction
  \/ HandleExitVertex
  \/ AcceptAll \/ CheckSummary \/ LookupThrows \/ EndValidation
  \/ Regenerate \/ Return

Next == EngineStep \/ (phase \in {"done", "aborted"} /\ UNCHANGED vars)

Spec == Init /\ [][Next]_vars /\ WF_vars(EngineStep)
==========================================================================
