----------------------------- MODULE EtfaRuns -----------------------------
(***************************************************************************)
(* Why the contexts of the ETFA engine are the runs of the program: the    *)
(* invariant that relates every world to the one context that stands for   *)
(* its run, and the conditions under which the engine keeps it.            *)
(***************************************************************************)
EXTENDS EtfaCorrectness, EtfaInvariant

(* Runs last no longer than they are followed, and control flow within a   *)
(* cycle is acyclic, so that a run is at a position only once.             *)
ASSUME RunsAssumption ==
  \A q \in Programs : \A w \in Worlds(Code[q]) :
    /\ RunAfter(Code[q], w)[MaxSteps].cycle = CycleBound
    /\ \A k \in Run(Code[q], w) : Trace[q][w][Position(k)] = k

(* Instructions are of the kinds that the executors know, operators have   *)
(* the arguments that they take, and data is Boolean.                      *)
ASSUME ExpressionsAssumption ==
  \A q \in Programs :
    /\ \A f \in DOMAIN Code[q].cfgs : \A v \in RangeOf(Code[q].cfgs[f].vertices) :
         /\ v.op \in {"none", "assign", "havoc", "if", "call"}
         /\ v.op = "assign" => IsExpression(v.rhs)
         /\ v.op = "if" => IsExpression(v.cond)
    /\ \A x \in FlattenedInterface(Code[q]) : InitialValue(Code[q], x) \in BOOLEAN

-----------------------------------------------------------------------------
(* The first condition: a summary says what a call does.                   *)

(* The variables of the instance in scope s that are true in k.            *)
TrueIn(p, s, k) == {x \in CfgOf(p, s).vars : k.env[<<s, x>>]}

(* The value of x after the summary i of the function block called in s.   *)
ValueAfter(p, s, i, k, x) ==
  LET summary == p.summaries[p.scopes[s]][i]
  IN  IF x \in WrittenVariables(summary)
      THEN TrueIn(p, s, k) \in Effect(CfgOf(p, s), summary).final[x]
      ELSE k.env[x]

(* The call that k stands at is summarized: one summary applies, and the   *)
(* run of w returns with the values that it gives.                         *)
CallIsSummarized(q, w, k) ==
  LET p == Code[q]
      v == CfgOf(p, Scope(k)).vertices[k.label]
      s == Append(Scope(k), v.instance)
      all == p.summaries[p.scopes[s]]
      back == <<k.cycle, Target(CfgOf(p, Scope(k)), k.label, "CALL_TO_RETURN"), k.stack>>
  IN  (v.op = "call" /\ p.scopes[s] \in DOMAIN p.summaries) =>
        \E i \in DOMAIN all :
          /\ {j \in DOMAIN all : TrueIn(p, s, k) \in Effect(CfgOf(p, s), all[j]).applies} = {i}
          /\ back \in DOMAIN Trace[q][w]
          /\ Trace[q][w][back] =
               [cycle |-> k.cycle, label |-> back[2], stack |-> k.stack,
                env |-> [x \in FlattenedInterface(p) |-> ValueAfter(p, s, i, k, x)],
                taken |-> Trace[q][w][back].taken]

SummaryTerms(s) ==
  {s.assumptions[i][1] : i \in DOMAIN s.assumptions}
    \cup {s.hard[i].term : i \in DOMAIN s.hard}

SummaryNames(s) == WrittenNames(s) \cup UNION {ArgumentsOf(t) : t \in SummaryTerms(s)}

(* A summary writes a name once and reads it only afterwards.              *)
WrittenInOrder(s) ==
  /\ IsSeq(s.hard)
  /\ \A i, j \in DOMAIN s.hard : s.hard[i].name = s.hard[j].name => i = j
  /\ \A i \in DOMAIN s.hard : \A n \in ArgumentsOf(s.hard[i].term) \cap WrittenNames(s) :
       \E j \in 1 .. i - 1 : s.hard[j].name = n

(* The summary s is over the variables of the instance in scope.           *)
IsOwn(p, scope, s) ==
  /\ WrittenInOrder(s)
  /\ \A t \in SummaryTerms(s) : IsExpression(t)
  /\ \A i \in DOMAIN s.assumptions : s.assumptions[i][2] \in BOOLEAN
  /\ SummaryNames(s) \subseteq ({scope} \X CfgOf(p, scope).vars) \X Nat

(* A function block with summaries has one instance.                       *)
SummariesAreOwn(p) ==
  \A scope \in DOMAIN p.scopes : p.scopes[scope] \in DOMAIN p.summaries =>
    \A s \in RangeOf(p.summaries[p.scopes[scope]]) : IsOwn(p, scope, s)

SummarizedPrograms ==
  {q \in Programs :
     /\ SummariesAreOwn(Code[q])
     /\ DOMAIN Code[q].summaries # {} =>
          \A w \in Worlds(Code[q]) : \A k \in RangeOf(Trace[q][w]) : CallIsSummarized(q, w, k)}

(* The second: no merge changes which runs a path constraint is true of.   *)
MergesKeepConstraints ==
  (phase = "merge" /\ Len(held) > 1) =>
    PathWorlds(P, Merge(P, version, held[1], held[2]))
      = PathWorlds(P, held[1]) \cup PathWorlds(P, held[2])

(* The third, MergedStacksAgree: no merge loses where a context returns to.*)
Faithful == prog \in SummarizedPrograms /\ MergesKeepConstraints /\ MergedStacksAgree

-----------------------------------------------------------------------------
(* What the names of a store mean: the worlds kept beside a term are those *)
(* it is true in.                                                          *)
ValueOf(p, val, t) ==
  IF t.op = "ite"
  THEN LET guard == Satisfying(p, val, t.guard)
       IN  (guard \cap val[t.args[1]].worlds) \cup (val[t.args[2]].worlds \ guard)
  ELSE WorldsOf(p, val, t)

ConstraintNames(pc) == UNION {ArgumentsOf(lit[1]) : lit \in UNION pc}

StoreMeans(p, c) ==
  \A n \in DOMAIN c.val :
    LET t == c.val[n].term
    IN  /\ c.val[n].worlds = ValueOf(p, c.val, t)
        /\ t.op = "ite" => /\ t.args = <<t.args[1], t.args[2]>>
                           /\ ConstraintNames(t.guard) \subseteq DOMAIN c.val

(* The context c is where the run of w is, and has its values.             *)
Follows(c, w) ==
  /\ Position(c) \in DOMAIN Trace[prog][w]
  /\ LET k == Trace[prog][w][Position(c)]
     IN  /\ k = [cycle |-> c.cycle, label |-> c.label, stack |-> c.stack,
                 env |-> k.env, taken |-> k.taken]
         /\ k.env \in [FlattenedInterface(P) -> BOOLEAN]
         /\ \A x \in FlattenedInterface(P) : k.env[x] <=> w \in CurrentValue(c, x).worlds

-----------------------------------------------------------------------------
(* Where a context can be: a context that lies in two places counts twice. *)
Places ==
  ({"explorer"} \X explorer \X {0}) \cup ({"succeeding"} \X succeeding \X {0})
    \cup (UNION {{"merger"} \X {m} \X DOMAIN merger[m] : m \in DOMAIN merger})
    \cup ({"held"} \X {0} \X DOMAIN held) \cup ({"pending"} \X {0} \X DOMAIN pending)

ContextAt(place) ==
  CASE place[1] \in {"explorer", "succeeding"} -> place[2]
    [] place[1] = "merger"  -> merger[place[2]][place[3]]
    [] place[1] = "held"    -> held[place[3]]
    [] place[1] = "pending" -> pending[place[3]]

(* The frame of the callee has been pushed, but the call is not made.      *)
Caller(c) == [c EXCEPT !.stack = SubSeq(@, 1, Len(@) - 1)]

(* While summaries are applied the held context, in the frame of the       *)
(* callee, stands for the runs that wait at the call.                      *)
StandsFor(place) ==
  IF phase = "summarize" /\ place[1] = "held" THEN Caller(ContextAt(place))
                                              ELSE ContextAt(place)

ContextsFollowRuns ==
  \A a \in Places : \A w \in PathWorlds(P, ContextAt(a)) : Follows(StandsFor(a), w)

CallIsHeld ==
  phase = "summarize" =>
    LET c == Caller(held[1])
        g == CfgOf(P, Scope(c))
    IN  /\ c.label \in DOMAIN g.vertices
        /\ g.vertices[c.label].op = "call"
        /\ held[1].stack = Append(c.stack,
             [scope |-> Append(Scope(c), g.vertices[c.label].instance),
              ret |-> Target(g, c.label, "CALL_TO_RETURN")])

(* The worlds in which the k-th summary of the callee applies to c.        *)
AppliedWorlds(c, k) ==
  {w \in PathWorlds(P, c) :
     {x \in CfgOf(P, Scope(c)).vars : w \in CurrentValue(c, <<Scope(c), x>>).worlds}
       \in Effect(CfgOf(P, Scope(c)), SummariesAt(P, c)[k]).applies}

(* The worlds whose runs the context at a place answers for: of those at a *)
(* call, the ones whose summary is still to be applied.                    *)
Share(place) ==
  IF phase = "summarize" /\ place[1] = "held"
  THEN UNION {AppliedWorlds(ContextAt(place), k) : k \in todo}
  ELSE PathWorlds(P, ContextAt(place))

(* Every world is in one share.                                            *)
SharedOut(worlds, places, share) ==
  \A w \in worlds : \E a \in places : \A b \in places : w \in share[b] <=> b = a

WorldsAreSharedOut ==
  phase # "done" => SharedOut(Worlds(P), Places, [place \in Places |-> Share(place)])

(* The inductive invariant, kept by every action as long as the engine is  *)
(* Faithful.                                                               *)
RunsInv ==
  /\ Inv
  /\ Faithful
  /\ \A c \in Live : StoreMeans(P, c)
  /\ ContextsFollowRuns
  /\ CallIsHeld
  /\ WorldsAreSharedOut

-----------------------------------------------------------------------------
(* What the engine covers.                                                 *)

(* A label names one vertex of the program, and the two branches of a      *)
(* decision lead to two vertices, as the decision transformation puts one  *)
(* on each.                                                                *)
LabelsAreApart(p) ==
  \A s, t \in DOMAIN p.scopes :
    \A l \in DOMAIN CfgOf(p, s).vertices \cap DOMAIN CfgOf(p, t).vertices :
      CfgOf(p, s).vertices[l] = CfgOf(p, t).vertices[l]

BranchEdges(g) == {e \in g.edges : e.type \in {"TRUE_BRANCH", "FALSE_BRANCH"}}

BranchesLeadApart(p) ==
  \A s \in DOMAIN p.scopes : \A e, f \in BranchEdges(CfgOf(p, s)) :
    (e.src = f.src /\ e.dst = f.dst) => e.type = f.type

(* The branches taken along a path.                                        *)
BranchesAlong(g, path) ==
  UNION {BranchesTaken(g, path[i], path[i + 1]) : i \in 1 .. Len(path) - 1}

(* A summary leads from the entry of the function block, where no branch   *)
(* leads, along the branches that the run takes during the call.           *)
SummaryIsTaken(q, w, k) ==
  LET p == Code[q]
      v == CfgOf(p, Scope(k)).vertices[k.label]
      s == Append(Scope(k), v.instance)
      g == CfgOf(p, s)
      all == p.summaries[p.scopes[s]]
      back == <<k.cycle, Target(CfgOf(p, Scope(k)), k.label, "CALL_TO_RETURN"), k.stack>>
  IN  (v.op = "call" /\ p.scopes[s] \in DOMAIN p.summaries) =>
        \A i \in DOMAIN all : TrueIn(p, s, k) \in Effect(g, all[i]).applies =>
          Trace[q][w][back].taken = k.taken \cup BranchesAlong(g, all[i].literals)

StartsAtEntry(g, s) ==
  /\ IsSeq(s.literals) /\ s.literals # <<>>
  /\ s.literals[1] = g.entry
  /\ \A e \in BranchEdges(g) : e.dst # g.entry

(* EPSILON does not hide a branch.                                         *)
FewBranches(p) == IsFiniteSet(Branches(p)) /\ Cardinality(Branches(p)) < 10000

CoveredPrograms ==
  {q \in Programs :
     /\ FewBranches(Code[q]) /\ LabelsAreApart(Code[q]) /\ BranchesLeadApart(Code[q])
     /\ \A s \in DOMAIN Code[q].scopes : Code[q].scopes[s] \in DOMAIN Code[q].summaries =>
          \A summary \in RangeOf(Code[q].summaries[Code[q].scopes[s]]) :
            StartsAtEntry(CfgOf(Code[q], s), summary)
     /\ DOMAIN Code[q].summaries # {} =>
          \A w \in Worlds(Code[q]) : \A k \in RangeOf(Trace[q][w]) : SummaryIsTaken(q, w, k)}

(* The branches that the run of w has taken where the context c is.        *)
TakenAt(c, w) == Trace[prog][w][Position(c)].taken

(* The branches that the runs of c have taken are covered.                 *)
BranchesCovered(c) == \A w \in PathWorlds(P, c) : TakenAt(c, w) \subseteq branches

(* The branch that leads to a succeeding context is covered when that is   *)
(* dispatched, and no new one leads to the next cycle.                     *)
BranchesPending(c) ==
  LET new == BranchesTaken(CfgOf(P, Scope(c)), source, c.label)
  IN  \A w \in PathWorlds(P, c) :
        /\ TakenAt(c, w) \subseteq branches \cup new
        /\ new \subseteq TakenAt(c, w)
        /\ c.cycle # cycle => new \subseteq branches

BranchesAreRecorded ==
  phase # "done" =>
    /\ \A c \in explorer \cup InMerger \cup succeeding : BranchesCovered(c)
    /\ phase # "summarize" => \A c \in RangeOf(held) : BranchesCovered(c)
    /\ \A c \in RangeOf(pending) : BranchesPending(c)

(* So are those of the runs that wait at a call.                           *)
CallIsRecorded ==
  phase = "summarize" =>
    /\ source = held[1].label
    /\ \A w \in PathWorlds(P, held[1]) : TakenAt(Caller(held[1]), w) \subseteq branches

CoverageInv ==
  /\ RunsInv
  /\ prog \in CoveredPrograms
  /\ BranchesAreRecorded
  /\ CallIsRecorded
  /\ SuiteCoversBranches
  /\ CoverageIsComplete

-----------------------------------------------------------------------------
(* Why the engine implements ScanCycle: there is one place to look for the *)
(* run of a world, also while summaries are applied.                       *)

(* The runs that the held context does not answer for any more have        *)
(* returned from the call, with a context that is pending.                 *)
RunsHaveReturned ==
  phase = "summarize" =>
    /\ \A d \in RangeOf(pending) : d.stack = Caller(held[1]).stack
    /\ \A w \in PathWorlds(P, held[1]) :
         \/ \E k \in todo : w \in AppliedWorlds(held[1], k)
         \/ \E d \in RangeOf(pending) : w \in PathWorlds(P, d)

(* The inductive invariant of the refinement: contexts are the runs, what  *)
(* they have taken is covered, and no run is left behind at a call.        *)
RefinementInv == CoverageInv /\ RunsHaveReturned
===========================================================================
