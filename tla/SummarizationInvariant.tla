---------------------- MODULE SummarizationInvariant ----------------------
(***************************************************************************)
(* The inductive invariant of the summarization engine: what the paths that*)
(* are still explored know, what the summaries made so far say, and how    *)
(* both share out the start environments.                                  *)
(***************************************************************************)
EXTENDS SummarizationCorrectness

(* The function block of a path and the variables of its instance.         *)
BlockOf(p, d) == p.cfgs[d.name]

OwnVariables(p, d) == {d.scope} \X BlockOf(p, d).vars

(* Before the i-th assignment of path d, n is the name of its variable: the*)
(* highest one assigned so far, or else version 0.                         *)
IsCurrent(p, d, i, n) ==
  /\ n \in OwnVariables(p, d) \X Nat
  /\ \A j \in 1 .. i - 1 : d.hard[j].name[1] = n[1] => d.hard[j].name[2] <= n[2]
  /\ n[2] = 0 \/ \E j \in 1 .. i - 1 : d.hard[j].name = n

(* A path has these components.                                            *)
IsPath(d) ==
  d = [name |-> d.name, scope |-> d.scope, label |-> d.label, literals |-> d.literals,
       assumptions |-> d.assumptions, hard |-> d.hard, ver |-> d.ver, val |-> d.val]

(* It is in the instance of a called function block.                       *)
PathPlaced(p, d) ==
  /\ IsPath(d)
  /\ \E l \in FirstCalls(p) : d.name = CalledAt(p, l) /\ d.scope = CalleeScope(p, l)
  /\ d.label \in DOMAIN BlockOf(p, d).vertices
  /\ d.literals \in Seq(DOMAIN BlockOf(p, d).vertices)
  /\ d.literals # <<>> /\ d.literals[Len(d.literals)] = d.label

(* Its assignments, and the versions they have made: none of them is above *)
(* the version ver of the executor.                                        *)
VersionsOK(p, ver, d) ==
  /\ IsSeq(d.hard)
  /\ \A i \in DOMAIN d.hard :
       LET n == d.hard[i].name
       IN  n \in OwnVariables(p, d) \X (Nat \ {0}) /\ n[2] <= ver[n[1]]
  /\ \A i, j \in DOMAIN d.hard :
       (i < j /\ d.hard[i].name[1] = d.hard[j].name[1]) => d.hard[i].name[2] < d.hard[j].name[2]
  /\ DOMAIN d.ver = OwnVariables(p, d)
  /\ \A x \in OwnVariables(p, d) : IsCurrent(p, d, Len(d.hard) + 1, <<x, d.ver[x]>>)

(* Its terms are over names that it has made before.                       *)
TermsOK(p, d) ==
  /\ \A i \in DOMAIN d.hard :
       /\ d.hard[i] = [name |-> d.hard[i].name, term |-> d.hard[i].term]
       /\ IsTerm(d.hard[i].term)
       /\ \A n \in ArgumentsOf(d.hard[i].term) : IsCurrent(p, d, i, n)
  /\ IsSeq(d.assumptions)
  /\ \A i \in DOMAIN d.assumptions :
       LET lit == d.assumptions[i]
       IN  /\ lit = <<lit[1], lit[2]>> /\ lit[2] \in BOOLEAN
           /\ IsTerm(lit[1]) /\ ArgumentsOf(lit[1]) \subseteq DOMAIN d.val

(* What its names stand for.                                               *)
ValuesOK(p, d) ==
  /\ DOMAIN d.val = (OwnVariables(p, d) \X {0}) \cup WrittenNames(d)
  /\ \A x \in OwnVariables(p, d) :
       d.val[<<x, 0>>] = {env \in Environments(BlockOf(p, d)) : x[2] \in env}
  /\ \A i \in DOMAIN d.hard : d.val[d.hard[i].name] = EnvironmentsOf(p, d, d.hard[i].term)

(* Configuration k of the simulation has the values that path d has in     *)
(* environment env.                                                        *)
Mirrors(p, d, env, k) ==
  /\ k = [cycle |-> k.cycle, label |-> k.label, stack |-> k.stack,
          env |-> k.env, taken |-> k.taken]
  /\ DOMAIN k.env = FlattenedInterface(p)
  /\ \A x \in OwnVariables(p, d) : k.env[x] = (env \in d.val[<<x, d.ver[x]>>])

(* A path is the beginning of the runs from the environments that are      *)
(* feasible for it, as far as the simulation goes.                         *)
FollowsRuns(p, d) ==
  Len(d.literals) <= MaxSteps =>
    \A l \in FirstCalls(p) : CalledAt(p, l) = d.name => \A env \in Feasible(p, d) :
      LET trace == CalleeTrace(p, l, env)
      IN  /\ \A i \in DOMAIN d.literals :
               trace[i].label = d.literals[i] /\ trace[i].stack = CalleeStack(p, l)
          /\ Mirrors(p, d, env, trace[Len(d.literals)])

PathOK(p, ver, d) ==
  /\ PathPlaced(p, d)
  /\ VersionsOK(p, ver, d)
  /\ TermsOK(p, d)
  /\ ValuesOK(p, d)
  /\ Feasible(p, d) # {}
  /\ FollowsRuns(p, d)

-----------------------------------------------------------------------------
(* Program p with the summaries all, as the engine that applies them gets  *)
(* it.                                                                     *)
SummarizedProgram(p, all) ==
  [main |-> p.main, cfgs |-> p.cfgs, scopes |-> p.scopes, summaries |-> all, open |-> p.open]

Applies(p, f, s) == Effect(p.cfgs[f], s).applies

(* What a summary of the function block called at l says of its runs, as   *)
(* far as the simulation goes.                                             *)
FollowsRun(p, l, s) ==
  Len(s.literals) < MaxSteps =>
    \A env \in Applies(p, CalledAt(p, l), s) :
      Describes(p, l, s, Effect(p.cfgs[CalledAt(p, l)], s).final, env, CalleeRun(p, l, env))

SummaryOK(p, f, s) ==
  /\ IsSelfContained(s)
  /\ \A l \in FirstCalls(p) : CalledAt(p, l) = f => FollowsRun(p, l, s)

SummariesOK(p, all) ==
  /\ DOMAIN all \subseteq {CalledAt(p, l) : l \in FirstCalls(p)}
  /\ \A f \in DOMAIN all :
       IsSeq(all[f]) /\ \A k \in DOMAIN all[f] : SummaryOK(p, f, all[f][k])
  /\ WellFormedSummaries(SummarizedProgram(p, all))
  /\ ReferencesResolve(SummarizedProgram(p, all))

-----------------------------------------------------------------------------
(* Two paths, or summaries, have parted at a decision, and the environments*)
(* of the one are not those of the other.                                  *)
Diverge(a, b) == \E i \in DOMAIN a \cap DOMAIN b : a[i][2] # b[i][2]

Apart(a, A, b, B) == Diverge(a.assumptions, b.assumptions) /\ A \cap B = {}

PathsApart(p, paths) ==
  \A i, j \in DOMAIN paths : (i # j /\ paths[i].name = paths[j].name) =>
    Apart(paths[i], Feasible(p, paths[i]), paths[j], Feasible(p, paths[j]))

SummariesApart(p, paths, all) ==
  \A f \in DOMAIN all :
    /\ \A i, j \in DOMAIN all[f] : i # j =>
         Apart(all[f][i], Applies(p, f, all[f][i]), all[f][j], Applies(p, f, all[f][j]))
    /\ \A i \in DOMAIN paths, j \in DOMAIN all[f] : paths[i].name = f =>
         Apart(paths[i], Feasible(p, paths[i]), all[f][j], Applies(p, f, all[f][j]))

(* Every environment is still with some path, or with some summary.        *)
EveryEnvironmentIsSomewhere(p, paths, all) ==
  \A l \in FirstCalls(p) : \A env \in Environments(p.cfgs[CalledAt(p, l)]) :
    \/ \E i \in DOMAIN paths :
         paths[i].name = CalledAt(p, l) /\ env \in Feasible(p, paths[i])
    \/ /\ CalledAt(p, l) \in DOMAIN all
       /\ \E k \in DOMAIN all[CalledAt(p, l)] :
            env \in Applies(p, CalledAt(p, l), all[CalledAt(p, l)][k])

(* The inductive invariant: every step of the engine preserves it.         *)
Inv ==
  /\ prog \in Programs
  /\ IsSeq(explorer)
  /\ version \in [FlattenedInterface(P) -> Nat]
  /\ \A i \in DOMAIN explorer : PathOK(P, version, explorer[i])
  /\ SummariesOK(P, summaries)
  /\ PathsApart(P, explorer)
  /\ SummariesApart(P, explorer, summaries)
  /\ EveryEnvironmentIsSomewhere(P, explorer, summaries)

(* Every summary is one of a path that the bound of the simulation admits. *)
RunsLastLongEnough ==
  \A f \in DOMAIN summaries : \A k \in DOMAIN summaries[f] :
    Len(summaries[f][k].literals) < MaxSteps
===========================================================================
