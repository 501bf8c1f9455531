-------------------- MODULE SummarizationCorrectness ---------------------
(***************************************************************************)
(* What the summaries of a function block promise to the engine that       *)
(* applies them, against the simulation of the function block.             *)
(***************************************************************************)
EXTENDS Summarization, Simulation, TLC

(* The instance of the function block called at l, and the call stack in it.*)
CalleeScope(p, l) == <<p.main, MainCfg(p).vertices[l].instance>>

CalleeStack(p, l) ==
  <<[scope |-> MainScope(p), ret |-> MainCfg(p).entry],
    [scope |-> CalleeScope(p, l), ret |-> Target(MainCfg(p), l, "CALL_TO_RETURN")]>>

(* The simulation of the function block called at l, from the start        *)
(* environment env until it has returned.  (Joining the empty function     *)
(* makes TLC tabulate the run.)                                            *)
CalleeStart(p, l, env) ==
  [cycle |-> 0, label |-> p.cfgs[CalledAt(p, l)].entry, stack |-> CalleeStack(p, l),
   env |-> [x \in FlattenedInterface(p) |-> x[1] = CalleeScope(p, l) /\ x[2] \in env],
   taken |-> {}]

CalleeTrace(p, l, env) ==
  LET at[i \in 1 .. MaxSteps] ==
        IF i = 1 THEN CalleeStart(p, l, env)
        ELSE LET k == at[i - 1] IN IF Depth(k) = 1 THEN k ELSE ConcreteStep(p, {}, k)
  IN  at \o <<>>

(* The sequence of the labels it visits and the variables that are true in *)
(* the end.                                                                *)
CalleeRun(p, l, env) ==
  LET trace == CalleeTrace(p, l, env)
      last == CHOOSE i \in 1 .. MaxSteps : Depth(trace[i]) = 2 /\ Depth(trace[i + 1]) = 1
  IN  [labels |-> [i \in 1 .. last |-> trace[i].label],
       env |-> {x \in p.cfgs[CalledAt(p, l)].vars :
                trace[last].env[<<CalleeScope(p, l), x>>]}]

-----------------------------------------------------------------------------

(* The paths still to be explored and the summaries made so far share out  *)
(* the start environments: at every moment each environment belongs to     *)
(* exactly one of them, and no path is followed that none belongs to.      *)
PathsPartitionEnvironments ==
  \A l \in FirstCalls(P) :
    LET f == CalledAt(P, l)
        known == IF f \in DOMAIN summaries THEN summaries[f] ELSE <<>>
        paths == {i \in DOMAIN explorer : explorer[i].name = f}
        share == [i \in paths |-> Feasible(P, explorer[i])]
        done == [i \in DOMAIN known |-> Effect(P.cfgs[f], known[i]).applies]
    IN  /\ \A i \in paths : share[i] # {}
        /\ \A env \in Environments(P.cfgs[f]) :
             Cardinality({i \in paths : env \in share[i]})
               + Cardinality({i \in DOMAIN known : env \in done[i]}) = 1

(* Summary s, which ends with the values final, does in environment env    *)
(* what the run of the function block called at l does.                    *)
Describes(p, l, s, final, env, run) ==
  /\ s.literals = run.labels
  /\ \A x \in p.cfgs[CalledAt(p, l)].vars :
       (x \in run.env) = IF <<CalleeScope(p, l), x>> \in WrittenVariables(s)
                         THEN env \in final[<<CalleeScope(p, l), x>>]
                         ELSE x \in env

(* The summaries of a function block are its behaviour: whatever values its*)
(* variables have at the call, exactly one summary applies; its labels are *)
(* the path the simulation takes, and what it writes are the values the    *)
(* simulation ends with.  Nothing of this may depend on the versions other *)
(* paths have used up, nor on which summaries count as equal.              *)
SummariesAreExact ==
  explorer = <<>> =>
    \A l \in FirstCalls(P) :
      LET h == P.cfgs[CalledAt(P, l)]
          all == summaries[CalledAt(P, l)]
          effect == [i \in DOMAIN all |-> Effect(h, all[i])]
      IN  \A env \in Environments(h) :
            LET run == CalleeRun(P, l, env)
            IN  \E i \in DOMAIN all :
                  /\ {j \in DOMAIN all : env \in effect[j].applies} = {i}
                  /\ Describes(P, l, all[i], effect[i].final, env, run)

(* Where the assignments of variable x before the i-th one are.            *)
AssignedBefore(s, i, x) == {j \in 1 .. i - 1 : s.hard[j].name[1] = x}

(* A summary stands on its own: its written versions of a variable are 1,  *)
(* 2, ... in path order and every other version it mentions is 0 (a value  *)
(* at the entry) or was written before.  applySummary adds the global      *)
(* version to the former and looks up the current value for the latter.    *)
IsSelfContained(s) ==
  /\ \A i \in DOMAIN s.hard :
       /\ s.hard[i].name[2] = Cardinality(AssignedBefore(s, i, s.hard[i].name[1])) + 1
       /\ \A n \in ArgumentsOf(s.hard[i].term) :
            n[2] = Cardinality(AssignedBefore(s, i, n[1]))
  /\ \A i \in DOMAIN s.assumptions : \A n \in ArgumentsOf(s.assumptions[i][1]) :
       n[2] = 0 \/ n \in WrittenNames(s)

SummariesAreSelfContained ==
  \A f \in DOMAIN summaries : \A k \in DOMAIN summaries[f] :
    IsSelfContained(summaries[f][k])

(* Every path is explored to its end.                                      *)
Termination == <>(explorer = <<>>)
==========================================================================
