---------------------------- MODULE ScanCycle ----------------------------
(***************************************************************************)
(* What a merging symbolic engine implements: the program is run in every  *)
(* world at once.  Runs that stand at the same vertex may move on together,*)
(* by one step or past a whole call; all of them cross the end of the PLC  *)
(* cycle together; what is reported as covered has been taken by some run. *)
(* The engine may stop when it was interrupted, when every branch is       *)
(* covered, or when all runs have reached the cycle bound and nothing that *)
(* they took is missing.                                                   *)
(***************************************************************************)
EXTENDS Simulation

CONSTANTS
  Programs,              \* identifiers of the programs to execute
  Code                   \* the control-flow graphs of each of them

VARIABLES
  program,               \* the program that is run
  at,                    \* the configuration of the run of every world
  covered,               \* the branches reported so far
  interrupted            \* the time-out has passed

Init ==
  /\ program \in Programs
  /\ at = [w \in Worlds(Code[program]) |-> InitialConfiguration(Code[program], w)]
  /\ covered = {}
  /\ interrupted = FALSE

AtProgramExit(k) == Len(k.stack) = 1 /\ k.label = MainCfg(Code[program]).exit

AtCall(k) ==
  LET v == CfgOf(Code[program], Scope(k)).vertices[k.label]
  IN  v.type = "REGULAR" /\ v.op = "call"

(* The configuration in which the call that k stands at has returned.      *)
AfterCall(w, k) ==
  LET Continue[i \in 0 .. MaxSteps] ==
        IF i = 0 THEN ConcreteStep(Code[program], w, k)
        ELSE LET j == Continue[i - 1]
             IN  IF Len(j.stack) <= Len(k.stack) THEN j ELSE ConcreteStep(Code[program], w, j)
  IN  Continue[MaxSteps]

Following(w, k) ==
  {ConcreteStep(Code[program], w, k)} \cup (IF AtCall(k) THEN {AfterCall(w, k)} ELSE {})

(* What is reported has been taken by a run.                               *)
Report(after) ==
  /\ covered \subseteq covered'
  /\ covered' \subseteq covered \cup UNION {after[w].taken : w \in DOMAIN after}

(* Runs at one vertex move on.                                             *)
Advance(before, after) ==
  /\ DOMAIN after = DOMAIN before
  /\ \E moving \in {{w \in DOMAIN before : after[w] # before[w]}} :
       /\ \A w \in moving :
            ~AtProgramExit(before[w]) /\ after[w] \in Following(w, before[w])
       /\ Cardinality({Position(before[w]) : w \in moving}) <= 1
  /\ Report(after)
  /\ UNCHANGED <<program, interrupted>>

(* The end of the cycle: all runs cross it at once and read new inputs.    *)
Scan(before, after) ==
  /\ \A w \in DOMAIN before : AtProgramExit(before[w])
  /\ DOMAIN after = DOMAIN before
  /\ \A w \in DOMAIN before : after[w] = ConcreteNextCycle(Code[program], w, before[w])
  /\ Report(after)
  /\ UNCHANGED <<program, interrupted>>

Interrupt(before, after) ==
  /\ interrupted' = TRUE
  /\ after = before
  /\ UNCHANGED <<program, covered>>

MayStop(before) ==
  \/ interrupted
  \/ Branches(Code[program]) \subseteq covered
  \/ \A w \in DOMAIN before :
       before[w].cycle = CycleBound /\ before[w].taken \subseteq covered

(* The engine stops and gives the runs up.                                 *)
Stop(before, after) ==
  /\ MayStop(before)
  /\ after = <<>>
  /\ UNCHANGED <<program, covered, interrupted>>

(* The runs before and after the step are named once.                      *)
Next ==
  \E before \in {at} : \E after \in {at'} :
    \/ Advance(before, after) \/ Scan(before, after)
    \/ Interrupt(before, after) \/ Stop(before, after)

Spec == Init /\ [][Next]_<<program, at, covered, interrupted>>
==========================================================================
