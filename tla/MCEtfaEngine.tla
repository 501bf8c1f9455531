-------------------------- MODULE MCEtfaEngine ---------------------------
(* The ETFA engine on programs of the catalogue and on a family.           *)
EXTENDS EtfaRuns, MCPrograms

EtfaCode == DecisionCode @@ Catalogue

EtfaPrograms ==
  {"toggle", "dead", "straight", "nested", "latch", "call", "branch", "twins",
   "callSummarized", "branchSummarized"} \cup DecisionFamily

(* TLC tabulates constant definitions, but not the ones a configuration    *)
(* gives to a constant, hence these names; the LET keeps the programs out  *)
(* of the statistics that TLC gathers for every use of the constant.       *)
MCCode == LET code == EtfaCode IN code
MCEtfaPrograms == EtfaPrograms
==========================================================================
