------------------------- MODULE MCSummarization -------------------------
(* The summarization engine on the programs of the catalogue.              *)
EXTENDS SummarizationCorrectness, MCPrograms

(* The summaries the catalogue gives to the ETFA engine are the ones this  *)
(* engine makes of F, in the same order.                                   *)
CatalogueIsGenerated == 
  (explorer = <<>> /\ P.cfgs.F = FunctionBlock) => summaries.F = SummariesOfF

(* TLC tabulates constant definitions, but not the ones a configuration    *)
(* gives to a constant, hence these names.                                 *)
MCBlockCode == BlockCode
MCBlockPrograms == BlockPrograms
==========================================================================
