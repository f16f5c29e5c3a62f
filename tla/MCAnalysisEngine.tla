-------------------------- MODULE MCAnalysisEngine --------------------------
(* Two bots and few requests; the bots are interchangeable in the safety  *)
(* run, where no property names one.                                      *)
EXTENDS AnalysisEngine, TLC

BotSymmetry == Permutations(Bots)
=============================================================================
