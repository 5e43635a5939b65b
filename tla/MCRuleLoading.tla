---------------------------- MODULE MCRuleLoading ----------------------------
(* Values of the constants of RuleLoading for TLC. *)
EXTENDS RuleLoading, TLC

CONSTANTS t1, t2

MCTasks == {t1, t2}
MCSymmetry == Permutations(MCTasks)
=============================================================================
