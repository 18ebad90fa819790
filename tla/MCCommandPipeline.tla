-------------------------- MODULE MCCommandPipeline --------------------------
(* CommandPipeline with a few commands; those of one kind are              *)
(* interchangeable.                                                        *)
EXTENDS CommandPipeline, TLC

Symmetry == Permutations(ApiCommands) \cup Permutations(RuleCommands)
==============================================================================
