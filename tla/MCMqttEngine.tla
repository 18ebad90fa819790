---------------------------- MODULE MCMqttEngine ----------------------------
(* MqttEngine with a few messages and commands.                            *)
EXTENDS MqttEngine, TLC

Symmetry == Permutations(Messages \ Invalid) \cup Permutations(Commands)
=============================================================================
