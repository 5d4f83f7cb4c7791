--------------------------- MODULE MCAgentActions ---------------------------
(* Instances of AgentActions for TLC.                                        *)
EXTENDS AgentActions, TLC

Symmetric == Permutations(Ids) \cup Permutations(Workers) \cup Permutations(Allowances)
SymmetricRows == Permutations(Workers) \cup Permutations(Allowances)
=============================================================================
