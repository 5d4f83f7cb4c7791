--------------------------- MODULE MCActionProof ---------------------------
(* Instances of ActionProof for TLC.                                         *)
EXTENDS ActionProof, TLC

Symmetric == Permutations(Sessions) \cup Permutations(Targets) \cup Permutations(Addresses)
             \cup Permutations(Requests) \cup Permutations(Confirms)
=============================================================================
