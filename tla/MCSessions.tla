------------------------------ MODULE MCSessions ------------------------------
(* Instances of Sessions for TLC.                                          *)
EXTENDS Sessions, TLC

CallSymmetry == Permutations(Call)
Symmetry == Permutations(Login) \cup Permutations(Call)
=============================================================================
