--------------------------- MODULE MCChangeEngine ---------------------------
(* The configurations of ChangeEngine give its constants small sets of model *)
(* values; contents of resources are interchangeable.                        *)
EXTENDS ChangeClaims, ChangeInvariants, TLC

DataSymmetry == Permutations(Data)

FullSymmetry == Permutations(Data) \cup Permutations(Calls) \cup Permutations(Changes)

=============================================================================
