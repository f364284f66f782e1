----------------------------- MODULE MCConnection -----------------------------
(* Instances of StorageRegistry for TLC.                                   *)
EXTENDS StorageRegistry, TLC

CONSTANTS c1, c2

(* Callers are interchangeable.                                            *)
CallerSymmetry == Permutations(Callers)

===============================================================================
