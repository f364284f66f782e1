------------------------- MODULE MCMutationPipeline -------------------------
(***************************************************************************)
(* Instances of MutationPipeline for TLC.  The contents are model values.  *)
(*   plain     a text as ruamel itself would write it, or a dashboard      *)
(*             config                                                      *)
(*   other     another one; in HandWritten the text of plain as a hand     *)
(*             would lay it out                                            *)
(*   mistake   a YAML file with a syntax error                             *)
(*   empty     the empty file, the empty config                            *)
(*   nulldoc   "null ...", what ruamel writes for the empty YAML document  *)
(***************************************************************************)
EXTENDS DocumentedPromises, TLC

CONSTANTS conf, lovelace, plain, other, mistake, empty, nulldoc, t1, t2

EmptyToNull(c) == IF c = empty /\ nulldoc \in Contents THEN nulldoc ELSE c

(* Every text but the empty one is as ruamel would write it.               *)
CanonicalTexts == [c \in Contents |-> EmptyToNull(c)]

(* `other` comes back as `plain`.                                          *)
HandWritten == [c \in Contents |-> IF c = other THEN plain ELSE EmptyToNull(c)]

TaskSymmetry == Permutations(Tasks)
=============================================================================
