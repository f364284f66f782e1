------------------------- MODULE DocumentedPromises -------------------------
(***************************************************************************)
(* What the tool descriptions, comments and documents say of the pipeline  *)
(* and the code does not do.  Each formula is checked on an instance that  *)
(* TLC refutes it on; the README tells the story of every counterexample.  *)
(***************************************************************************)
EXTENDS MutationPipeline

(* haops_rollback "replays the exact pre-write state": a rollback that     *)
(* reports success, and that nobody disturbed, has put every target of the *)
(* transaction back to what was there.  haops_config_apply does not record *)
(* that it created the file, so a created file stays behind, empty.        *)
RollbackIsExact ==
  \A t \in Tasks : Rolling(t) /\ ~task[t].dirty =>
    LET x == task[t].txn
    IN  {task[t].tok, txns[x].tok} \cap unsure = {} =>
          \A i \in DOMAIN txns[x].saves : FirstSave(x, i) => RolledBack(t, i)

(* "On ANY failure mid-batch, already-written targets are restored": no    *)
(* batch that wrote something is left open with no call working on it.  A  *)
(* cancellation is no Exception, so the batch's failure handler does not   *)
(* run.                                                                    *)
NoBatchLeftHalfApplied ==
  \A n \in DOMAIN txns :
    /\ txns[n].state = "open" /\ txns[n].saves # <<>>
    /\ tokens[txns[n].tok].action = "batch_apply"
    => \E t \in Tasks : task[t].txn = n

=============================================================================
