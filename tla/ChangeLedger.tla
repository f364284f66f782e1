---------------------------- MODULE ChangeLedger ----------------------------
(***************************************************************************)
(* What the two-phase contract promises a session of each change, whatever *)
(* tool makes it: a change is shown before it runs, runs at most once,     *)
(* ends at most one way, and can be undone at most once, only after it was *)
(* carried out to its end and only until the server restarts.  It does not *)
(* promise a report: what was carried out can be undone as soon as its     *)
(* transaction is committed, and the log entry that would have told of it  *)
(* may still fail ("unreported").                                          *)
(***************************************************************************)
CONSTANT Changes

VARIABLES
  stage,  (* how far each change has come                                  *)
  undo    (* whether it can be undone, and whether it has been             *)

Stages == {"unseen", "shown", "running", "applied", "unreported", "failed",
           "dropped"}
Undos  == {"none", "ready", "used"}

LedgerTypeOK ==
  /\ stage \in [Changes -> Stages]
  /\ undo \in [Changes -> Undos]

Init ==
  /\ stage = [i \in Changes |-> "unseen"]
  /\ undo = [i \in Changes |-> "none"]

Move(i, from, to) ==
  /\ stage[i] = from
  /\ stage' = [stage EXCEPT ![i] = to]

Show(i) == Move(i, "unseen", "shown") /\ UNCHANGED undo
Run(i)  == Move(i, "shown", "running") /\ UNCHANGED undo

(* The confirmed change j is the undoing of i.                             *)
Undo(i, j) ==
  /\ Move(j, "shown", "running")
  /\ undo[i] = "ready"
  /\ undo' = [undo EXCEPT ![i] = "used"]

(* It ends, and is or is not one that can be undone.                       *)
Apply(i) ==
  /\ Move(i, "running", "applied")
  /\ \E u \in {"none", "ready"} : undo' = [undo EXCEPT ![i] = u]

(* It ends, and the report of it is lost.                                  *)
Silence(i) ==
  /\ Move(i, "running", "unreported")
  /\ undo' = [undo EXCEPT ![i] = "ready"]

Fail(i) == Move(i, "running", "failed") /\ UNCHANGED undo

(* Refused where it would have begun, or abandoned without a report.       *)
Drop(i) ==
  /\ \/ Move(i, "shown", "dropped")
     \/ Move(i, "running", "dropped")
  /\ UNCHANGED undo

(* A change that never waits begins and ends in one step.                  *)
ApplyAtOnce(i) == Move(i, "shown", "applied") /\ UNCHANGED undo

(* All that was not reported is forgotten.                                 *)
Forgotten == {"shown", "running", "unreported"}

Crash ==
  /\ stage' = [i \in Changes |->
                 IF stage[i] \in Forgotten THEN "dropped" ELSE stage[i]]
  /\ undo' = [i \in Changes |-> "none"]

Next ==
  \/ \E i \in Changes :
       \/ Show(i) \/ Run(i) \/ Apply(i) \/ Silence(i) \/ Fail(i) \/ Drop(i)
       \/ ApplyAtOnce(i)
  \/ \E i, j \in Changes : Undo(i, j)
  \/ Crash

Spec == Init /\ [][Next]_<<stage, undo>>

(* Only a change that was carried out to its end can be undone, whether or *)
(* not anybody was told of it.                                             *)
UndoNeedsApply ==
  \A i \in Changes : undo[i] # "none" => stage[i] \in {"applied", "unreported"}
=============================================================================
