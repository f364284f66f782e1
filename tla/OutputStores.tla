------------------------------ MODULE OutputStores ------------------------------
(***************************************************************************)
(* safety/captures.py and safety/shell_output.py.  Unlike backups they     *)
(* leave the manifest alone when nothing is to be pruned, and delete every *)
(* file that no line they can parse names.                                 *)
(***************************************************************************)
EXTENDS ManifestStore

AtOutputs == store \in {"captures", "shell"}

(* Retention does not look at kinds.                                       *)
AnyKind == CHOOSE k \in Kinds : TRUE

CaptureSave == store = "captures" /\ MakeFile(AnyKind)

ShellSave == store = "shell" /\ MakeFile(AnyKind)

OutputAppend == AtOutputs /\ AppendLine

OutputAppendBreaks == AtOutputs /\ AppendBreaks

(* The newest, as far as they are young enough.                            *)
Keep == {i \in listed : Cardinality({j \in listed : j > i}) < Cap /\ Age(i) <= MaxAge}

OutputPlan ==
  /\ AtOutputs
  /\ step.pc = "plan"
  /\ step' = [step EXCEPT !.pc = IF Keep = listed THEN "sweep" ELSE "unlink", !.doomed = listed \ Keep,
                          !.keep = Keep]
  /\ UNCHANGED <<store, listed, torn, tail, files, made, today, appended, byHand, swallowed, passDay>>

OutputUnlink == AtOutputs /\ \E i \in step.doomed : Unlink(i)

(* A file that cannot be deleted ends the pass and the call, and keeps the *)
(* server down when it is starting.                                        *)
OutputUnlinkFails ==
  /\ AtOutputs
  /\ "disk" \in StoreFaults
  /\ step.pc = "unlink" /\ step.doomed # {}
  /\ step' = [Resting EXCEPT !.pc = IF step.auto /\ step.id = 0 THEN "down" ELSE "idle"]
  /\ UNCHANGED <<store, listed, torn, tail, files, made, today, appended, byHand, swallowed, passDay>>

OutputRewrite ==
  /\ AtOutputs
  /\ MayRewrite
  /\ Replace(step.keep)
  /\ step' = IF step.auto THEN [step EXCEPT !.pc = "sweep"] ELSE Resting
  /\ UNCHANGED <<store, files, made, today, appended, byHand, swallowed, passDay>>

Swept == files \cap step.keep

Sweep ==
  /\ AtOutputs
  /\ step.pc = "sweep"
  /\ files' = Swept
  /\ step' = Resting
  /\ passDay' = today
  /\ UNCHANGED <<store, listed, torn, tail, made, today, appended, byHand, swallowed>>

(* The sidebar deletes captures by id, or purges all or the old ones.      *)
CaptureDelete ==
  /\ store = "captures"
  /\ step.pc = "idle"
  /\ \E doomed \in SUBSET listed :
       /\ step' = [Resting EXCEPT !.pc = "unlink", !.doomed = doomed, !.auto = FALSE,
                                  !.keep = listed \ doomed]
       /\ byHand' = byHand \cup doomed
  /\ passDay' = 0
  /\ UNCHANGED <<store, listed, torn, tail, files, made, today, appended, swallowed>>

CapturePurge ==
  /\ store = "captures"
  /\ step.pc = "idle"
  /\ \E days \in 0..MaxAge, all \in BOOLEAN :
       LET doomed == {i \in listed : all \/ Age(i) > days}
       IN /\ doomed # {}
          /\ step' = [Resting EXCEPT !.pc = "unlink", !.doomed = doomed, !.auto = FALSE,
                                     !.keep = listed \ doomed]
          /\ byHand' = byHand \cup doomed
  /\ passDay' = 0
  /\ UNCHANGED <<store, listed, torn, tail, files, made, today, appended, swallowed>>

(* A note is written by replacing the manifest with the lines that parse.  *)
CaptureAnnotate ==
  /\ store = "captures"
  /\ step.pc = "idle"
  /\ listed # {}
  /\ Replace(listed)
  /\ UNCHANGED <<store, files, made, today, step, appended, byHand, swallowed, passDay>>

OutputNext ==
  \/ CaptureSave
  \/ ShellSave
  \/ OutputAppend
  \/ OutputAppendBreaks
  \/ OutputPlan
  \/ OutputUnlink
  \/ OutputUnlinkFails
  \/ OutputRewrite
  \/ Sweep
  \/ CaptureDelete
  \/ CapturePurge
  \/ CaptureAnnotate

================================================================================
