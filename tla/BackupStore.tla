------------------------------ MODULE BackupStore ------------------------------
(***************************************************************************)
(* safety/backup.py: copies, their manifest, retention and pruning by      *)
(* hand, step by step on the disk.                                         *)
(***************************************************************************)
EXTENDS ManifestStore

AtBackups == store = "backup"

BackupCopy(kind) == AtBackups /\ MakeFile(kind)

BackupAppend == AtBackups /\ AppendLine

BackupAppendBreaks == AtBackups /\ AppendBreaks

(* Variant: a day more is granted.                                         *)
TooOldLate(scope, days) == {i \in scope : Age(i) > days + 1}

TooOld(scope, days) == {i \in scope : Age(i) > days}

(* Variant: the entries are sorted oldest first.                           *)
OverCapOldest(scope) ==
  {i \in scope : Cardinality({j \in scope : made[j].kind = made[i].kind /\ j < i}) >= Cap}

(* Beyond the newest of each type.                                         *)
OverCap(scope) ==
  {i \in scope : Cardinality({j \in scope : made[j].kind = made[i].kind /\ j > i}) >= Cap}

Condemned(scope, days) == TooOld(scope, days) \cup OverCap(scope \ TooOld(scope, days))

(* Variant: the manifest is left as it is.                                 *)
SurvivorsAll(doomed) == listed

(* Lines that do not parse are not among the survivors.                    *)
Survivors(doomed) == listed \ doomed

Begin(doomed, auto) ==
  step' = [Resting EXCEPT !.pc = "unlink", !.doomed = doomed, !.keep = Survivors(doomed), !.auto = auto]

BackupPlan ==
  /\ AtBackups
  /\ step.pc = "plan"
  /\ Begin(Condemned(listed, MaxAge), TRUE)
  /\ UNCHANGED <<store, listed, torn, tail, files, made, today, appended, byHand, swallowed, passDay>>

(* haops_backup_prune: everything, or what is older than so many days, of  *)
(* one type or of all.                                                     *)
BackupPrune ==
  /\ AtBackups
  /\ step.pc = "idle"
  /\ listed # {} \/ torn
  /\ \E ks \in {Kinds} \cup {{k} : k \in Kinds} :
       LET scope == {i \in listed : made[i].kind \in ks}
       IN \E doomed \in {scope} \cup {Condemned(scope, days) : days \in 0..MaxAge} :
            Begin(doomed, FALSE) /\ byHand' = byHand \cup doomed
  /\ passDay' = 0
  /\ UNCHANGED <<store, listed, torn, tail, files, made, today, appended, swallowed>>

BackupUnlink == AtBackups /\ \E i \in step.doomed : Unlink(i)

(* A file that cannot be deleted is passed over.                           *)
BackupUnlinkFails ==
  /\ AtBackups
  /\ "disk" \in StoreFaults
  /\ step.pc = "unlink"
  /\ \E i \in step.doomed : step' = [step EXCEPT !.doomed = @ \ {i}]
  /\ UNCHANGED <<store, listed, torn, tail, files, made, today, appended, byHand, swallowed, passDay>>

BackupRewrite ==
  /\ AtBackups
  /\ MayRewrite
  /\ Replace(step.keep)
  /\ step' = Resting
  /\ passDay' = IF step.auto THEN today ELSE 0
  /\ UNCHANGED <<store, files, made, today, appended, byHand, swallowed>>

(* The caller of the pass carries on without it.                           *)
BackupRewriteFails ==
  /\ AtBackups
  /\ "disk" \in StoreFaults
  /\ MayRewrite
  /\ step' = Resting
  /\ passDay' = 0
  /\ UNCHANGED <<store, listed, torn, tail, files, made, today, appended, byHand, swallowed>>

BackupNext ==
  \/ \E k \in Kinds : BackupCopy(k)
  \/ BackupAppend
  \/ BackupAppendBreaks
  \/ BackupPlan
  \/ BackupPrune
  \/ BackupUnlink
  \/ BackupUnlinkFails
  \/ BackupRewrite
  \/ BackupRewriteFails

================================================================================
