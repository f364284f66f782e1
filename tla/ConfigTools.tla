----------------------------- MODULE ConfigTools -----------------------------
(***************************************************************************)
(* haops_config_patch, haops_config_create and haops_config_apply          *)
(* (tools/config.py).  The previews never wait, so each is one step.  The  *)
(* apply never waits either, but it touches the disk several times, and an *)
(* editor or a crash may come between two of them.                         *)
(*                                                                         *)
(* auto_apply=true is the preview followed at once by the apply.           *)
(***************************************************************************)
EXTENDS HaOpsContext

ConfigItem(p, old, new) == [res |-> p, old |-> old, new |-> new, create |-> FALSE]

(* The patch applies to what is on disk; the diff that decides whether     *)
(* there is anything to do compares the canonical forms.  A result that is *)
(* no YAML is refused, an old text that is none is not.                    *)
ConfigPatch(p, c) ==
  /\ "config" \in Tools /\ loop = None
  /\ content[p] # Absent /\ Loads(p, c)
  /\ ~Same(p, content[p], c)
  /\ CreateToken("config_apply", <<ConfigItem(p, content[p], c)>>, 0)
  /\ UNCHANGED <<txns, durable, sched, world>>

ConfigCreate(p, c) ==
  /\ "config" \in Tools /\ loop = None
  /\ content[p] = Absent /\ Loads(p, c)
  /\ CreateToken("config_apply", <<ConfigItem(p, Empty, c)>>, 0)
  /\ UNCHANGED <<txns, durable, sched, world>>

-----------------------------------------------------------------------------
(* haops_config_apply.                                                     *)

(* Variant: no staleness recheck.                                          *)
ConfigUnchecked(it) == TRUE

(* The staleness recheck.  The token does not say whether the file was     *)
(* there: an absent file and an empty one both have old_content "".        *)
ConfigFresh(it) == OrEmpty(content[it.res]) = it.old

(* Claim, recheck, open the transaction.  A token of another tool ends the *)
(* call with a KeyError, a stale one with an error; both stay spent.       *)
ConfigApply(t, tk) ==
  /\ "config" \in Tools /\ MayStart(t)
  /\ ClaimToken(tk)
  /\ \/ /\ tokens[tk].action = "config_apply"
        /\ LET it == tokens[tk].items[1]
           IN  /\ ConfigFresh(it)
               /\ Begin(tk, <<Savepoint(it.res, it.old, FALSE, 1)>>)
        /\ task' = [task EXCEPT ![t] = [Idle EXCEPT !.pc = "cfg_backup",
                      !.tok = tk, !.txn = Len(txns) + 1, !.k = 1]]
        /\ loop' = t
     \/ /\ tokens[tk].action = "config_apply" => ~ConfigFresh(tokens[tk].items[1])
        /\ UNCHANGED <<txns, loop, task>>
  /\ UNCHANGED <<durable, lock, world>>

ConfigBackup(t) ==
  /\ At(t, "cfg_backup")
  /\ LET p == Item(t).res
     IN  IF BackupOnWrite /\ content[p] # Absent
         THEN BackUp(p, content[p])
         ELSE UNCHANGED backups
  /\ task' = [task EXCEPT ![t].pc = "cfg_write"]
  /\ UNCHANGED <<memory, audit, lock, loop, world>>

ConfigWrite(t) ==
  /\ At(t, "cfg_write")
  /\ LET it == Item(t)
     IN  /\ Write(it.res, Written(it.res, it.new), "apply", task[t].tok)
         /\ Replace(task[t].tok, 1, it.res)
  /\ task' = [task EXCEPT ![t].pc = "cfg_commit"]
  /\ UNCHANGED <<memory, durable, lock, loop, inflight>>

(* The disk is full or read-only: the exception leaves the target intact   *)
(* (a temporary file is renamed over it) and the transaction open.         *)
ConfigWriteFails(t) ==
  /\ task[t].pc \in {"cfg_backup", "cfg_write"} /\ MayRun(t)
  /\ Finish(t)
  /\ UNCHANGED <<memory, durable, lock, world>>

ConfigCommit(t) ==
  /\ At(t, "cfg_commit")
  /\ Commit(task[t].txn)
  /\ LogOperation(task[t].tok, TRUE, FALSE)
  /\ Finish(t)
  /\ UNCHANGED <<tokens, backups, lock, world>>

ConfigStep(t) ==
  \/ ConfigBackup(t)
  \/ ConfigWrite(t)
  \/ ConfigWriteFails(t)
  \/ ConfigCommit(t)
=============================================================================
