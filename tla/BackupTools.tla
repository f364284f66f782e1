----------------------------- MODULE BackupTools -----------------------------
(***************************************************************************)
(* haops_backup_revert and haops_backup_prune (tools/backup.py).           *)
(***************************************************************************)
EXTENDS HaOpsContext

(* The entry is in the manifest and its file is there.                     *)
Kept(b) == b \in DOMAIN backups /\ backups[b].kept

(* The token carries the backup and the content the target has now.        *)
RevertPreview(b) ==
  /\ "revert" \in Tools /\ loop = None
  /\ Kept(b)
  /\ LET e == backups[b]
     IN  CreateToken("backup_revert",
           <<[res |-> e.res, old |-> OrEmpty(content[e.res]), new |-> e.text,
              create |-> FALSE]>>, 0)
  /\ UNCHANGED <<txns, durable, sched, world>>

(* confirm=true.  The backup the client names decides which of the two     *)
(* handlers runs; what is restored is in the token.  The undo entry is the *)
(* content of the preview.  A dashboard is restored over the WebSocket.    *)
RevertConfirm(t, tk, b) ==
  /\ MayStart(t) /\ Kept(b)
  /\ ClaimToken(tk)
  /\ tokens[tk].action = "backup_revert"
  /\ LET it == tokens[tk].items[1]
     IN  /\ SameType(it.res, backups[b].res)
         /\ Begin(tk, <<Savepoint(it.res, it.old, FALSE, 1)>>)
         /\ IF it.res \in Files
            THEN /\ task' = [task EXCEPT ![t] = [Idle EXCEPT !.pc = "rv_write",
                               !.tok = tk, !.txn = Len(txns) + 1, !.k = 1]]
                 /\ loop' = t
                 /\ UNCHANGED inflight
            ELSE /\ task' = [task EXCEPT ![t] = [Idle EXCEPT !.pc = "rv_wait",
                               !.tok = tk, !.txn = Len(txns) + 1, !.k = 1]]
                 /\ Send(tk, 1, "do", it.res, it.new, FALSE)
                 /\ UNCHANGED loop
  /\ UNCHANGED <<durable, lock, content, writer, replaced, unsure>>

(* A token of another tool, or of a backup of the other type: KeyError.    *)
RevertMismatch(t, tk, b) ==
  /\ MayStart(t) /\ Kept(b) /\ "revert" \in Tools
  /\ ClaimToken(tk)
  /\ tokens[tk].action = "backup_revert" =>
       ~SameType(tokens[tk].items[1].res, backups[b].res)
  /\ UNCHANGED <<txns, durable, sched, world>>

(* The bytes of the backup, without a YAML round trip.                     *)
RevertWrite(t) ==
  /\ At(t, "rv_write")
  /\ Write(Item(t).res, Item(t).new, "revert", task[t].tok)
  /\ Replace(task[t].tok, 1, Item(t).res)
  /\ task' = [task EXCEPT ![t].pc = "rv_commit"]
  /\ UNCHANGED <<memory, durable, lock, loop, inflight>>

RevertCommit(t) ==
  /\ \/ At(t, "rv_commit")
     \/ At(t, "rv_wait") /\ task[t].reply = "ok"
  /\ Commit(task[t].txn)
  /\ LogOperation(task[t].tok, TRUE, FALSE)
  /\ Finish(t)
  /\ UNCHANGED <<tokens, backups, lock, world>>

RevertFails(t) ==
  /\ \/ At(t, "rv_write")
     \/ At(t, "rv_wait") /\ task[t].reply = "err"
  /\ Finish(t)
  /\ UNCHANGED <<memory, durable, lock, world>>

RevertStep(t) ==
  \/ RevertWrite(t)
  \/ RevertCommit(t)
  \/ RevertFails(t)

-----------------------------------------------------------------------------
(* haops_backup_prune with clear_all: no preview without something to      *)
(* delete.  The confirm reads its parameters with defaults, so a token of  *)
(* another tool runs the pass with the retention defaults and is logged.   *)

PrunePreview ==
  /\ "prune" \in Tools /\ loop = None
  /\ \E b \in DOMAIN backups : Kept(b)
  /\ CreateToken("backup_prune", <<>>, 0)
  /\ UNCHANGED <<txns, durable, sched, world>>

PruneConfirm(tk) ==
  /\ "prune" \in Tools /\ loop = None
  /\ ClaimToken(tk)
  /\ IF tokens[tk].action = "backup_prune"
     THEN backups' = [b \in DOMAIN backups |-> [backups[b] EXCEPT !.kept = FALSE]]
     ELSE UNCHANGED backups
  /\ LogOperation(tk, TRUE, FALSE)
  /\ UNCHANGED <<txns, sched, world>>
=============================================================================
