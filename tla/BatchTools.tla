----------------------------- MODULE BatchTools -----------------------------
(***************************************************************************)
(* haops_batch_preview and haops_batch_apply (tools/batch.py): several     *)
(* files and dashboards changed as one unit.  Items are written one after  *)
(* the other, each under the lock of its own target; when one fails, those *)
(* already written are restored, newest first, without any lock.           *)
(***************************************************************************)
EXTENDS DashboardTools, FiniteSetsExt

(* Item k changes rs[k] to cs[k].  What it is prepared against: the        *)
(* content an earlier item of the batch leaves its target in (`pending`),  *)
(* else what is there now.                                                 *)
Earlier(rs, k) == {j \in 1..(k - 1) : rs[j] = rs[k]}

Prepared(rs, cs, k) ==
  IF Earlier(rs, k) = {} THEN content[rs[k]] ELSE cs[Max(Earlier(rs, k))]

PreparedItem(rs, cs, k) ==
  [res    |-> rs[k],
   old    |-> OrEmpty(Prepared(rs, cs, k)),
   new    |-> cs[k],
   create |-> Prepared(rs, cs, k) = Absent]

(* A missing file is created, any other one patched; a missing dashboard,  *)
(* or a new text that is no YAML, makes the preview fail.                  *)
BatchPreview(rs, cs) ==
  /\ "batch" \in Tools /\ loop = None
  /\ \A k \in DOMAIN rs :
       /\ Loads(rs[k], cs[k])
       /\ rs[k] \in Dashboards => Prepared(rs, cs, k) # Absent
  /\ CreateToken("batch_apply", [k \in DOMAIN rs |-> PreparedItem(rs, cs, k)], 0)
  /\ UNCHANGED <<txns, durable, sched, world>>

-----------------------------------------------------------------------------
(* haops_batch_apply.                                                      *)

BatchApply(t, tk) ==
  /\ "batch" \in Tools /\ MayStart(t)
  /\ ClaimToken(tk)
  /\ \/ /\ tokens[tk].action = "batch_apply"
        /\ Begin(tk, <<>>)
        /\ task' = [task EXCEPT ![t] = [Idle EXCEPT !.pc = "b_item",
                      !.tok = tk, !.txn = Len(txns) + 1, !.k = 1]]
        /\ loop' = t
     \/ /\ tokens[tk].action # "batch_apply"
        /\ UNCHANGED <<txns, loop, task>>
  /\ UNCHANGED <<durable, lock, world>>

MoreItems(t) == task[t].k \in DOMAIN Token(t).items

(* Variant: the item before the one that failed is forgotten.              *)
AbortOneLess(t) ==
  /\ task' = [task EXCEPT ![t].pc = "b_undo", ![t].reply = "none",
                          ![t].k = IF @ > 1 THEN @ - 2 ELSE 0,
                          ![t].n = task[t].k - 1]
  /\ loop' = t

(* The item failed before it was executed: restore the ones before it.     *)
Abort(t) ==
  /\ task' = [task EXCEPT ![t].pc = "b_undo", ![t].reply = "none",
                          ![t].k = @ - 1, ![t].n = task[t].k - 1]
  /\ loop' = t

BatchFresh(it) ==
  content[it.res] = (IF it.create THEN Absent ELSE it.old)

(* A file item: recheck and copy ...                                       *)
BatchFile(t) ==
  /\ At(t, "b_item") /\ MoreItems(t)
  /\ Item(t).res \in Files
  /\ BatchFresh(Item(t))
  /\ IF BackupOnWrite /\ ~Item(t).create
     THEN /\ BackUp(Item(t).res, Item(t).old)
          /\ task' = [task EXCEPT ![t].pc = "b_write",
                                  ![t].baks = Append(@, Len(backups) + 1)]
     ELSE /\ task' = [task EXCEPT ![t].pc = "b_write", ![t].baks = Append(@, 0)]
          /\ UNCHANGED backups
  /\ UNCHANGED <<memory, audit, lock, loop, world>>

(* ... then write and record.  No await comes between the two.             *)
BatchWrite(t) ==
  /\ At(t, "b_write")
  /\ LET it == Item(t)
     IN  /\ Write(it.res, Written(it.res, it.new), "apply", task[t].tok)
         /\ AddSavepoint(task[t].txn,
              Savepoint(it.res, IF it.create THEN Empty ELSE it.old, it.create,
                        task[t].k))
         /\ Replace(task[t].tok, task[t].k, it.res)
  /\ task' = [task EXCEPT ![t].pc = "b_item", ![t].k = @ + 1]
  /\ UNCHANGED <<tokens, durable, lock, loop, inflight>>

(* The recheck refuses, or the disk does.                                  *)
BatchFileFails(t) ==
  /\ \/ /\ At(t, "b_item") /\ MoreItems(t)
        /\ Item(t).res \in Files
        /\ ~BatchFresh(Item(t))
     \/ At(t, "b_write")
  /\ Abort(t)
  /\ UNCHANGED <<memory, durable, lock, world>>

-----------------------------------------------------------------------------
(* A dashboard item: wait for the lock, recheck, back up, save, wait.      *)

BatchDashboard(t) ==
  /\ At(t, "b_item") /\ MoreItems(t)
  /\ Item(t).res \in Dashboards
  /\ task' = [task EXCEPT ![t].pc = "b_lock"]
  /\ loop' = None
  /\ UNCHANGED <<memory, durable, lock, world>>

BatchRecheck(t) ==
  /\ At(t, "b_lock")
  /\ LET it == Item(t)
         tk == task[t].tok
         backed == BackupOnWrite /\ it.old # Empty
     IN  /\ Acquire(t, it.res)
         /\ \E got \in Readings(it.res) :
              /\ NotDrifted(got, it.old)
              /\ Send(tk, task[t].k, "do", it.res, it.new, got # None)
              /\ unsure' = IF got = None THEN unsure \cup {tk} ELSE unsure
         /\ IF backed THEN BackUp(it.res, it.old) ELSE UNCHANGED backups
         /\ task' = [task EXCEPT ![t].pc = "b_wait",
                       ![t].baks = Append(@, IF backed THEN Len(backups) + 1 ELSE 0)]
  /\ loop' = None
  /\ UNCHANGED <<memory, audit, content, writer, replaced>>

BatchRefuse(t) ==
  /\ At(t, "b_lock")
  /\ lock[Item(t).res] = None
  /\ content[Item(t).res] \notin {Absent, Item(t).old}
  /\ Abort(t)
  /\ UNCHANGED <<memory, durable, lock, world>>

BatchSaved(t) ==
  /\ At(t, "b_wait") /\ task[t].reply = "ok"
  /\ AddSavepoint(task[t].txn,
       Savepoint(Item(t).res, Item(t).old, FALSE, task[t].k))
  /\ Release(t)
  /\ task' = [task EXCEPT ![t].pc = "b_item", ![t].k = @ + 1, ![t].reply = "none"]
  /\ loop' = t
  /\ UNCHANGED <<tokens, durable, world>>

BatchSaveFails(t) ==
  /\ At(t, "b_wait") /\ task[t].reply = "err"
  /\ Release(t)
  /\ Abort(t)
  /\ UNCHANGED <<memory, durable, world>>

BatchCommit(t) ==
  /\ At(t, "b_item") /\ ~MoreItems(t)
  /\ Commit(task[t].txn)
  /\ LogOperation(task[t].tok, TRUE, FALSE)
  /\ Finish(t)
  /\ UNCHANGED <<tokens, backups, lock, world>>

-----------------------------------------------------------------------------
(* _rollback_item for the executed items, newest first.                    *)

(* What restoring item k from its backup or from the token writes; None    *)
(* when the backup file is gone.                                           *)
Original(t) ==
  LET it == Item(t)
      b  == task[t].baks[task[t].k]
  IN  CASE it.create         -> Absent
        [] ~it.create /\ b = 0 -> Written(it.res, it.old)
        [] OTHER -> IF backups[b].kept THEN backups[b].text ELSE None

(* Without a backup the old text is parsed to be written, and a parser's   *)
(* exception leaves the handler.                                           *)
CanRestore(t) ==
  task[t].baks[task[t].k] = 0 /\ ~Item(t).create => Loads(Item(t).res, Item(t).old)

BatchUndoCrashes(t) ==
  /\ At(t, "b_undo") /\ task[t].k > 0
  /\ Item(t).res \in Files /\ ~CanRestore(t)
  /\ Finish(t)
  /\ UNCHANGED <<memory, durable, lock, world>>

BatchUndoFile(t) ==
  /\ At(t, "b_undo") /\ task[t].k > 0
  /\ Item(t).res \in Files /\ CanRestore(t)
  /\ Original(t) # None
  /\ Write(Item(t).res, Original(t), "undo", task[t].tok)
  /\ task' = [task EXCEPT ![t].k = @ - 1]
  /\ UNCHANGED <<memory, durable, lock, loop, inflight, replaced>>

BatchUndoFileFails(t) ==
  /\ At(t, "b_undo") /\ task[t].k > 0
  /\ Item(t).res \in Files /\ CanRestore(t)
  /\ task' = [task EXCEPT ![t].k = @ - 1, ![t].dirty = TRUE]
  /\ UNCHANGED <<memory, durable, lock, loop, world>>

BatchUndoDashboard(t) ==
  /\ At(t, "b_undo") /\ task[t].k > 0
  /\ Item(t).res \in Dashboards
  /\ Send(task[t].tok, task[t].k, "undo", Item(t).res, Item(t).old, FALSE)
  /\ task' = [task EXCEPT ![t].pc = "b_uwait"]
  /\ loop' = None
  /\ UNCHANGED <<memory, durable, lock, content, writer, replaced, unsure>>

BatchUndone(t) ==
  /\ At(t, "b_uwait") /\ task[t].reply # "none"
  /\ task' = [task EXCEPT ![t].pc = "b_undo", ![t].k = @ - 1,
                          ![t].reply = "none",
                          ![t].dirty = @ \/ task[t].reply = "err"]
  /\ loop' = t
  /\ UNCHANGED <<memory, durable, lock, world>>

BatchFailed(t) ==
  /\ At(t, "b_undo") /\ task[t].k = 0
  /\ Discard(task[t].txn)
  /\ LogOperation(task[t].tok, FALSE, task[t].dirty)
  /\ Finish(t)
  /\ UNCHANGED <<tokens, backups, lock, world>>

BatchStep(t) ==
  \/ BatchFile(t) \/ BatchWrite(t) \/ BatchFileFails(t)
  \/ BatchDashboard(t) \/ BatchRecheck(t) \/ BatchRefuse(t)
  \/ BatchSaved(t) \/ BatchSaveFails(t) \/ BatchCommit(t)
  \/ BatchUndoFile(t) \/ BatchUndoFileFails(t) \/ BatchUndoCrashes(t)
  \/ BatchUndoDashboard(t) \/ BatchUndone(t) \/ BatchFailed(t)
=============================================================================
