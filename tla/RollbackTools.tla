---------------------------- MODULE RollbackTools ----------------------------
(***************************************************************************)
(* haops_rollback (tools/rollback.py): undo a committed transaction of     *)
(* this process, newest savepoint first.  It takes no mutation lock and    *)
(* does not look at what it overwrites.                                    *)
(***************************************************************************)
EXTENDS HaOpsContext

CanRollBack(x) ==
  /\ x \in DOMAIN txns
  /\ txns[x].state = "committed"
  /\ ActiveSavepoints(x) # {}

(* The token names the transaction.  Its items are what the response shows *)
(* of each target: the content it has now (old) and the one it will be     *)
(* given (new).                                                            *)
RollbackPreview(x) ==
  /\ "rollback" \in Tools /\ loop = None
  /\ CanRollBack(x)
  /\ CreateToken("rollback",
       [i \in DOMAIN txns[x].saves |->
          LET sp == txns[x].saves[i]
          IN  [res |-> sp.res, old |-> OrEmpty(content[sp.res]),
               new |-> sp.content, create |-> sp.created]], x)
  /\ UNCHANGED <<txns, durable, sched, world>>

-----------------------------------------------------------------------------
(* confirm=true.  The transaction is looked up and previewed again before  *)
(* the token is claimed; the preview of a dashboard may wait.              *)

RollbackEnter(t, x) ==
  /\ "rollback" \in Tools /\ MayStart(t)
  /\ CanRollBack(x)
  /\ task' = [task EXCEPT ![t] = [Idle EXCEPT !.pc = "rb_claim", !.txn = x]]
  /\ loop' = IF \E i \in DOMAIN txns[x].saves : txns[x].saves[i].res \in Dashboards
             THEN None ELSE t
  /\ UNCHANGED <<memory, durable, lock, world>>

(* Every savepoint is marked undone before the first one is restored.  If  *)
(* another call has marked them meanwhile, nothing is left to restore.     *)
RollbackClaim(t, tk) ==
  /\ At(t, "rb_claim")
  /\ ClaimToken(tk)
  /\ tokens[tk].action = "rollback" /\ tokens[tk].txn = task[t].txn
  /\ LET x == task[t].txn
         n == IF ActiveSavepoints(x) = {} THEN 0 ELSE Len(txns[x].saves)
     IN  /\ RollbackTransaction(x)
         /\ task' = [task EXCEPT ![t].pc = "rb_undo", ![t].tok = tk,
                                 ![t].k = n, ![t].n = n]
  /\ loop' = t
  /\ UNCHANGED <<durable, lock, world>>

(* A token of another tool or of another transaction is spent for nothing. *)
RollbackMismatch(t, tk) ==
  /\ At(t, "rb_claim")
  /\ ClaimToken(tk)
  /\ ~(tokens[tk].action = "rollback" /\ tokens[tk].txn = task[t].txn)
  /\ Finish(t)
  /\ UNCHANGED <<txns, durable, lock, world>>

(* No token, an unknown one, or a spent one.                               *)
RollbackRefuse(t) ==
  /\ At(t, "rb_claim")
  /\ Finish(t)
  /\ UNCHANGED <<memory, durable, lock, world>>

-----------------------------------------------------------------------------
(* _execute_undo, one savepoint at a time.                                 *)

(* Variant: oldest savepoint first.                                        *)
UndoingOldestFirst(t) ==
  LET saves == txns[task[t].txn].saves
  IN  saves[Len(saves) + 1 - task[t].k]

Undoing(t) == txns[task[t].txn].saves[task[t].k]

(* A text without YAML data in it is written as it is.                     *)
Restored(r, c) == IF c = Empty THEN c ELSE Written(r, c)

RollbackFile(t) ==
  /\ At(t, "rb_undo") /\ task[t].k > 0
  /\ Undoing(t).res \in Files
  /\ Undoing(t).created \/ Loads(Undoing(t).res, Undoing(t).content)
  /\ LET sp == Undoing(t)
     IN  Write(sp.res, IF sp.created THEN Absent ELSE Restored(sp.res, sp.content),
               "undo", task[t].tok)
  /\ task' = [task EXCEPT ![t].k = @ - 1]
  /\ UNCHANGED <<memory, durable, lock, loop, inflight, replaced>>

RollbackFileFails(t) ==
  /\ At(t, "rb_undo") /\ task[t].k > 0
  /\ Undoing(t).res \in Files
  /\ task' = [task EXCEPT ![t].k = @ - 1, ![t].dirty = TRUE]
  /\ UNCHANGED <<memory, durable, lock, loop, world>>

(* The YAML parser's exception is no OSError: the call ends here, with     *)
(* every savepoint marked and nothing logged.                              *)
RollbackCrashes(t) ==
  /\ At(t, "rb_undo") /\ task[t].k > 0
  /\ ~Undoing(t).created /\ ~Loads(Undoing(t).res, Undoing(t).content)
  /\ Finish(t)
  /\ UNCHANGED <<memory, durable, lock, world>>

RollbackDashboard(t) ==
  /\ At(t, "rb_undo") /\ task[t].k > 0
  /\ Undoing(t).res \in Dashboards
  /\ Send(task[t].tok, task[t].k, "undo", Undoing(t).res, Undoing(t).content, FALSE)
  /\ task' = [task EXCEPT ![t].pc = "rb_wait"]
  /\ loop' = None
  /\ UNCHANGED <<memory, durable, lock, content, writer, replaced, unsure>>

RollbackAnswered(t) ==
  /\ At(t, "rb_wait") /\ task[t].reply # "none"
  /\ task' = [task EXCEPT ![t].pc = "rb_undo", ![t].k = @ - 1,
                          ![t].reply = "none",
                          ![t].dirty = @ \/ task[t].reply = "err"]
  /\ loop' = t
  /\ UNCHANGED <<memory, durable, lock, world>>

RollbackEnd(t) ==
  /\ At(t, "rb_undo") /\ task[t].k = 0
  /\ LogOperation(task[t].tok, ~task[t].dirty, task[t].dirty)
  /\ Finish(t)
  /\ UNCHANGED <<memory, backups, lock, world>>

RollbackStep(t) ==
  \/ \E tk \in DOMAIN tokens : RollbackClaim(t, tk)
  \/ \E tk \in DOMAIN tokens : RollbackMismatch(t, tk)
  \/ RollbackRefuse(t)
  \/ RollbackFile(t)
  \/ RollbackFileFails(t)
  \/ RollbackCrashes(t)
  \/ RollbackDashboard(t)
  \/ RollbackAnswered(t)
  \/ RollbackEnd(t)
=============================================================================
