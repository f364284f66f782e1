--------------------------- MODULE DashboardTools ---------------------------
(***************************************************************************)
(* haops_dashboard_diff, haops_dashboard_patch and haops_dashboard_apply   *)
(* (tools/dashboard.py).  The apply waits for the dashboard's lock and,    *)
(* holding it, for the reply of Home Assistant to lovelace/config/save.    *)
(***************************************************************************)
EXTENDS HaOpsContext

DashboardItem(d, old, new) == [res |-> d, old |-> old, new |-> new, create |-> FALSE]

(* A missing dashboard is taken for {}, which is how one is given its      *)
(* first config.                                                           *)
DashboardDiff(d, c) ==
  /\ "dashboard" \in Tools /\ loop = None
  /\ c # OrEmpty(content[d])
  /\ CreateToken("dashboard_apply", <<DashboardItem(d, OrEmpty(content[d]), c)>>, 0)
  /\ UNCHANGED <<txns, durable, sched, world>>

(* A missing dashboard is refused; a patch that changes nothing is not.    *)
DashboardPatch(d, c) ==
  /\ "dashboard" \in Tools /\ loop = None
  /\ content[d] # Absent
  /\ CreateToken("dashboard_apply", <<DashboardItem(d, content[d], c)>>, 0)
  /\ UNCHANGED <<txns, durable, sched, world>>

-----------------------------------------------------------------------------
(* haops_dashboard_apply.                                                  *)

DashboardApply(t, tk) ==
  /\ "dashboard" \in Tools /\ MayStart(t)
  /\ ClaimToken(tk)
  /\ IF tokens[tk].action = "dashboard_apply"
     THEN task' = [task EXCEPT ![t] =
                     [Idle EXCEPT !.pc = "dash_lock", !.tok = tk, !.k = 1]]
     ELSE UNCHANGED task
  /\ UNCHANGED <<txns, durable, lock, loop, world>>

(* _get_dashboard_config: the storage file, else a WebSocket read; None    *)
(* when the dashboard has no config or the read failed.                    *)
Readings(d) == {IF content[d] = Absent THEN None ELSE content[d], None}

(* Variant: no recheck, as before the drift guard.                         *)
NeverDrifted(got, old) == TRUE

(* A failed read does not block the apply.                                 *)
NotDrifted(got, old) == got = None \/ got = old

(* With the lock: re-fetch, compare, open the transaction, back the        *)
(* previewed config up, send the save.                                     *)
DashboardRecheck(t) ==
  /\ At(t, "dash_lock")
  /\ LET it == Item(t)
         tk == task[t].tok
     IN  /\ Acquire(t, it.res)
         /\ \E got \in Readings(it.res) :
              /\ NotDrifted(got, it.old)
              /\ Begin(tk, <<Savepoint(it.res, it.old, FALSE, 1)>>)
              /\ IF BackupOnWrite /\ it.old # Empty
                 THEN BackUp(it.res, it.old)
                 ELSE UNCHANGED backups
              /\ Send(tk, 1, "do", it.res, it.new, got # None)
              /\ unsure' = IF got = None THEN unsure \cup {tk} ELSE unsure
  /\ task' = [task EXCEPT ![t].pc = "dash_wait", ![t].txn = Len(txns) + 1]
  /\ loop' = None
  /\ UNCHANGED <<tokens, audit, content, writer, replaced>>

(* The dashboard drifted: refuse, the token stays spent.                   *)
DashboardRefuse(t) ==
  /\ At(t, "dash_lock")
  /\ lock[Item(t).res] = None
  /\ content[Item(t).res] \notin {Absent, Item(t).old}
  /\ Finish(t)
  /\ UNCHANGED <<memory, durable, lock, world>>

DashboardSaved(t) ==
  /\ At(t, "dash_wait") /\ task[t].reply = "ok"
  /\ Commit(task[t].txn)
  /\ LogOperation(task[t].tok, TRUE, FALSE)
  /\ Release(t)
  /\ Finish(t)
  /\ UNCHANGED <<tokens, backups, world>>

(* The transaction stays open, nothing is logged.                          *)
DashboardSaveFails(t) ==
  /\ At(t, "dash_wait") /\ task[t].reply = "err"
  /\ Release(t)
  /\ Finish(t)
  /\ UNCHANGED <<memory, durable, world>>

DashboardStep(t) ==
  \/ DashboardRecheck(t)
  \/ DashboardRefuse(t)
  \/ DashboardSaved(t)
  \/ DashboardSaveFails(t)
=============================================================================
