-------------------------- MODULE MutationPipeline --------------------------
(***************************************************************************)
(* The mutating tools over files and dashboards, called by concurrent      *)
(* sessions of one server process, beside the people and the Home          *)
(* Assistant that change the same files and dashboards.                    *)
(***************************************************************************)
EXTENDS ConfigTools, RollbackTools, BackupTools, BatchTools

(* A session asks for a preview.                                           *)
Preview ==
  \/ \E p \in Files, c \in Texts : ConfigPatch(p, c)
  \/ \E p \in Files, c \in Texts : ConfigCreate(p, c)
  \/ \E d \in Dashboards, c \in Texts : DashboardDiff(d, c)
  \/ \E d \in Dashboards, c \in Texts : DashboardPatch(d, c)
  \/ \E x \in DOMAIN txns : RollbackPreview(x)
  \/ \E b \in DOMAIN backups : RevertPreview(b)
  \/ PrunePreview
  \/ \E n \in 1..MaxItems :
       \E rs \in [1..n -> Resources], cs \in [1..n -> Texts] :
         BatchPreview(rs, cs)

(* A session presents a token, or confirms, and t becomes its call.        *)
Start(t) ==
  \/ \E tk \in DOMAIN tokens : ConfigApply(t, tk)
  \/ \E tk \in DOMAIN tokens : DashboardApply(t, tk)
  \/ \E tk \in DOMAIN tokens : BatchApply(t, tk)
  \/ \E x \in DOMAIN txns : RollbackEnter(t, x)
  \/ \E tk \in DOMAIN tokens, b \in DOMAIN backups : RevertConfirm(t, tk, b)
  \/ \E tk \in DOMAIN tokens, b \in DOMAIN backups : RevertMismatch(t, tk, b)

(* t does its next step.                                                   *)
Step(t) ==
  \/ ConfigStep(t)
  \/ DashboardStep(t)
  \/ RollbackStep(t)
  \/ RevertStep(t)
  \/ BatchStep(t)

(* The WebSocket answers the command t waits for.                          *)
Answer(t) ==
  \/ \E e \in inflight : e.heard /\ e.tok = task[t].tok /\ HaSave(e)
  \/ WsError(t)

Environment ==
  \/ \E r \in Resources, c \in Texts \cup {Absent} : OutsideEdit(r, c)
  \/ \E e \in inflight : ~e.heard /\ HaSave(e)
  \/ Restart

Next ==
  \/ Preview
  \/ \E tk \in DOMAIN tokens : PruneConfirm(tk)
  \/ \E t \in Tasks : Start(t) \/ Step(t) \/ Answer(t) \/ Cancel(t)
  \/ Environment

Spec == Init /\ [][Next]_vars

(* The event loop runs every task that can run, and send_command ends      *)
(* within its timeout.  Nobody has to call a tool, to edit or to cancel,   *)
(* and a save nobody waits for need never execute.                         *)
Fairness == \A t \in Tasks : WF_vars(Step(t)) /\ WF_vars(Answer(t))

FairSpec == Spec /\ Fairness

-----------------------------------------------------------------------------
(* Safety.                                                                 *)

(* A token drives one call: no two calls in progress have claimed the same *)
(* one, and no two log entries carry the same one (claim_token).           *)
TokenDrivesOneCall ==
  /\ \A t, u \in Tasks : task[t].tok # 0 /\ task[t].tok = task[u].tok => t = u
  /\ \A i, j \in DOMAIN audit : audit[i].tok = audit[j].tok => i = j
  /\ \A t \in Tasks, i \in DOMAIN audit : task[t].tok # audit[i].tok

(* The mutation lock of a dashboard covers recheck, save and reply: the    *)
(* call that waits for the reply to its save is the one that holds the     *)
(* lock, so two guarded saves of one dashboard are never under way.        *)
LockCoversSave ==
  \A t \in Tasks :
    task[t].pc \in {"dash_wait", "b_wait"} => lock[Item(t).res] = t

(* Nobody waits for a lock with a lock in hand, so calls that lock the     *)
(* same dashboards in different orders cannot wait for each other.         *)
WaitersHoldNoLock ==
  \A t \in Tasks :
    task[t].pc \in {"dash_lock", "b_lock"} => \A r \in Dashboards : lock[r] # t

Saving == {"cfg_write", "b_write"}

(* The recheck still holds when the write lands: what an apply overwrites  *)
(* is what its preview showed, unless somebody who takes no lock wrote in  *)
(* between -- never another apply (server.py, HaOpsContext.mutation_lock). *)
AppliesDoNotClobberApplies ==
  /\ \A t \in Tasks :
       task[t].pc \in Saving /\ writer[Item(t).res] # "outside"
         => OrEmpty(content[Item(t).res]) = Item(t).old
  /\ \A e \in inflight :
       e.heard /\ e.checked /\ writer[e.res] = "apply"
         => content[e.res] = tokens[e.tok].items[e.k].old

(* A batch that reports success left every target with its last item's     *)
(* content; a batch that reports failure and nothing dirty left every      *)
(* target with the content it had before -- unless somebody else wrote to  *)
(* one of its targets meanwhile, or a target could not be read.            *)
LastItem(items, k) == \A j \in DOMAIN items : items[j].res = items[k].res => j <= k

BatchAllOrNothing ==
  \A t \in Tasks :
    LET items == Token(t).items
    IN  task[t].pc \in {"b_item", "b_undo"} /\ task[t].tok \notin unsure =>
          /\ task[t].pc = "b_item" /\ ~MoreItems(t) =>
               \A k \in DOMAIN items :
                 LastItem(items, k) =>
                   content[items[k].res] = Written(items[k].res, items[k].new)
          /\ task[t].pc = "b_undo" /\ task[t].k = 0 /\ ~task[t].dirty =>
               \A k \in 1..task[t].n :
                 (\A j \in 1..(k - 1) : items[j].res # items[k].res) =>
                   Same(items[k].res, content[items[k].res],
                        replaced[<<task[t].tok, k>>])

(* The item of its token a savepoint was recorded for replaced this.       *)
Before(x, i) == replaced[<<txns[x].tok, txns[x].saves[i].k>>]

Rolling(t) == task[t].pc = "rb_undo" /\ task[t].k = 0 /\ task[t].n > 0

(* A rollback that reports success has put every target back to the        *)
(* content the transaction first replaced there, if nobody wrote to it     *)
(* while the rollback ran.                                                 *)
RolledBack(t, i) ==
  LET x == task[t].txn
      r == txns[x].saves[i].res
  IN  Same(r, content[r], Before(x, i))

FirstSave(x, i) ==
  \A j \in 1..(i - 1) : txns[x].saves[j].res # txns[x].saves[i].res

(* Proviso of RollbackRestores: the target existed, the transaction was    *)
(* not itself a revert, and no call of the two met a foreign write.        *)
RollbackRestores ==
  \A t \in Tasks : Rolling(t) /\ ~task[t].dirty =>
    LET x == task[t].txn
    IN  {task[t].tok, txns[x].tok} \cap unsure = {} =>
          \A i \in DOMAIN txns[x].saves :
            /\ FirstSave(x, i)
            /\ tokens[txns[x].tok].action # "backup_revert"
            /\ Before(x, i) # Absent \/ txns[x].saves[i].created
            => RolledBack(t, i)

(* Two rollbacks of one transaction never both restore something.          *)
RollbackOnce ==
  \A t, u \in Tasks :
    /\ {task[t].pc, task[u].pc} \subseteq {"rb_undo", "rb_wait"}
    /\ task[t].n > 0 /\ task[u].n > 0
    /\ task[t].txn = task[u].txn
    => t = u

(* With backup_on_write, what a guarded write destroyed has been copied to *)
(* the backup directory before, at whatever point the server stopped.      *)
BackupCoversWrite ==
  BackupOnWrite =>
    \A tk \in DOMAIN tokens : \A k \in DOMAIN tokens[tk].items :
      LET r == tokens[tk].items[k].res
          c == replaced[<<tk, k>>]
      IN  /\ tokens[tk].action \in {"config_apply", "dashboard_apply", "batch_apply"}
          /\ tk \notin unsure
          /\ c \notin {None, Absent}
          /\ ~(r \in Dashboards /\ c = Empty)
          => \E b \in DOMAIN backups : backups[b].res = r /\ backups[b].text = c

-----------------------------------------------------------------------------
(* The contract: every token is a change of ChangeLedger.                  *)

CommittedFor(tk) ==
  {x \in DOMAIN txns : /\ txns[x].state = "committed"
                       /\ txns[x].tok = tk
                       /\ txns[x].saves # <<>>}

Stage(tk) ==
  CASE tk \notin DOMAIN tokens    -> "unseen"
    [] Live(tk)                   -> "shown"
    [] \E t \in Tasks : task[t].tok = tk -> "running"
    [] \E i \in DOMAIN audit : audit[i].tok = tk /\ audit[i].ok -> "applied"
    [] \E i \in DOMAIN audit : audit[i].tok = tk /\ ~audit[i].ok -> "failed"
    [] OTHER -> IF CommittedFor(tk) # {} THEN "unreported" ELSE "dropped"

UndoOf(tk) ==
  IF CommittedFor(tk) = {} THEN "none"
  ELSE IF \E x \in CommittedFor(tk) : ActiveSavepoints(x) # {}
       THEN "ready" ELSE "used"

Ledger == INSTANCE ChangeLedger WITH
            Changes <- TokenIds,
            stage   <- [tk \in TokenIds |-> Stage(tk)],
            undo    <- [tk \in TokenIds |-> UndoOf(tk)]

(* Every step of the pipeline is a step of the contract: no change runs or *)
(* is reported twice, is undone twice, or can be undone before it was      *)
(* carried out, whatever becomes of its log entry (AuditLog.log may raise, *)
(* after the transaction was committed).                                   *)
KeepsContract == Ledger!Spec

-----------------------------------------------------------------------------
(* Liveness.                                                               *)

(* Every call ends: no reply is waited for forever, no lock is left behind *)
(* by a call that failed or was cancelled, no two batches wait for each    *)
(* other.                                                                  *)
EveryCallEnds == \A t \in Tasks : task[t].pc # "idle" ~> task[t].pc = "idle"
=============================================================================
