------------------------- MODULE PipelineInvariants -------------------------
(***************************************************************************)
(* The inductive invariants behind the theorems about MutationPipeline:    *)
(* what makes the type invariant, the single use of a token, the dashboard *)
(* locks, the single undo, the contract, the rechecks, the backups and     *)
(* what batches and rollbacks promise survive every step.                  *)
(***************************************************************************)
EXTENDS MutationPipeline

(* Calls that work on the item k of their token.                           *)
AtItem == {"cfg_backup", "cfg_write", "cfg_commit", "dash_lock", "dash_wait",
           "rv_write", "rv_commit", "rv_wait",
           "b_write", "b_lock", "b_wait", "b_uwait"}

(* Calls whose item is a dashboard.                                        *)
AtDashboard == {"dash_lock", "dash_wait", "b_lock", "b_wait"}

(* Calls that hold the lock of their item.                                 *)
Holding == {"dash_wait", "b_wait"}

(* The record c of a call fits the tokens, transactions and backups there  *)
(* are: the indices it carries are in range, and a batch has noted one     *)
(* backup for each item it has executed.                                   *)
CallFits(c, toks, xs, baks) ==
  /\ c.pc \notin {"idle", "rb_claim"} => c.tok \in DOMAIN toks
  /\ c.pc \in AtItem => c.k \in DOMAIN toks[c.tok].items
  /\ c.pc \in AtDashboard => toks[c.tok].items[c.k].res \in Dashboards
  /\ c.pc = "b_item" => c.k >= 1
  /\ c.pc = "b_undo" => c.k <= Len(toks[c.tok].items)
  /\ c.pc \in {"b_item", "b_lock"} => Len(c.baks) = c.k - 1
  /\ c.pc \in {"b_write", "b_wait"} => Len(c.baks) = c.k
  /\ c.pc \in {"b_undo", "b_uwait"} => Len(c.baks) >= c.k
  /\ \A j \in DOMAIN c.baks : c.baks[j] <= Len(baks)
  /\ c.pc \in {"rb_claim", "rb_undo", "rb_wait"} => c.txn \in DOMAIN xs
  /\ c.pc \in {"rb_undo", "rb_wait"} => c.k <= Len(xs[c.txn].saves)
  /\ c.pc = "rb_wait" => c.k >= 1

(* The tokens of the single-item tools carry one item, of their kind.      *)
SingleItem(tok) ==
  /\ tok.action \in {"config_apply", "dashboard_apply", "backup_revert"} =>
       Len(tok.items) = 1
  /\ tok.action = "dashboard_apply" => tok.items[1].res \in Dashboards

WellFormed ==
  /\ Len(tokens) <= MaxTokens
  /\ \A tk \in DOMAIN tokens : SingleItem(tokens[tk])
  /\ \A t \in Tasks : CallFits(task[t], tokens, txns, backups)

TypeInv == TypeOK /\ WellFormed

(* A claimed or reported token can never be claimed again.                 *)
SpentTokens ==
  /\ \A t \in Tasks :
       task[t].tok # 0 => /\ task[t].tok \in DOMAIN tokens
                          /\ tokens[task[t].tok].state = "spent"
  /\ \A i \in DOMAIN audit :
       /\ audit[i].tok \in DOMAIN tokens
       /\ tokens[audit[i].tok].state = "spent"

TokenInv == SpentTokens /\ TokenDrivesOneCall

(* A lock is held exactly by the call that waits for its save.             *)
LocksHeld ==
  \A t \in Tasks, r \in Dashboards : lock[r] = t => task[t].pc \in Holding

LockInv == LocksHeld /\ LockCoversSave

(* Calls that work on a transaction of their own, and calls that undo one  *)
(* of an earlier call.                                                     *)
Transacting == {"cfg_backup", "cfg_write", "cfg_commit", "dash_wait",
                "rv_write", "rv_commit", "rv_wait",
                "b_item", "b_write", "b_lock", "b_wait", "b_undo", "b_uwait"}

Restoring   == {"rb_undo", "rb_wait"}
RollingBack == Restoring \cup {"rb_claim"}

(* A call that changes something has its transaction open, under its own   *)
(* token, until it ends; one that undoes has found a committed one, and    *)
(* has marked every savepoint of it before it restores the first.          *)
CallMatches(t) ==
  LET x == task[t].txn
  IN  /\ task[t].pc \in {"idle", "rb_claim"} => task[t].tok = 0
      /\ task[t].pc \in Transacting => /\ x \in DOMAIN txns
                                       /\ txns[x].state = "open"
                                       /\ txns[x].tok = task[t].tok
      /\ task[t].pc \in RollingBack => x \in DOMAIN txns /\ txns[x].state = "committed"
      /\ task[t].pc \in Restoring => ActiveSavepoints(x) = {}

TransactionsMatch == \A t \in Tasks : CallMatches(t)

(* A transaction is that of one spent token, and of none whose call has    *)
(* not begun one; nothing in it is undone while it is open.                *)
TransactionsAreOwn ==
  /\ \A x \in DOMAIN txns :
       /\ txns[x].tok \in DOMAIN tokens
       /\ tokens[txns[x].tok].state = "spent"
       /\ txns[x].state = "open" => ActiveSavepoints(x) = DOMAIN txns[x].saves
  /\ \A x, y \in DOMAIN txns : txns[x].tok = txns[y].tok => x = y
  /\ \A t \in Tasks, x \in DOMAIN txns :
       task[t].pc \in Restoring \cup {"dash_lock"} => txns[x].tok # task[t].tok

UndoInv == TransactionsMatch /\ TransactionsAreOwn /\ RollbackOnce

-----------------------------------------------------------------------------
(* Calls that wait for Home Assistant, and calls that are about to write a *)
(* file; of the latter a revert alone does not look at what is there.      *)
Waiting   == {"dash_wait", "b_wait", "rb_wait", "rv_wait", "b_uwait"}
Rechecked == {"cfg_backup", "cfg_write", "b_write"}
AtFile    == Rechecked \cup {"rv_write"}
Batching  == {"b_item", "b_write", "b_lock", "b_wait", "b_undo", "b_uwait"}

TokensShaped ==
  \A tk \in DOMAIN tokens : \A k \in DOMAIN tokens[tk].items :
    LET it == tokens[tk].items[k]
    IN  /\ tokens[tk].action = "config_apply" => it.res \in Files
        /\ tokens[tk].action = "batch_apply" /\ it.create => it.old = Empty

(* From its recheck to its write a file handler keeps the event loop, and  *)
(* only people change the file meanwhile.  A batch works for the token of  *)
(* a batch, a dashboard call for its one item.                             *)
KeepsPlace(t) ==
  /\ task[t].pc \in AtFile => loop = t /\ Item(t).res \in Files
  /\ task[t].pc \in Rechecked /\ writer[Item(t).res] # "outside"
       => OrEmpty(content[Item(t).res]) = Item(t).old
  /\ task[t].pc \notin Waiting => task[t].reply = "none"
  /\ task[t].pc \in Batching => Token(t).action = "batch_apply"
  /\ task[t].pc = "b_item" => loop = t
  /\ task[t].pc = "dash_lock" => task[t].k = 1

RecheckHolds == \A t \in Tasks : KeepsPlace(t)

(* A save that somebody waits for is that of the one call that waits under *)
(* its token; if it was checked, or counts as an apply, the call holds the *)
(* lock of the dashboard.                                                  *)
AwaitedBy(e, t) ==
  /\ task[t].tok = e.tok /\ task[t].pc \in Waiting /\ task[t].reply = "none"
  /\ e.checked \/ (e.dir = "do" /\ tokens[e.tok].action # "backup_revert") =>
       /\ task[t].pc \in Holding
       /\ e.res = Item(t).res /\ e.k = task[t].k

SavesAwaited ==
  /\ \A e \in inflight : e.heard => \E t \in Tasks : AwaitedBy(e, t)
  /\ \A e, f \in inflight : e.heard /\ f.heard /\ e.tok = f.tok => e = f

SavesFresh ==
  \A e \in inflight :
    e.heard /\ e.checked /\ writer[e.res] = "apply"
      => content[e.res] = tokens[e.tok].items[e.k].old

ClobberInv == TokensShaped /\ RecheckHolds /\ SavesAwaited /\ SavesFresh

-----------------------------------------------------------------------------
(* Calls that are about to write, or wait for Home Assistant to write, what *)
(* their token says; with backup_on_write they have copied what is there.   *)
Applies == {"config_apply", "dashboard_apply", "batch_apply"}

AboutToWrite(c) == c.pc \in Saving \/ (c.pc \in Holding /\ c.reply = "none")

Covered(r, c) ==
  BackupOnWrite /\ c \notin {None, Absent} /\ ~(r \in Dashboards /\ c = Empty)
    => \E b \in DOMAIN backups : backups[b].res = r /\ backups[b].text = c

CopyTaken(c) ==
  LET r == tokens[c.tok].items[c.k].res
  IN  AboutToWrite(c) /\ c.tok \notin unsure => Covered(r, content[r])

(* Each handler runs under a token of its own tool.                        *)
OfKind(c) ==
  LET tok == tokens[c.tok]
  IN  /\ c.pc \in {"cfg_backup", "cfg_write", "cfg_commit"} => tok.action = "config_apply"
      /\ c.pc \in {"dash_lock", "dash_wait"} => tok.action = "dashboard_apply"
      /\ c.pc \in {"rv_write", "rv_commit", "rv_wait"} => tok.action = "backup_revert"
      /\ c.pc \in Restoring => tok.action = "rollback" /\ tok.txn = c.txn

WriteCovered(tk) ==
  tokens[tk].action \in Applies /\ tk \notin unsure =>
    \A k \in DOMAIN tokens[tk].items : Covered(tokens[tk].items[k].res, replaced[<<tk, k>>])

BackupInv ==
  /\ \A tk \in DOMAIN tokens :
       tokens[tk].action \in Applies => Len(tokens[tk].items) <= MaxItems
  /\ \A tk \in TokenIds \ DOMAIN tokens, k \in 1..MaxItems : replaced[<<tk, k>>] = None
  /\ \A t \in Tasks : OfKind(task[t]) /\ CopyTaken(task[t])
  /\ \A tk \in DOMAIN tokens : WriteCovered(tk)
-----------------------------------------------------------------------------
(* Going on with the items of a batch, and going back over them.           *)
Forward  == {"b_item", "b_write", "b_lock", "b_wait"}
Backward == {"b_undo", "b_uwait"}

(* The tokens of the tools that create nothing say so; a batch creates     *)
(* files; a rollback names a transaction that is not open, and shows every *)
(* target of it.                                                           *)
TokenFits(tk) ==
  LET tok == tokens[tk]
  IN  /\ \A k \in DOMAIN tok.items :
           tok.items[k].create => /\ tok.action \in {"batch_apply", "rollback"}
                                  /\ tok.action = "batch_apply" => tok.items[k].res \in Files
      /\ tok.action = "rollback" =>
           /\ tok.txn \in DOMAIN txns /\ txns[tok.txn].state # "open"
           /\ \A i \in DOMAIN txns[tok.txn].saves :
                txns[tok.txn].saves[i].res \in Targets(tk)

(* c is what the preview of item k found there.  A config apply takes a    *)
(* missing file for an empty one.                                          *)
AsFound(tk, k, c) ==
  LET it == tokens[tk].items[k]
  IN  \/ c = Absent /\ (it.create \/ tokens[tk].action = "config_apply")
      \/ c = it.old /\ ~it.create

(* A savepoint is what its item says of the content before, and once the   *)
(* transaction is committed that is what the item replaced.                *)
SavepointFits(x, i) ==
  LET tk == txns[x].tok
      sp == txns[x].saves[i]
      it == tokens[tk].items[sp.k]
  IN  /\ tokens[tk].action \in Applies \cup {"backup_revert"}
      /\ sp.k \in DOMAIN tokens[tk].items
      /\ sp.res = it.res /\ sp.content = it.old /\ sp.created = it.create
      /\ txns[x].state = "committed" /\ tk \notin unsure
           /\ tokens[tk].action # "backup_revert"
           => AsFound(tk, sp.k, replaced[<<tk, sp.k>>])

(* The call c has executed item j of its token; it has put the item or     *)
(* savepoint j back.                                                       *)
Done(c, j) ==
  \/ c.pc \in Forward /\ j \in 1..(c.k - 1)
  \/ c.pc \in Backward /\ j \in 1..c.n
  \/ j = c.k /\ (c.pc = "cfg_commit" \/ (c.pc \in Holding /\ c.reply = "ok"))

PutBack(c, j) ==
  /\ c.pc \in Backward \cup Restoring
  /\ \/ j \in (c.k + 1)..c.n
     \/ j = c.k /\ c.pc \in {"b_uwait", "rb_wait"} /\ c.reply = "ok"

(* What an item that is about to be written will replace, and what those   *)
(* already written replaced, is what the preview found.                    *)
FindsAsShown(c) ==
  c.tok \in DOMAIN tokens \ unsure =>
    /\ c.pc = "cfg_backup" \/ AboutToWrite(c)
         => AsFound(c.tok, c.k, content[tokens[c.tok].items[c.k].res])
    /\ \A j \in DOMAIN tokens[c.tok].items :
         Done(c, j) => AsFound(c.tok, j, replaced[<<c.tok, j>>])

(* A batch counts its items, knows the copies it made, and records what it *)
(* has executed.                                                           *)
CountsItems(c) ==
  c.pc \in Batching =>
    /\ Len(c.baks) <= Len(tokens[c.tok].items)
    /\ c.pc \in Backward => c.k <= c.n /\ c.n <= Len(c.baks)
    /\ \A j \in DOMAIN c.baks :
         c.baks[j] # 0 => backups[c.baks[j]].text = tokens[c.tok].items[j].old

RecordsDone(c) ==
  c.pc \in Forward =>
    \A i \in DOMAIN txns[c.txn].saves : txns[c.txn].saves[i].k \in 1..(c.k - 1)

(* On the way forward the last item executed on a target has left its text *)
(* there; on the way back the first one put back has brought back what it  *)
(* replaced.                                                               *)
LeavesTexts(c) ==
  LET items == tokens[c.tok].items
  IN  c.pc \in Forward /\ c.tok \notin unsure =>
        \A j \in DOMAIN items :
          /\ Done(c, j)
          /\ \A i \in DOMAIN items : Done(c, i) /\ items[i].res = items[j].res => i <= j
          => content[items[j].res] = Written(items[j].res, items[j].new)

BringsBack(c) ==
  LET items == tokens[c.tok].items
  IN  c.pc \in Backward /\ c.tok \notin unsure /\ ~c.dirty =>
        \A j \in DOMAIN items :
          /\ PutBack(c, j)
          /\ \A i \in DOMAIN items : PutBack(c, i) /\ items[i].res = items[j].res => j <= i
          => Same(items[j].res, content[items[j].res], replaced[<<c.tok, j>>])

(* So does a rollback, savepoint by savepoint, where RollbackRestores      *)
(* promises it.                                                            *)
Promised(x, i) ==
  /\ tokens[txns[x].tok].action # "backup_revert"
  /\ Before(x, i) # Absent \/ txns[x].saves[i].created

RestoresSaves(c) ==
  LET saves == txns[c.txn].saves
  IN  c.pc \in Restoring =>
        /\ c.n \in {0, Len(saves)} /\ c.k <= c.n
        /\ {c.tok, txns[c.txn].tok} \cap unsure = {} /\ ~c.dirty =>
             \A j \in DOMAIN saves :
               /\ PutBack(c, j) /\ Promised(c.txn, j)
               /\ \A i \in DOMAIN saves : PutBack(c, i) /\ saves[i].res = saves[j].res => j <= i
               => Same(saves[j].res, content[saves[j].res], Before(c.txn, j))

(* A save that the call c waits for is that of its item or savepoint.      *)
SaveFits(e, c) ==
  e.heard /\ e.tok = c.tok =>
    /\ c.pc \in Holding =>
         /\ e.dir = "do" /\ e.k = c.k
         /\ e.res = tokens[c.tok].items[c.k].res /\ e.new = tokens[c.tok].items[c.k].new
    /\ c.pc = "b_uwait" =>
         /\ e.dir = "undo"
         /\ e.res = tokens[c.tok].items[c.k].res /\ e.new = tokens[c.tok].items[c.k].old
    /\ c.pc = "rb_wait" =>
         /\ e.dir = "undo"
         /\ e.res = txns[c.txn].saves[c.k].res /\ e.new = txns[c.txn].saves[c.k].content

(* The call c can go on, or back, to what was promised.                    *)
Recovers(c) ==
  /\ FindsAsShown(c) /\ CountsItems(c) /\ RecordsDone(c)
  /\ LeavesTexts(c) /\ BringsBack(c) /\ RestoresSaves(c)

RecoveryInv ==
  /\ \A tk \in DOMAIN tokens : TokenFits(tk)
  /\ \A x \in DOMAIN txns : \A i \in DOMAIN txns[x].saves : SavepointFits(x, i)
  /\ \A t \in Tasks : Recovers(task[t])
  /\ \A e \in inflight, t \in Tasks : SaveFits(e, task[t])
=============================================================================
