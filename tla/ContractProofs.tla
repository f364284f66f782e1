--------------------------- MODULE ContractProofs ---------------------------
(***************************************************************************)
(* The pipeline keeps the contract of ChangeLedger, and two rollbacks of   *)
(* one transaction never both restore something.  Seen from the contract   *)
(* the dozens of operations are a dozen kinds of steps (LedgerStep): first *)
(* every step is shown to be one of them, then each kind is shown to keep  *)
(* UndoInv and to be a step of the contract, or none that it sees.         *)
(***************************************************************************)
EXTENDS MutationPipelineProofs

-----------------------------------------------------------------------------
(* What a step does to tokens, transactions, log and calls, whichever tool *)
(* takes it: the ledger of the contract sees no more.                      *)

(* A preview issues tk.                                                    *)
Issues(tk) ==
  /\ tk \in TokenIds \ DOMAIN tokens
  /\ DOMAIN tokens' = DOMAIN tokens \cup {tk}
  /\ tokens'[tk].state = "live"
  /\ \A i \in DOMAIN tokens : tokens'[i] = tokens[i]

Spends(tk) ==
  /\ tk \in DOMAIN tokens /\ tokens[tk].state = "live"
  /\ DOMAIN tokens' = DOMAIN tokens
  /\ tokens'[tk].state = "spent"
  /\ \A i \in DOMAIN tokens \ {tk} : tokens'[i] = tokens[i]

Reports(tk, ok) ==
  \E n :
    /\ n \notin DOMAIN audit /\ DOMAIN audit' = DOMAIN audit \cup {n}
    /\ audit'[n].tok = tk /\ audit'[n].ok = ok
    /\ \A i \in DOMAIN audit : audit'[i] = audit[i]

(* The call c becomes d and does the same kind of work on the same things. *)
GoesOn(c, d) ==
  /\ d.tok = c.tok /\ d.txn = c.txn
  /\ d.pc = c.pc \/ {c.pc, d.pc} \subseteq Transacting \/ {c.pc, d.pc} \subseteq Restoring
  /\ d.pc \in Restoring => d.n = c.n

OthersStay(t) == \A u \in Tasks \ {t} : task'[u] = task[u]

OtherTxnsStay(x) ==
  /\ DOMAIN txns' = DOMAIN txns \cup {x}
  /\ \A y \in DOMAIN txns \ {x} : txns'[y] = txns[y]

(* A transaction of t's token is opened, and t goes to work on it.         *)
Opens(t, tk) ==
  LET x == task'[t].txn
  IN  /\ task'[t].pc \in Transacting /\ task'[t].tok = tk
      /\ x \notin DOMAIN txns /\ OtherTxnsStay(x)
      /\ txns'[x].state = "open" /\ txns'[x].tok = tk
      /\ \A i \in DOMAIN txns'[x].saves : ~txns'[x].saves[i].undone

KeepsTables == UNCHANGED <<tokens, txns, audit>>

(* The kinds of steps.                                                     *)
Shows == (\E tk \in TokenIds : Issues(tk)) /\ UNCHANGED <<txns, audit, task>>

Works == KeepsTables /\ \A u \in Tasks : GoesOn(task[u], task'[u])

Enters(t) ==
  /\ KeepsTables /\ OthersStay(t)
  /\ task[t].pc = "idle" /\ task'[t].pc = "rb_claim" /\ task'[t].tok = 0
  /\ task'[t].txn \in DOMAIN txns /\ txns[task'[t].txn].state = "committed"

Quits(t) == KeepsTables /\ OthersStay(t) /\ task'[t] = Idle

Wastes(tk) ==
  /\ Spends(tk) /\ UNCHANGED <<txns, audit>>
  /\ \/ UNCHANGED task
     \/ \E t \in Tasks : task[t].pc = "rb_claim" /\ task'[t] = Idle /\ OthersStay(t)

Queues(t, tk) ==
  /\ Spends(tk) /\ UNCHANGED <<txns, audit>> /\ OthersStay(t)
  /\ task[t].pc = "idle" /\ task'[t].pc = "dash_lock" /\ task'[t].tok = tk

Begins(t, tk) ==
  Spends(tk) /\ UNCHANGED audit /\ OthersStay(t) /\ task[t].pc = "idle" /\ Opens(t, tk)

Locks(t) ==
  /\ UNCHANGED <<tokens, audit>> /\ OthersStay(t)
  /\ task[t].pc = "dash_lock" /\ Opens(t, task[t].tok)

Undoes(t, tk) ==
  LET x == task[t].txn
  IN  /\ Spends(tk) /\ UNCHANGED audit /\ OthersStay(t)
      /\ task[t].pc = "rb_claim"
      /\ task'[t].pc = "rb_undo" /\ task'[t].tok = tk /\ task'[t].txn = x
      /\ ActiveSavepoints(x) = {} => task'[t].n = 0
      /\ OtherTxnsStay(x)
      /\ txns'[x].state = txns[x].state /\ txns'[x].tok = txns[x].tok
      /\ DOMAIN txns'[x].saves = DOMAIN txns[x].saves
      /\ \A i \in DOMAIN txns[x].saves : txns'[x].saves[i].undone

Records(t) ==
  LET x == task[t].txn
  IN  /\ UNCHANGED <<tokens, audit>> /\ OthersStay(t)
      /\ task[t].pc \in Transacting /\ GoesOn(task[t], task'[t])
      /\ OtherTxnsStay(x)
      /\ txns'[x].state = txns[x].state /\ txns'[x].tok = txns[x].tok
      /\ ActiveSavepoints(x) = DOMAIN txns[x].saves =>
           \A i \in DOMAIN txns'[x].saves : ~txns'[x].saves[i].undone

Ends(t, ok) ==
  LET x == task[t].txn
  IN  /\ UNCHANGED tokens /\ OthersStay(t) /\ task'[t] = Idle
      /\ Reports(task[t].tok, ok) \/ UNCHANGED audit
      /\ \/ task[t].pc \in Restoring /\ UNCHANGED txns
         \/ /\ task[t].pc \in Transacting
            /\ OtherTxnsStay(x)
            /\ txns'[x].state = IF ok THEN "committed" ELSE "gone"
            /\ txns'[x].tok = txns[x].tok /\ txns'[x].saves = txns[x].saves

DoneAtOnce(tk) == Spends(tk) /\ Reports(tk, TRUE) /\ UNCHANGED <<txns, task>>

Forgets ==
  /\ DOMAIN tokens' = DOMAIN tokens
  /\ \A i \in DOMAIN tokens :
       tokens'[i].state = IF tokens[i].state = "live" THEN "gone" ELSE tokens[i].state
  /\ DOMAIN txns' = DOMAIN txns
  /\ \A x \in DOMAIN txns :
       /\ txns'[x].state = "gone" /\ txns'[x].tok = txns[x].tok
       /\ txns'[x].saves = txns[x].saves
  /\ \A t \in Tasks : task'[t] = Idle
  /\ UNCHANGED audit

LedgerStep ==
  \/ Shows \/ Works \/ Forgets
  \/ \E tk \in TokenIds : Wastes(tk) \/ DoneAtOnce(tk)
  \/ \E t \in Tasks : Enters(t) \/ Quits(t) \/ Locks(t) \/ Records(t)
  \/ \E t \in Tasks, tk \in TokenIds : Queues(t, tk) \/ Begins(t, tk) \/ Undoes(t, tk)
  \/ \E t \in Tasks, ok \in BOOLEAN : Ends(t, ok)

-----------------------------------------------------------------------------
(* Every step of the pipeline is of one of these kinds.                    *)

LEMMA IssueIs ==
  ASSUME TypeInv, NEW act, NEW items, NEW x, CreateToken(act, items, x)
  PROVE  \E tk \in TokenIds : Issues(tk)
<1> DEFINE new == [action |-> act, items |-> items, txn |-> x, state |-> "live"]
           S   == Tokens \cup {new}
           n   == Len(tokens) + 1
<1>1. /\ tokens \in [1..Len(tokens) -> Tokens] /\ Len(tokens) \in Nat
      /\ DOMAIN tokens = 1..Len(tokens)
  BY SeqIsFun DEF TypeInv, TypeOK
<1>2. tokens \in Seq(S)
  <2>1. tokens \in [1..Len(tokens) -> S]
    BY <1>1
  <2> HIDE DEF S
  <2> QED
    BY <1>1, <2>1, FunIsSeq
<1>3. tokens' = Append(tokens, new) /\ new \in S /\ new.state = "live"
  BY DEF CreateToken
<1>4. n \in TokenIds /\ n \notin DOMAIN tokens
  BY <1>1, ContextAssumption DEF CreateToken, TokenIds
<1> HIDE DEF S, new
<1>5. /\ DOMAIN tokens' = DOMAIN tokens \cup {n} /\ tokens'[n] = new
      /\ \A i \in DOMAIN tokens : tokens'[i] = tokens[i]
  BY <1>1, <1>2, <1>3, SeqAppend
<1> HIDE DEF n
<1> QED
  BY <1>3, <1>4, <1>5 DEF Issues

LEMMA ClaimIs ==
  ASSUME TypeInv, NEW tk, ClaimToken(tk)
  PROVE  Spends(tk) /\ tk \in TokenIds
<1>1. tokens' = [tokens EXCEPT ![tk] = [tokens[tk] EXCEPT !.state = "spent"]]
      /\ tk \in DOMAIN tokens /\ tokens[tk].state = "live"
  BY DEF ClaimToken, Live
<1>2. tokens[tk] \in Tokens /\ tk \in TokenIds
  BY <1>1, SeqIsFun, ClaimFacts
<1> QED
  BY <1>1, <1>2 DEF Spends, Tokens

LEMMA LogIs ==
  ASSUME TypeInv, NEW tk, NEW ok, NEW dirty, LogOperation(tk, ok, dirty)
  PROVE  Reports(tk, ok) \/ UNCHANGED audit
<1>0. SUFFICES ASSUME audit' = Append(audit, [tok |-> tk, ok |-> ok, dirty |-> dirty])
               PROVE  Reports(tk, ok)
  BY DEF LogOperation
<1> DEFINE e == [tok |-> tk, ok |-> ok, dirty |-> dirty]
           S == AuditEntries \cup {e}
           n == Len(audit) + 1
<1>1. /\ audit \in [1..Len(audit) -> AuditEntries] /\ Len(audit) \in Nat
      /\ DOMAIN audit = 1..Len(audit)
  BY SeqIsFun DEF TypeInv, TypeOK
<1>2. audit \in Seq(S)
  <2>1. audit \in [1..Len(audit) -> S]
    BY <1>1
  <2> HIDE DEF S
  <2> QED
    BY <1>1, <2>1, FunIsSeq
<1>3. audit' = Append(audit, e) /\ e \in S /\ e.tok = tk /\ e.ok = ok
  BY <1>0
<1> HIDE DEF S, e
<1>4. /\ DOMAIN audit' = DOMAIN audit \cup {n} /\ n \notin DOMAIN audit /\ audit'[n] = e
      /\ \A i \in DOMAIN audit : audit'[i] = audit[i]
  BY <1>1, <1>2, <1>3, SeqAppend
<1> HIDE DEF n
<1> QED
  BY <1>3, <1>4 DEF Reports

(* A transaction begins with nothing undone.                               *)
LEMMA BeginIs ==
  ASSUME TypeInv, NEW tk, NEW saves, Begin(tk, saves),
         \A i \in DOMAIN saves : ~saves[i].undone
  PROVE  LET x == Len(txns) + 1
         IN  /\ x \notin DOMAIN txns /\ OtherTxnsStay(x)
             /\ txns'[x].state = "open" /\ txns'[x].tok = tk
             /\ \A i \in DOMAIN txns'[x].saves : ~txns'[x].saves[i].undone
<1> DEFINE e == [state |-> "open", tok |-> tk, saves |-> saves]
           S == Txns \cup {e}
           x == Len(txns) + 1
<1>1. /\ txns \in [1..Len(txns) -> Txns] /\ Len(txns) \in Nat
      /\ DOMAIN txns = 1..Len(txns)
  BY SeqIsFun DEF TypeInv, TypeOK
<1>2. txns \in Seq(S)
  <2>1. txns \in [1..Len(txns) -> S]
    BY <1>1
  <2> HIDE DEF S
  <2> QED
    BY <1>1, <2>1, FunIsSeq
<1>3. /\ txns' = Append(txns, e) /\ e \in S
      /\ e.state = "open" /\ e.tok = tk /\ e.saves = saves
  BY DEF Begin
<1> HIDE DEF S, e
<1>4. /\ DOMAIN txns' = DOMAIN txns \cup {x} /\ x \notin DOMAIN txns /\ txns'[x] = e
      /\ \A i \in DOMAIN txns : txns'[i] = txns[i]
  BY <1>1, <1>2, <1>3, SeqAppend
<1> HIDE DEF x
<1>5. /\ x \notin DOMAIN txns /\ OtherTxnsStay(x)
      /\ txns'[x].state = "open" /\ txns'[x].tok = tk
      /\ \A i \in DOMAIN txns'[x].saves : ~txns'[x].saves[i].undone
  BY <1>3, <1>4 DEF OtherTxnsStay
<1> QED
  BY <1>5 DEF x

LEMMA CallIs ==
  ASSUME TypeInv, NEW t \in Tasks, NEW c, task' = [task EXCEPT ![t] = c]
  PROVE  OthersStay(t) /\ task'[t] = c
BY DEF TypeInv, TypeOK, OthersStay

LEMMA TxnIs ==
  ASSUME TypeInv, NEW x \in DOMAIN txns, NEW v, txns' = [txns EXCEPT ![x] = v]
  PROVE  OtherTxnsStay(x) /\ txns'[x] = v
BY DEF TypeInv, TypeOK, OtherTxnsStay

LEMMA StaysSame ==
  ASSUME NEW c PROVE GoesOn(c, c)
BY DEF GoesOn

(* A call goes on, and nothing else happens.                               *)
LEMMA WorkIs ==
  ASSUME TypeInv, KeepsTables, NEW t \in Tasks, NEW c,
         task' = [task EXCEPT ![t] = c], GoesOn(task[t], c)
  PROVE  LedgerStep
<1>1. \A u \in Tasks : GoesOn(task[u], task'[u])
  BY CallIs, StaysSame DEF OthersStay
<1> QED
  BY <1>1 DEF LedgerStep, Works

LEMMA QuitIs ==
  ASSUME TypeInv, KeepsTables, NEW t \in Tasks, task' = [task EXCEPT ![t] = Idle]
  PROVE  LedgerStep
BY CallIs DEF LedgerStep, Quits

(* A call that has a transaction commits and reports, or drops it and      *)
(* reports its failure.                                                    *)
LEMMA EndIs ==
  ASSUME TypeInv, UndoInv, UNCHANGED tokens, NEW t \in Tasks, Finish(t),
         task[t].pc \in Transacting, NEW ok \in BOOLEAN, NEW dirty,
         LogOperation(task[t].tok, ok, dirty),
         IF ok THEN Commit(task[t].txn) ELSE Discard(task[t].txn)
  PROVE  LedgerStep
<1> DEFINE x == task[t].txn
           s == IF ok THEN "committed" ELSE "gone"
           v == [txns[x] EXCEPT !.state = s]
<1>1. x \in DOMAIN txns
  BY DEF UndoInv, TransactionsMatch, CallMatches
<1>2. txns[x] \in Txns
  BY <1>1, SeqIsFun DEF TypeInv, TypeOK
<1>3. txns' = [txns EXCEPT ![x] = v]
  BY DEF Commit, Discard
<1>4. v.state = s /\ v.tok = txns[x].tok /\ v.saves = txns[x].saves
  <2> HIDE DEF s
  <2> QED
    BY <1>2 DEF Txns
<1>5. OtherTxnsStay(x) /\ txns'[x] = v
  <2> HIDE DEF v, x
  <2> QED
    BY <1>1, <1>3, TxnIs
<1>6. OthersStay(t) /\ task'[t] = Idle
  BY CallIs DEF Finish
<1>7. Reports(task[t].tok, ok) \/ UNCHANGED audit
  BY LogIs
<1>8. Ends(t, ok)
  <2> HIDE DEF v
  <2> QED
    BY <1>4, <1>5, <1>6, <1>7 DEF Ends
<1> QED
  BY <1>8 DEF LedgerStep

(* A call that begins with a transaction of its own.                       *)
LEMMA StartIs ==
  ASSUME TypeInv, NEW t \in Tasks, NEW tk, ClaimToken(tk), UNCHANGED audit, task[t].pc = "idle",
         NEW saves, Begin(tk, saves), \A i \in DOMAIN saves : ~saves[i].undone,
         NEW c, task' = [task EXCEPT ![t] = c],
         c.pc \in Transacting, c.tok = tk, c.txn = Len(txns) + 1
  PROVE  LedgerStep
<1>1. Spends(tk) /\ tk \in TokenIds
  BY ClaimIs
<1>2. OthersStay(t) /\ task'[t] = c
  BY CallIs
<1>3. Opens(t, tk)
  BY <1>2, BeginIs DEF Opens
<1> QED
  BY <1>1, <1>2, <1>3 DEF LedgerStep, Begins

(* A token is spent for nothing.                                           *)
LEMMA WasteIs ==
  ASSUME TypeInv, NEW tk, ClaimToken(tk), UNCHANGED <<txns, audit>>,
         \/ UNCHANGED task
         \/ \E t \in Tasks : task[t].pc = "rb_claim" /\ task' = [task EXCEPT ![t] = Idle]
  PROVE  LedgerStep
<1>1. Spends(tk) /\ tk \in TokenIds
  BY ClaimIs
<1>2. \A t \in Tasks : task' = [task EXCEPT ![t] = Idle] => task'[t] = Idle /\ OthersStay(t)
  BY CallIs
<1>3. Wastes(tk)
  BY <1>1, <1>2 DEF Wastes
<1> QED
  BY <1>1, <1>3 DEF LedgerStep

LEMMA OneUndo ==
  ASSUME NEW r, NEW c, NEW created, NEW k
  PROVE  \A i \in DOMAIN <<Savepoint(r, c, created, k)>> : ~<<Savepoint(r, c, created, k)>>[i].undone
<1> DEFINE sp == Savepoint(r, c, created, k)
<1>1. ~sp.undone
  BY DEF Savepoint
<1> HIDE DEF sp
<1>2. \A i \in DOMAIN <<sp>> : ~<<sp>>[i].undone
  BY <1>1
<1> QED
  BY <1>2 DEF sp

LEMMA ConfigKind ==
  ASSUME TypeInv, UndoInv, NEW t \in Tasks,
         ConfigStep(t) \/ \E tk \in DOMAIN tokens : ConfigApply(t, tk)
  PROVE  LedgerStep
<1>0. task[t] \in Calls
  BY CallFacts
<1>1. ASSUME NEW tk \in DOMAIN tokens, ConfigApply(t, tk)
      PROVE  LedgerStep
  <2> DEFINE c  == [Idle EXCEPT !.pc = "cfg_backup", !.tok = tk, !.txn = Len(txns) + 1, !.k = 1]
             it == tokens[tk].items[1]
  <2>1. ClaimToken(tk) /\ UNCHANGED audit /\ task[t].pc = "idle"
    BY <1>1 DEF ConfigApply, MayStart, durable
  <2>2. c.pc \in Transacting /\ c.tok = tk /\ c.txn = Len(txns) + 1
    BY DEF Idle, Transacting
  <2>3. CASE UNCHANGED <<txns, loop, task>>
    BY <2>1, <2>3, WasteIs
  <2>4. CASE /\ Begin(tk, <<Savepoint(it.res, it.old, FALSE, 1)>>)
             /\ task' = [task EXCEPT ![t] = c]
    <3> HIDE DEF c
    <3> QED
      BY <2>1, <2>2, <2>4, OneUndo, StartIs
  <2> QED
    BY <1>1, <2>3, <2>4 DEF ConfigApply
<1>2. CASE ConfigBackup(t) \/ ConfigWrite(t)
  <2>1. PICK pc \in {"cfg_write", "cfg_commit"} : task' = [task EXCEPT ![t].pc = pc]
    BY <1>2 DEF ConfigBackup, ConfigWrite
  <2> DEFINE c == [task[t] EXCEPT !.pc = pc]
  <2>2. c.tok = task[t].tok /\ c.txn = task[t].txn /\ c.n = task[t].n /\ c.pc = pc
    BY <1>0 DEF Calls
  <2>3. GoesOn(task[t], c)
    BY <1>2, <2>2 DEF GoesOn, ConfigBackup, ConfigWrite, At, Transacting, Restoring
  <2>4. KeepsTables /\ task' = [task EXCEPT ![t] = c]
    BY <1>2, <2>1 DEF ConfigBackup, ConfigWrite, KeepsTables, memory, durable
  <2> HIDE DEF c
  <2> QED
    BY <2>3, <2>4, WorkIs
<1>3. CASE ConfigWriteFails(t)
  BY <1>3, QuitIs DEF ConfigWriteFails, Finish, KeepsTables, memory, durable
<1>4. CASE ConfigCommit(t)
  BY <1>4, EndIs DEF ConfigCommit, At, Transacting
<1> QED
  BY <1>1, <1>2, <1>3, <1>4 DEF ConfigStep

LEMMA DashboardKind ==
  ASSUME TypeInv, UndoInv, NEW t \in Tasks,
         DashboardStep(t) \/ \E tk \in DOMAIN tokens : DashboardApply(t, tk)
  PROVE  LedgerStep
<1>0. task[t] \in Calls
  BY CallFacts
<1>1. ASSUME NEW tk \in DOMAIN tokens, DashboardApply(t, tk)
      PROVE  LedgerStep
  <2> DEFINE c == [Idle EXCEPT !.pc = "dash_lock", !.tok = tk, !.k = 1]
  <2>1. ClaimToken(tk) /\ UNCHANGED <<txns, audit>> /\ task[t].pc = "idle"
    BY <1>1 DEF DashboardApply, MayStart, durable
  <2>2. c.pc = "dash_lock" /\ c.tok = tk
    BY DEF Idle
  <2>3. CASE UNCHANGED task
    BY <2>1, <2>3, WasteIs
  <2>4. CASE task' = [task EXCEPT ![t] = c]
    <3> HIDE DEF c
    <3>1. OthersStay(t) /\ task'[t] = c /\ Spends(tk) /\ tk \in TokenIds
      BY <2>1, <2>4, CallIs, ClaimIs
    <3> QED
      BY <2>1, <2>2, <3>1 DEF LedgerStep, Queues
  <2> QED
    BY <1>1, <2>3, <2>4 DEF DashboardApply
<1>2. CASE DashboardRecheck(t)
  <2> DEFINE c  == [task[t] EXCEPT !.pc = "dash_wait", !.txn = Len(txns) + 1]
             it == Item(t)
             tk == task[t].tok
  <2>1. /\ UNCHANGED <<tokens, audit>> /\ task[t].pc = "dash_lock"
        /\ task' = [task EXCEPT ![t] = c]
        /\ Begin(tk, <<Savepoint(it.res, it.old, FALSE, 1)>>)
    BY <1>2 DEF DashboardRecheck, At
  <2>2. c.pc \in Transacting /\ c.tok = tk /\ c.txn = Len(txns) + 1
    BY <1>0 DEF Calls, Transacting
  <2> HIDE DEF c
  <2>3. OthersStay(t) /\ task'[t] = c
    BY <2>1, CallIs
  <2>4. Opens(t, tk)
    <3> DEFINE saves == <<Savepoint(it.res, it.old, FALSE, 1)>>
    <3>1. Begin(tk, saves) /\ \A i \in DOMAIN saves : ~saves[i].undone
      BY <2>1, OneUndo
    <3> HIDE DEF saves, tk
    <3> QED
      BY <2>2, <2>3, <3>1, BeginIs DEF Opens
  <2> QED
    BY <2>1, <2>3, <2>4 DEF LedgerStep, Locks
<1>3. CASE DashboardRefuse(t) \/ DashboardSaveFails(t)
  BY <1>3, QuitIs DEF DashboardRefuse, DashboardSaveFails, Finish, KeepsTables, memory, durable
<1>4. CASE DashboardSaved(t)
  BY <1>4, EndIs DEF DashboardSaved, At, Transacting
<1> QED
  BY <1>1, <1>2, <1>3, <1>4 DEF DashboardStep

LEMMA RevertKind ==
  ASSUME TypeInv, UndoInv, NEW t \in Tasks,
         \/ RevertStep(t)
         \/ \E tk \in DOMAIN tokens, b \in DOMAIN backups :
               RevertConfirm(t, tk, b) \/ RevertMismatch(t, tk, b)
  PROVE  LedgerStep
<1>0. task[t] \in Calls
  BY CallFacts
<1>1. ASSUME NEW tk \in DOMAIN tokens, NEW b, RevertConfirm(t, tk, b)
      PROVE  LedgerStep
  <2> DEFINE it    == tokens[tk].items[1]
             saves == <<Savepoint(it.res, it.old, FALSE, 1)>>
  <2>1. /\ ClaimToken(tk) /\ UNCHANGED audit /\ task[t].pc = "idle"
        /\ Begin(tk, saves) /\ \A i \in DOMAIN saves : ~saves[i].undone
    BY <1>1, OneUndo DEF RevertConfirm, MayStart, durable
  <2>2. PICK pc \in {"rv_write", "rv_wait"} :
          task' = [task EXCEPT ![t] = [Idle EXCEPT !.pc = pc, !.tok = tk, !.txn = Len(txns) + 1, !.k = 1]]
    BY <1>1 DEF RevertConfirm
  <2> DEFINE c == [Idle EXCEPT !.pc = pc, !.tok = tk, !.txn = Len(txns) + 1, !.k = 1]
  <2>3. c.pc \in Transacting /\ c.tok = tk /\ c.txn = Len(txns) + 1
    BY DEF Idle, Transacting
  <2>4. task' = [task EXCEPT ![t] = c]
    BY <2>2
  <2> HIDE DEF c, saves
  <2> QED
    BY <2>1, <2>3, <2>4, StartIs
<1>2. ASSUME NEW tk \in DOMAIN tokens, NEW b, RevertMismatch(t, tk, b)
      PROVE  LedgerStep
  BY <1>2, WasteIs DEF RevertMismatch, durable, sched
<1>3. CASE RevertWrite(t)
  <2> DEFINE c == [task[t] EXCEPT !.pc = "rv_commit"]
  <2>1. c.tok = task[t].tok /\ c.txn = task[t].txn /\ c.n = task[t].n /\ c.pc = "rv_commit"
    BY <1>0 DEF Calls
  <2>2. GoesOn(task[t], c)
    BY <1>3, <2>1 DEF GoesOn, RevertWrite, At, Transacting, Restoring
  <2>3. KeepsTables /\ task' = [task EXCEPT ![t] = c]
    BY <1>3 DEF RevertWrite, KeepsTables, memory, durable
  <2> HIDE DEF c
  <2> QED
    BY <2>2, <2>3, WorkIs
<1>4. CASE RevertFails(t)
  BY <1>4, QuitIs DEF RevertFails, Finish, KeepsTables, memory, durable
<1>5. CASE RevertCommit(t)
  BY <1>5, EndIs DEF RevertCommit, At, Transacting
<1> QED
  BY <1>1, <1>2, <1>3, <1>4, <1>5 DEF RevertStep

LEMMA RollbackKind ==
  ASSUME TypeInv, UndoInv, NEW t \in Tasks,
         RollbackStep(t) \/ \E x \in DOMAIN txns : RollbackEnter(t, x)
  PROVE  LedgerStep
<1>0. task[t] \in Calls
  BY CallFacts
<1>1. ASSUME NEW x \in DOMAIN txns, RollbackEnter(t, x)
      PROVE  LedgerStep
  <2> DEFINE c == [Idle EXCEPT !.pc = "rb_claim", !.txn = x]
  <2>1. KeepsTables /\ task[t].pc = "idle" /\ task' = [task EXCEPT ![t] = c]
        /\ txns[x].state = "committed"
    BY <1>1 DEF RollbackEnter, MayStart, CanRollBack, KeepsTables, memory, durable
  <2>2. c.pc = "rb_claim" /\ c.tok = 0 /\ c.txn = x
    BY DEF Idle
  <2> HIDE DEF c
  <2>3. OthersStay(t) /\ task'[t] = c
    BY <2>1, CallIs
  <2> QED
    BY <2>1, <2>2, <2>3 DEF LedgerStep, Enters
<1>2. ASSUME NEW tk \in DOMAIN tokens, RollbackClaim(t, tk)
      PROVE  LedgerStep
  <2> DEFINE x == task[t].txn
             n == IF ActiveSavepoints(x) = {} THEN 0 ELSE Len(txns[x].saves)
             c == [task[t] EXCEPT !.pc = "rb_undo", !.tok = tk, !.k = n, !.n = n]
             old == txns[x].saves
             new == [i \in DOMAIN old |-> [old[i] EXCEPT !.undone = TRUE]]
             v   == [txns[x] EXCEPT !.saves = new]
  <2>1. /\ ClaimToken(tk) /\ UNCHANGED audit /\ task' = [task EXCEPT ![t] = c]
        /\ task[t].pc = "rb_claim" /\ txns' = [txns EXCEPT ![x] = v]
    BY <1>2 DEF RollbackClaim, At, RollbackTransaction, durable
  <2>2. x \in DOMAIN txns
    BY <2>1 DEF UndoInv, TransactionsMatch, CallMatches, RollingBack
  <2>3. txns[x] \in Txns
    BY <2>2, SeqIsFun DEF TypeInv, TypeOK
  <2>4. \A i \in DOMAIN old : old[i] \in Savepoints
    BY <2>3, SeqIsFun DEF Txns
  <2>5. DOMAIN new = DOMAIN old /\ \A i \in DOMAIN old : new[i].undone
    BY <2>4 DEF Savepoints
  <2>6. v.state = txns[x].state /\ v.tok = txns[x].tok /\ v.saves = new
    <3> HIDE DEF new
    <3> QED
      BY <2>3 DEF Txns
  <2>7. /\ c.pc = "rb_undo" /\ c.tok = tk /\ c.txn = x
        /\ ActiveSavepoints(x) = {} => c.n = 0
    <3>1. c.pc = "rb_undo" /\ c.tok = tk /\ c.txn = x /\ c.n = n
      <4> HIDE DEF n
      <4> QED
        BY <1>0 DEF Calls
    <3> QED
      BY <3>1
  <2> HIDE DEF c, v, n
  <2>8. OthersStay(t) /\ task'[t] = c /\ Spends(tk) /\ tk \in TokenIds
    BY <2>1, CallIs, ClaimIs
  <2>9. OtherTxnsStay(x) /\ txns'[x] = v
    <3> HIDE DEF x
    <3> QED
      BY <2>1, <2>2, TxnIs
  <2>10. Undoes(t, tk)
    <3> HIDE DEF new
    <3> QED
      BY <2>1, <2>5, <2>6, <2>7, <2>8, <2>9 DEF Undoes
  <2> QED
    BY <2>8, <2>10 DEF LedgerStep
<1>3. ASSUME NEW tk \in DOMAIN tokens, RollbackMismatch(t, tk)
      PROVE  LedgerStep
  <2>1. /\ ClaimToken(tk) /\ UNCHANGED <<txns, audit>> /\ task[t].pc = "rb_claim"
        /\ task' = [task EXCEPT ![t] = Idle]
    BY <1>3 DEF RollbackMismatch, Finish, At, durable
  <2> QED
    BY <2>1, WasteIs
<1>4. CASE RollbackRefuse(t) \/ RollbackCrashes(t)
  BY <1>4, QuitIs DEF RollbackRefuse, RollbackCrashes, Finish, KeepsTables, memory, durable
<1>5. CASE RollbackFile(t) \/ RollbackFileFails(t)
  <2>1. PICK d \in BOOLEAN : task' = [task EXCEPT ![t].k = @ - 1, ![t].dirty = d]
    <3>1. CASE RollbackFile(t)
      <4>1. task[t].dirty \in BOOLEAN
        BY <1>0 DEF Calls
      <4>2. [task[t] EXCEPT !.k = @ - 1] = [task[t] EXCEPT !.k = @ - 1, !.dirty = task[t].dirty]
        BY <1>0 DEF Calls
      <4>3. task' = [task EXCEPT ![t] = [task[t] EXCEPT !.k = @ - 1]]
        BY <3>1 DEF RollbackFile
      <4> QED
        BY <4>1, <4>2, <4>3
    <3>2. CASE RollbackFileFails(t)
      BY <3>2 DEF RollbackFileFails
    <3> QED
      BY <1>5, <3>1, <3>2
  <2> DEFINE c == [task[t] EXCEPT !.k = @ - 1, !.dirty = d]
  <2>2. c.tok = task[t].tok /\ c.txn = task[t].txn /\ c.n = task[t].n /\ c.pc = task[t].pc
    BY <1>0 DEF Calls
  <2>3. GoesOn(task[t], c)
    <3> HIDE DEF c
    <3> QED
      BY <2>2 DEF GoesOn
  <2>4. KeepsTables /\ task' = [task EXCEPT ![t] = c]
    BY <1>5, <2>1 DEF RollbackFile, RollbackFileFails, KeepsTables, memory, durable
  <2> HIDE DEF c
  <2> QED
    BY <2>3, <2>4, WorkIs
<1>6. CASE RollbackDashboard(t)
  <2> DEFINE c == [task[t] EXCEPT !.pc = "rb_wait"]
  <2>1. c.tok = task[t].tok /\ c.txn = task[t].txn /\ c.n = task[t].n /\ c.pc = "rb_wait"
    BY <1>0 DEF Calls
  <2>2. GoesOn(task[t], c)
    BY <1>6, <2>1 DEF GoesOn, RollbackDashboard, At, Transacting, Restoring
  <2>3. KeepsTables /\ task' = [task EXCEPT ![t] = c]
    BY <1>6 DEF RollbackDashboard, KeepsTables, memory, durable
  <2> HIDE DEF c
  <2> QED
    BY <2>2, <2>3, WorkIs
<1>7. CASE RollbackAnswered(t)
  <2> DEFINE failed == task[t].dirty \/ task[t].reply = "err"
             c == [task[t] EXCEPT !.pc = "rb_undo", !.k = @ - 1, !.reply = "none",
                                  !.dirty = failed]
  <2>1. c.tok = task[t].tok /\ c.txn = task[t].txn /\ c.n = task[t].n /\ c.pc = "rb_undo"
    <3> HIDE DEF failed
    <3> QED
      BY <1>0 DEF Calls
  <2>2. GoesOn(task[t], c)
    <3> HIDE DEF c
    <3> QED
      BY <1>7, <2>1 DEF GoesOn, RollbackAnswered, At, Transacting, Restoring
  <2>3. KeepsTables /\ task' = [task EXCEPT ![t] = c]
    BY <1>7 DEF RollbackAnswered, KeepsTables, memory, durable
  <2> HIDE DEF c
  <2> QED
    BY <2>2, <2>3, WorkIs
<1>8. CASE RollbackEnd(t)
  <2>1. PICK ok \in BOOLEAN : ok = ~task[t].dirty
    BY <1>0 DEF Calls
  <2>2. /\ task[t].pc \in Restoring /\ UNCHANGED <<tokens, txns>>
        /\ task' = [task EXCEPT ![t] = Idle]
        /\ LogOperation(task[t].tok, ok, task[t].dirty)
    BY <1>8, <2>1 DEF RollbackEnd, At, Finish, Restoring, memory
  <2>3. Ends(t, ok)
    BY <2>2, LogIs, CallIs DEF Ends
  <2> QED
    BY <2>3 DEF LedgerStep
<1> QED
  BY <1>1, <1>2, <1>3, <1>4, <1>5, <1>6, <1>7, <1>8 DEF RollbackStep

(* A batch goes on at another point of its work.                           *)
LEMMA BatchGoesOn ==
  ASSUME TypeInv, KeepsTables, NEW t \in Tasks, task[t].pc \in Transacting,
         NEW c, task' = [task EXCEPT ![t] = c],
         c.tok = task[t].tok, c.txn = task[t].txn, c.pc \in Transacting
  PROVE  LedgerStep
<1>1. GoesOn(task[t], c)
  BY DEF GoesOn, Transacting, Restoring
<1> QED
  BY <1>1, WorkIs

(* A batch records what it has executed.                                   *)
LEMMA RecordIs ==
  ASSUME TypeInv, UndoInv, UNCHANGED <<tokens, audit>>, NEW t \in Tasks, task[t].pc \in Transacting,
         NEW r, NEW o, NEW created, NEW k, AddSavepoint(task[t].txn, Savepoint(r, o, created, k)),
         NEW c, task' = [task EXCEPT ![t] = c],
         c.tok = task[t].tok, c.txn = task[t].txn, c.pc \in Transacting
  PROVE  LedgerStep
<1> DEFINE x   == task[t].txn
           sp  == Savepoint(r, o, created, k)
           old == txns[x].saves
           new == Append(old, sp)
           v   == [txns[x] EXCEPT !.saves = new]
           S   == Savepoints \cup {sp}
<1>1. x \in DOMAIN txns
  BY DEF UndoInv, TransactionsMatch, CallMatches
<1>2. txns[x] \in Txns
  BY <1>1, SeqIsFun DEF TypeInv, TypeOK
<1>3. txns' = [txns EXCEPT ![x] = v]
  BY DEF AddSavepoint
<1>4. v.state = txns[x].state /\ v.tok = txns[x].tok /\ v.saves = new
  <2> HIDE DEF new
  <2> QED
    BY <1>2 DEF Txns
<1>5. ~sp.undone
  BY DEF Savepoint
<1>6. old \in [1..Len(old) -> Savepoints] /\ Len(old) \in Nat /\ DOMAIN old = 1..Len(old)
  BY <1>2, SeqIsFun DEF Txns
<1>7. old \in Seq(S) /\ sp \in S
  <2>1. old \in [1..Len(old) -> S]
    BY <1>6
  <2> HIDE DEF S, old, sp
  <2> QED
    BY <1>6, <2>1, FunIsSeq DEF S
<1>8. ActiveSavepoints(x) = DOMAIN old => \A i \in DOMAIN new : ~new[i].undone
  <2>1. /\ DOMAIN new = DOMAIN old \cup {Len(old) + 1} /\ new[Len(old) + 1] = sp
        /\ \A i \in DOMAIN old : new[i] = old[i]
    <3> HIDE DEF S, old, sp
    <3> QED
      BY <1>7, SeqAppend
  <2>2. ActiveSavepoints(x) = DOMAIN old => \A i \in DOMAIN old : ~old[i].undone
    BY DEF ActiveSavepoints
  <2> HIDE DEF new, old, sp
  <2> QED
    BY <1>5, <2>1, <2>2
<1> HIDE DEF v, sp, new
<1>9. OtherTxnsStay(x) /\ txns'[x] = v
  <2> HIDE DEF x
  <2> QED
    BY <1>1, <1>3, TxnIs
<1>10. OthersStay(t) /\ task'[t] = c
  BY CallIs
<1>11. GoesOn(task[t], c)
  BY DEF GoesOn, Transacting, Restoring
<1>12. Records(t)
  BY <1>4, <1>8, <1>9, <1>10, <1>11 DEF Records
<1> QED
  BY <1>12 DEF LedgerStep

LEMMA BatchKind ==
  ASSUME TypeInv, UndoInv, NEW t \in Tasks,
         BatchStep(t) \/ \E tk \in DOMAIN tokens : BatchApply(t, tk)
  PROVE  LedgerStep
<1>0. task[t] \in Calls
  BY CallFacts
<1>1. ASSUME NEW tk \in DOMAIN tokens, BatchApply(t, tk)
      PROVE  LedgerStep
  <2> DEFINE c == [Idle EXCEPT !.pc = "b_item", !.tok = tk, !.txn = Len(txns) + 1, !.k = 1]
  <2>1. ClaimToken(tk) /\ UNCHANGED audit /\ task[t].pc = "idle"
    BY <1>1 DEF BatchApply, MayStart, durable
  <2>2. c.pc \in Transacting /\ c.tok = tk /\ c.txn = Len(txns) + 1
    BY DEF Idle, Transacting
  <2>3. CASE UNCHANGED <<txns, loop, task>>
    BY <2>1, <2>3, WasteIs
  <2>4. CASE Begin(tk, <<>>) /\ task' = [task EXCEPT ![t] = c]
    <3>1. \A i \in DOMAIN <<>> : ~<<>>[i].undone
      OBVIOUS
    <3> HIDE DEF c
    <3> QED
      BY <2>1, <2>2, <2>4, <3>1, StartIs
  <2> QED
    BY <1>1, <2>3, <2>4 DEF BatchApply
<1>2. CASE BatchFile(t)
  <2>1. PICK b : task' = [task EXCEPT ![t].pc = "b_write", ![t].baks = Append(@, b)]
    BY <1>2 DEF BatchFile
  <2> DEFINE bs == Append(task[t].baks, b)
             c  == [task[t] EXCEPT !.pc = "b_write", !.baks = bs]
  <2>2. c.tok = task[t].tok /\ c.txn = task[t].txn /\ c.pc = "b_write"
    <3> HIDE DEF bs
    <3> QED
      BY <1>0 DEF Calls
  <2>3. KeepsTables /\ task' = [task EXCEPT ![t] = c] /\ task[t].pc = "b_item"
    BY <1>2, <2>1 DEF BatchFile, At, KeepsTables, memory
  <2> HIDE DEF c
  <2> QED
    BY <2>2, <2>3, BatchGoesOn DEF Transacting
<1>3. CASE BatchRecheck(t)
  <2>1. PICK b : task' = [task EXCEPT ![t].pc = "b_wait", ![t].baks = Append(@, b)]
    BY <1>3 DEF BatchRecheck
  <2> DEFINE bs == Append(task[t].baks, b)
             c  == [task[t] EXCEPT !.pc = "b_wait", !.baks = bs]
  <2>2. c.tok = task[t].tok /\ c.txn = task[t].txn /\ c.pc = "b_wait"
    <3> HIDE DEF bs
    <3> QED
      BY <1>0 DEF Calls
  <2>3. KeepsTables /\ task' = [task EXCEPT ![t] = c] /\ task[t].pc = "b_lock"
    BY <1>3, <2>1 DEF BatchRecheck, At, KeepsTables, memory
  <2> HIDE DEF c
  <2> QED
    BY <2>2, <2>3, BatchGoesOn DEF Transacting
<1>4. CASE BatchWrite(t)
  <2> DEFINE c == [task[t] EXCEPT !.pc = "b_item", !.k = @ + 1]
  <2>1. c.tok = task[t].tok /\ c.txn = task[t].txn /\ c.pc = "b_item"
    BY <1>0 DEF Calls
  <2>2. PICK r, o, created, k : AddSavepoint(task[t].txn, Savepoint(r, o, created, k))
    BY <1>4 DEF BatchWrite
  <2>3. UNCHANGED <<tokens, audit>> /\ task' = [task EXCEPT ![t] = c] /\ task[t].pc = "b_write"
    BY <1>4 DEF BatchWrite, At, durable
  <2> HIDE DEF c
  <2> QED
    BY <2>1, <2>2, <2>3, RecordIs DEF Transacting
<1>5. CASE BatchSaved(t)
  <2> DEFINE c == [task[t] EXCEPT !.pc = "b_item", !.k = @ + 1, !.reply = "none"]
  <2>1. c.tok = task[t].tok /\ c.txn = task[t].txn /\ c.pc = "b_item"
    BY <1>0 DEF Calls
  <2>2. PICK r, o, created, k : AddSavepoint(task[t].txn, Savepoint(r, o, created, k))
    BY <1>5 DEF BatchSaved
  <2>3. UNCHANGED <<tokens, audit>> /\ task' = [task EXCEPT ![t] = c] /\ task[t].pc = "b_wait"
    BY <1>5 DEF BatchSaved, At, durable
  <2> HIDE DEF c
  <2> QED
    BY <2>1, <2>2, <2>3, RecordIs DEF Transacting
<1>6. CASE BatchDashboard(t)
  <2> DEFINE c == [task[t] EXCEPT !.pc = "b_lock"]
  <2>1. c.tok = task[t].tok /\ c.txn = task[t].txn /\ c.pc = "b_lock"
    BY <1>0 DEF Calls
  <2>2. KeepsTables /\ task' = [task EXCEPT ![t] = c] /\ task[t].pc = "b_item"
    BY <1>6 DEF BatchDashboard, At, KeepsTables, memory, durable
  <2> HIDE DEF c
  <2> QED
    BY <2>1, <2>2, BatchGoesOn DEF Transacting
<1>7. CASE BatchFileFails(t) \/ BatchRefuse(t) \/ BatchSaveFails(t)
  <2> DEFINE c == [task[t] EXCEPT !.pc = "b_undo", !.reply = "none", !.k = @ - 1,
                                  !.n = task[t].k - 1]
  <2>1. c.tok = task[t].tok /\ c.txn = task[t].txn /\ c.pc = "b_undo"
    BY <1>0 DEF Calls
  <2>2. /\ KeepsTables /\ task' = [task EXCEPT ![t] = c]
        /\ task[t].pc \in {"b_item", "b_write", "b_lock", "b_wait"}
    BY <1>7 DEF BatchFileFails, BatchRefuse, BatchSaveFails, Abort, At, KeepsTables, memory, durable
  <2> HIDE DEF c
  <2> QED
    BY <2>1, <2>2, BatchGoesOn DEF Transacting
<1>8. CASE BatchUndoFile(t)
  <2> DEFINE c == [task[t] EXCEPT !.k = @ - 1]
  <2>1. c.tok = task[t].tok /\ c.txn = task[t].txn /\ c.pc = task[t].pc
    BY <1>0 DEF Calls
  <2>2. KeepsTables /\ task' = [task EXCEPT ![t] = c] /\ task[t].pc = "b_undo"
    BY <1>8 DEF BatchUndoFile, At, KeepsTables, memory, durable
  <2> HIDE DEF c
  <2> QED
    BY <2>1, <2>2, BatchGoesOn DEF Transacting
<1>9. CASE BatchUndoFileFails(t)
  <2> DEFINE c == [task[t] EXCEPT !.k = @ - 1, !.dirty = TRUE]
  <2>1. c.tok = task[t].tok /\ c.txn = task[t].txn /\ c.pc = task[t].pc
    BY <1>0 DEF Calls
  <2>2. KeepsTables /\ task' = [task EXCEPT ![t] = c] /\ task[t].pc = "b_undo"
    BY <1>9 DEF BatchUndoFileFails, At, KeepsTables, memory, durable
  <2> HIDE DEF c
  <2> QED
    BY <2>1, <2>2, BatchGoesOn DEF Transacting
<1>10. CASE BatchUndoDashboard(t)
  <2> DEFINE c == [task[t] EXCEPT !.pc = "b_uwait"]
  <2>1. c.tok = task[t].tok /\ c.txn = task[t].txn /\ c.pc = "b_uwait"
    BY <1>0 DEF Calls
  <2>2. KeepsTables /\ task' = [task EXCEPT ![t] = c] /\ task[t].pc = "b_undo"
    BY <1>10 DEF BatchUndoDashboard, At, KeepsTables, memory, durable
  <2> HIDE DEF c
  <2> QED
    BY <2>1, <2>2, BatchGoesOn DEF Transacting
<1>11. CASE BatchUndone(t)
  <2> DEFINE failed == task[t].dirty \/ task[t].reply = "err"
             c == [task[t] EXCEPT !.pc = "b_undo", !.k = @ - 1, !.reply = "none",
                                  !.dirty = failed]
  <2>1. c.tok = task[t].tok /\ c.txn = task[t].txn /\ c.pc = "b_undo"
    <3> HIDE DEF failed
    <3> QED
      BY <1>0 DEF Calls
  <2>2. KeepsTables /\ task' = [task EXCEPT ![t] = c] /\ task[t].pc = "b_uwait"
    BY <1>11 DEF BatchUndone, At, KeepsTables, memory, durable
  <2> HIDE DEF c
  <2> QED
    BY <2>1, <2>2, BatchGoesOn DEF Transacting
<1>12. CASE BatchUndoCrashes(t)
  BY <1>12, QuitIs DEF BatchUndoCrashes, Finish, KeepsTables, memory, durable
<1>13. CASE BatchCommit(t)
  BY <1>13, EndIs DEF BatchCommit, At, Transacting
<1>14. CASE BatchFailed(t)
  BY <1>14, EndIs DEF BatchFailed, At, Transacting
<1> QED
  BY <1>1, <1>2, <1>3, <1>4, <1>5, <1>6, <1>7, <1>8, <1>9, <1>10, <1>11, <1>12, <1>13, <1>14
     DEF BatchStep

(* Answers, late saves and people change nothing the ledger sees.          *)
LEMMA OutsideKind ==
  ASSUME TypeInv, UndoInv,
         \/ \E e \in inflight : HaSave(e)
         \/ \E t \in Tasks : WsError(t)
         \/ \E r, c : OutsideEdit(r, c)
         \/ UNCHANGED vars
  PROVE  LedgerStep
<1>0. \A u \in Tasks : task[u] \in Calls
  BY DEF TypeInv, TypeOK
<1>1. KeepsTables
  BY DEF HaSave, WsError, OutsideEdit, KeepsTables, memory, durable, vars
<1>2. ASSUME NEW e \in inflight, HaSave(e)
      PROVE  LedgerStep
  <2>1. \A u \in Tasks : task'[u] \in {task[u], [task[u] EXCEPT !.reply = "ok"]}
    BY <1>2 DEF HaSave
  <2>2. ASSUME NEW u \in Tasks PROVE GoesOn(task[u], [task[u] EXCEPT !.reply = "ok"])
    BY <1>0 DEF GoesOn, Calls
  <2>3. \A u \in Tasks : GoesOn(task[u], task'[u])
    BY <2>1, <2>2, StaysSame
  <2> QED
    BY <1>1, <2>3 DEF LedgerStep, Works
<1>3. ASSUME NEW t \in Tasks, WsError(t)
      PROVE  LedgerStep
  <2> DEFINE c == [task[t] EXCEPT !.reply = "err"]
  <2>1. task' = [task EXCEPT ![t] = c]
    BY <1>3 DEF WsError
  <2>2. GoesOn(task[t], c)
    BY <1>0 DEF GoesOn, Calls
  <2> HIDE DEF c
  <2> QED
    BY <1>1, <2>1, <2>2, WorkIs
<1>4. CASE UNCHANGED task
  <2>1. \A u \in Tasks : GoesOn(task[u], task'[u])
    BY <1>4, StaysSame
  <2> QED
    BY <1>1, <2>1 DEF LedgerStep, Works
<1>5. CASE \E r, c : OutsideEdit(r, c)
  BY <1>4, <1>5 DEF OutsideEdit, sched
<1>6. CASE UNCHANGED vars
  BY <1>4, <1>6 DEF vars, sched
<1> QED
  BY <1>2, <1>3, <1>5, <1>6

LEMMA RestartKind ==
  ASSUME TypeInv, Restart PROVE LedgerStep
<1>1. /\ \A i \in DOMAIN tokens : tokens[i] \in Tokens
      /\ \A x \in DOMAIN txns : txns[x] \in Txns
  BY SeqIsFun DEF TypeInv, TypeOK
<1>2. ASSUME NEW i \in DOMAIN tokens
      PROVE  tokens'[i].state = IF tokens[i].state = "live" THEN "gone" ELSE tokens[i].state
  BY <1>1, <1>2 DEF Restart, Tokens
<1>3. ASSUME NEW x \in DOMAIN txns
      PROVE  /\ txns'[x].state = "gone" /\ txns'[x].tok = txns[x].tok
             /\ txns'[x].saves = txns[x].saves
  BY <1>1, <1>3 DEF Restart, Txns
<1>4. /\ DOMAIN tokens' = DOMAIN tokens /\ DOMAIN txns' = DOMAIN txns
      /\ \A t \in Tasks : task'[t] = Idle
      /\ UNCHANGED audit
  BY DEF Restart, durable
<1> QED
  BY <1>2, <1>3, <1>4 DEF LedgerStep, Forgets

LEMMA PreviewKind ==
  ASSUME TypeInv, Preview PROVE LedgerStep
<1>1. UNCHANGED <<audit, task>>
  BY PreviewKeeps
<1>2. (\E tk \in TokenIds : Issues(tk)) /\ UNCHANGED txns
  <2>1. ASSUME NEW p \in Files, NEW c \in Texts, ConfigPatch(p, c) \/ ConfigCreate(p, c)
        PROVE  (\E tk \in TokenIds : Issues(tk)) /\ UNCHANGED txns
    BY <2>1, IssueIs DEF ConfigPatch, ConfigCreate
  <2>2. ASSUME NEW d \in Dashboards, NEW c \in Texts, DashboardDiff(d, c) \/ DashboardPatch(d, c)
        PROVE  (\E tk \in TokenIds : Issues(tk)) /\ UNCHANGED txns
    BY <2>2, IssueIs DEF DashboardDiff, DashboardPatch
  <2>3. ASSUME NEW x \in DOMAIN txns, RollbackPreview(x)
        PROVE  (\E tk \in TokenIds : Issues(tk)) /\ UNCHANGED txns
    BY <2>3, IssueIs DEF RollbackPreview
  <2>4. ASSUME NEW b \in DOMAIN backups, RevertPreview(b)
        PROVE  (\E tk \in TokenIds : Issues(tk)) /\ UNCHANGED txns
    BY <2>4, IssueIs DEF RevertPreview
  <2>5. ASSUME PrunePreview
        PROVE  (\E tk \in TokenIds : Issues(tk)) /\ UNCHANGED txns
    BY <2>5, IssueIs DEF PrunePreview
  <2>6. ASSUME NEW rs, NEW cs, BatchPreview(rs, cs)
        PROVE  (\E tk \in TokenIds : Issues(tk)) /\ UNCHANGED txns
    BY <2>6, IssueIs DEF BatchPreview
  <2> QED
    BY <2>1, <2>2, <2>3, <2>4, <2>5, <2>6 DEF Preview
<1> QED
  BY <1>1, <1>2 DEF LedgerStep, Shows

(* haops_backup_prune claims and logs in one step.                         *)
LEMMA PruneKind ==
  ASSUME TypeInv, NEW tk \in DOMAIN tokens, PruneConfirm(tk) PROVE LedgerStep
<1>1. ClaimToken(tk) /\ LogOperation(tk, TRUE, FALSE) /\ UNCHANGED <<txns, task>>
  BY DEF PruneConfirm, sched
<1>2. Spends(tk) /\ tk \in TokenIds
  BY <1>1, ClaimIs
<1>3. CASE Reports(tk, TRUE)
  BY <1>1, <1>2, <1>3 DEF LedgerStep, DoneAtOnce
<1>4. CASE UNCHANGED audit
  BY <1>1, <1>2, <1>4 DEF LedgerStep, Wastes
<1> QED
  BY <1>1, <1>3, <1>4, LogIs

LEMMA EveryStepIsOne ==
  ASSUME TypeInv, UndoInv, [Next]_vars PROVE LedgerStep
<1>1. CASE Preview
  BY <1>1, PreviewKind
<1>2. CASE \E tk \in DOMAIN tokens : PruneConfirm(tk)
  BY <1>2, PruneKind
<1>3. ASSUME NEW t \in Tasks, Start(t) PROVE LedgerStep
  BY <1>3, ConfigKind, DashboardKind, BatchKind, RollbackKind, RevertKind DEF Start
<1>4. ASSUME NEW t \in Tasks, Step(t) PROVE LedgerStep
  BY <1>4, ConfigKind, DashboardKind, BatchKind, RollbackKind, RevertKind DEF Step
<1>5. ASSUME NEW t \in Tasks, Answer(t) PROVE LedgerStep
  BY <1>5, OutsideKind DEF Answer
<1>6. ASSUME NEW t \in Tasks, Cancel(t) PROVE LedgerStep
  BY <1>6, QuitIs DEF Cancel, KeepsTables, memory, durable
<1>7. CASE Environment
  BY <1>7, OutsideKind, RestartKind DEF Environment
<1>8. CASE UNCHANGED vars
  BY <1>8, OutsideKind
<1> QED
  BY <1>1, <1>2, <1>3, <1>4, <1>5, <1>6, <1>7, <1>8 DEF Next

-----------------------------------------------------------------------------
(* Transactions and the calls that work on them.                           *)

(* What a call at work is known to have.                                   *)
LEMMA AtWork ==
  ASSUME TypeInv, TokenInv, UndoInv
  PROVE  /\ \A t \in Tasks : task[t].pc \in {"idle", "rb_claim", "dash_lock"} \cup Transacting \cup Restoring
         /\ \A t \in Tasks : task[t].pc \notin {"idle", "rb_claim"} =>
              /\ task[t].tok # 0 /\ task[t].tok \in DOMAIN tokens
              /\ tokens[task[t].tok].state = "spent"
         /\ \A t, u \in Tasks :
              /\ task[t].pc \notin {"idle", "rb_claim"}
              /\ task[u].tok = task[t].tok
              => t = u
<1>1. \A t \in Tasks : task[t].pc \in {"idle", "rb_claim", "dash_lock"} \cup Transacting \cup Restoring
  <2> TAKE t \in Tasks
  <2>1. task[t].pc \in Points
    BY CallFacts DEF Calls
  <2> QED
    BY <2>1 DEF Points, Transacting, Restoring
<1>2. \A t \in Tasks : task[t].pc \notin {"idle", "rb_claim"} =>
        task[t].tok # 0 /\ task[t].tok \in DOMAIN tokens
  BY CallFacts, ZeroIsNoToken
<1> QED
  BY <1>1, <1>2 DEF TokenInv, SpentTokens, TokenDrivesOneCall

(* Two calls do not work on one transaction.                               *)
LEMMA OwnTransaction ==
  ASSUME TypeInv, TokenInv, UndoInv, NEW t \in Tasks, task[t].pc \in Transacting,
         NEW u \in Tasks \ {t}, task[u].pc \in Transacting \cup RollingBack
  PROVE  task[u].txn # task[t].txn
<1>1. CASE task[u].pc \in Transacting
  BY <1>1, AtWork DEF UndoInv, TransactionsMatch, CallMatches, Transacting
<1>2. CASE task[u].pc \in RollingBack
  BY <1>2 DEF UndoInv, TransactionsMatch, CallMatches
<1> QED
  BY <1>1, <1>2

(* The transactions stay as they are.                                      *)
LEMMA TxnsStay ==
  ASSUME TypeInv, UndoInv, SpentStays, UNCHANGED txns,
         \A u \in Tasks :
           \/ GoesOn(task[u], task'[u])
           \/ task'[u] = Idle
           \/ /\ task'[u].pc = "rb_claim" /\ task'[u].tok = 0
              /\ task'[u].txn \in DOMAIN txns /\ txns[task'[u].txn].state = "committed"
           \/ task'[u].pc = "dash_lock" /\ \A x \in DOMAIN txns : txns[x].tok # task'[u].tok
  PROVE  UndoInv'
<1>1. TransactionsMatch'
  BY DEF UndoInv, TransactionsMatch, CallMatches, GoesOn, Idle, Transacting, Restoring, RollingBack, ActiveSavepoints
<1>2. TransactionsAreOwn'
  <2>1. \A u \in Tasks, x \in DOMAIN txns :
          task'[u].pc \in Restoring \cup {"dash_lock"} => txns[x].tok # task'[u].tok
    BY DEF UndoInv, TransactionsAreOwn, GoesOn, Idle, Transacting, Restoring
  <2> QED
    BY <2>1 DEF UndoInv, TransactionsAreOwn, SpentStays, ActiveSavepoints
<1>3. RollbackOnce'
  <2>1. \A u \in Tasks : task'[u].pc \in {"rb_undo", "rb_wait"} =>
          /\ task[u].pc \in {"rb_undo", "rb_wait"}
          /\ task'[u].n = task[u].n /\ task'[u].txn = task[u].txn
    BY DEF GoesOn, Idle, Transacting, Restoring
  <2> QED
    BY <2>1 DEF UndoInv, RollbackOnce
<1> QED
  BY <1>1, <1>2, <1>3 DEF UndoInv

(* A transaction of tk is opened.                                          *)
LEMMA TxnOpens ==
  ASSUME TypeInv, UndoInv, SpentStays, NEW t \in Tasks, NEW tk, Opens(t, tk), OthersStay(t),
         tk \in DOMAIN tokens', tokens'[tk].state = "spent",
         \A x \in DOMAIN txns : txns[x].tok # tk,
         \A u \in Tasks \ {t} : task[u].tok # tk
  PROVE  UndoInv'
<1>0. PICK x : x = task'[t].txn
  OBVIOUS
<1>1. /\ x \notin DOMAIN txns /\ DOMAIN txns' = DOMAIN txns \cup {x}
      /\ \A y \in DOMAIN txns : txns'[y] = txns[y]
      /\ txns'[x].state = "open" /\ txns'[x].tok = tk
      /\ \A i \in DOMAIN txns'[x].saves : ~txns'[x].saves[i].undone
      /\ task'[t].pc \in Transacting /\ task'[t].tok = tk
      /\ \A u \in Tasks \ {t} : task'[u] = task[u]
  BY <1>0 DEF Opens, OtherTxnsStay, OthersStay
<1>2. \A y \in DOMAIN txns : ActiveSavepoints(y)' = ActiveSavepoints(y)
  BY <1>1 DEF ActiveSavepoints
<1>3. ActiveSavepoints(x)' = DOMAIN txns'[x].saves
  BY <1>1 DEF ActiveSavepoints
<1>4. TransactionsMatch'
  BY <1>0, <1>1, <1>2 DEF UndoInv, TransactionsMatch, CallMatches, Transacting, Restoring, RollingBack
<1>5. TransactionsAreOwn'
  <2>1. \A y \in DOMAIN txns' :
       /\ txns'[y].tok \in DOMAIN tokens'
       /\ tokens'[txns'[y].tok].state = "spent"
       /\ txns'[y].state = "open" => ActiveSavepoints(y)' = DOMAIN txns'[y].saves
    BY <1>1, <1>2, <1>3 DEF UndoInv, TransactionsAreOwn, SpentStays
  <2>2. \A y, z \in DOMAIN txns' : txns'[y].tok = txns'[z].tok => y = z
    BY <1>1 DEF UndoInv, TransactionsAreOwn
  <2>3. \A u \in Tasks, y \in DOMAIN txns' :
          task'[u].pc \in Restoring \cup {"dash_lock"} => txns'[y].tok # task'[u].tok
    BY <1>1 DEF UndoInv, TransactionsAreOwn, Transacting, Restoring
  <2> QED
    BY <2>1, <2>2, <2>3 DEF TransactionsAreOwn
<1>6. RollbackOnce'
  BY <1>1 DEF UndoInv, RollbackOnce, Transacting
<1> QED
  BY <1>4, <1>5, <1>6 DEF UndoInv

(* A call changes its own transaction, or closes it and ends.              *)
LEMMA TxnMoves ==
  ASSUME TypeInv, TokenInv, UndoInv, UNCHANGED tokens, NEW t \in Tasks, Records(t) \/ \E ok \in BOOLEAN : Ends(t, ok),
         task[t].pc \in Transacting
  PROVE  UndoInv'
<1>x. PICK x : x = task[t].txn
  OBVIOUS
<1>0. Transacting \cap Restoring = {}
  BY DEF Transacting, Restoring
<1>1. /\ x \in DOMAIN txns /\ DOMAIN txns' = DOMAIN txns /\ txns[x].state = "open"
      /\ \A y \in DOMAIN txns \ {x} : txns'[y] = txns[y]
      /\ txns'[x].tok = txns[x].tok
      /\ \A u \in Tasks \ {t} : task'[u] = task[u]
      /\ ActiveSavepoints(x) = DOMAIN txns[x].saves
  <2>1. /\ x \in DOMAIN txns /\ txns[x].state = "open"
        /\ ActiveSavepoints(x) = DOMAIN txns[x].saves
    BY <1>x DEF UndoInv, TransactionsMatch, CallMatches, TransactionsAreOwn
  <2>2. /\ OtherTxnsStay(x) /\ OthersStay(t) /\ txns'[x].tok = txns[x].tok
    BY <1>x, <1>0 DEF Records, Ends
  <2> QED
    BY <2>1, <2>2 DEF OtherTxnsStay, OthersStay
<1>2. \/ /\ GoesOn(task[t], task'[t]) /\ txns'[x].state = "open"
         /\ ActiveSavepoints(x)' = DOMAIN txns'[x].saves
      \/ task'[t] = Idle /\ txns'[x].state # "open"
  BY <1>x, <1>0, <1>1 DEF Records, Ends, ActiveSavepoints
<1>3. \A u \in Tasks \ {t} : task[u].pc \in Transacting \cup RollingBack => task[u].txn # x
  BY <1>x, OwnTransaction
<1>4. \A y \in DOMAIN txns \ {x} : ActiveSavepoints(y)' = ActiveSavepoints(y)
  BY <1>1 DEF ActiveSavepoints
<1>5. TransactionsMatch'
  <2>1. ASSUME NEW u \in Tasks \ {t} PROVE CallMatches(u)'
    <3>1. CallMatches(u) /\ task'[u] = task[u]
      BY <1>1 DEF UndoInv, TransactionsMatch
    <3>2. task[u].pc \in Transacting \cup RollingBack => task[u].txn # x
      BY <1>3
    <3> QED
      BY <1>1, <1>4, <3>1, <3>2 DEF CallMatches, RollingBack
  <2>2. CallMatches(t)'
    <3>1. CASE task'[t] = Idle
      BY <3>1 DEF CallMatches, Idle, Transacting, RollingBack, Restoring
    <3>2. CASE GoesOn(task[t], task'[t]) /\ txns'[x].state = "open"
      BY <1>x, <1>1, <3>2
         DEF GoesOn, Transacting, RollingBack, Restoring, UndoInv, TransactionsMatch, CallMatches
    <3> QED
      BY <1>2, <3>1, <3>2
  <2> QED
    BY <2>1, <2>2 DEF TransactionsMatch
<1>6. TransactionsAreOwn'
  <2>1. \A y \in DOMAIN txns' :
       /\ txns'[y].tok \in DOMAIN tokens'
       /\ tokens'[txns'[y].tok].state = "spent"
       /\ txns'[y].state = "open" => ActiveSavepoints(y)' = DOMAIN txns'[y].saves
    BY <1>1, <1>2, <1>4 DEF UndoInv, TransactionsAreOwn
  <2>2. \A y, z \in DOMAIN txns' : txns'[y].tok = txns'[z].tok => y = z
    BY <1>1 DEF UndoInv, TransactionsAreOwn
  <2>3. \A u \in Tasks, y \in DOMAIN txns' :
          task'[u].pc \in Restoring \cup {"dash_lock"} => txns'[y].tok # task'[u].tok
    BY <1>1, <1>2 DEF UndoInv, TransactionsAreOwn, GoesOn, Idle, Transacting, Restoring
  <2> QED
    BY <2>1, <2>2, <2>3 DEF TransactionsAreOwn
<1>7. RollbackOnce'
  <2>1. task'[t].pc \notin {"rb_undo", "rb_wait"}
    BY <1>2 DEF GoesOn, Idle, Transacting, Restoring
  <2> QED
    BY <1>1, <2>1 DEF UndoInv, RollbackOnce
<1> QED
  BY <1>5, <1>6, <1>7 DEF UndoInv

(* A rollback claims: if it has anything to restore it is the only one.    *)
LEMMA TxnUndone ==
  ASSUME TypeInv, TokenInv, UndoInv, SpentStays, NEW t \in Tasks, NEW tk, Undoes(t, tk)
  PROVE  UndoInv'
<1>0. PICK x : x = task[t].txn
  OBVIOUS
<1>1. /\ x \in DOMAIN txns /\ DOMAIN txns' = DOMAIN txns /\ txns[x].state = "committed"
      /\ \A y \in DOMAIN txns \ {x} : txns'[y] = txns[y]
      /\ txns'[x].tok = txns[x].tok /\ txns'[x].state = "committed"
      /\ \A u \in Tasks \ {t} : task'[u] = task[u]
      /\ task'[t].pc = "rb_undo" /\ task'[t].tok = tk /\ task'[t].txn = x
      /\ tokens[tk].state = "live"
  BY <1>0 DEF Undoes, Spends, OtherTxnsStay, OthersStay, UndoInv, TransactionsMatch, CallMatches, RollingBack
<1>2. ActiveSavepoints(x)' = {}
  BY <1>0, <1>1 DEF Undoes, ActiveSavepoints
<1>3. \A u \in Tasks : task[u].pc \in Transacting => task[u].txn # x
  BY <1>1 DEF UndoInv, TransactionsMatch, CallMatches
<1>4. task'[t].n > 0 => \A u \in Tasks \ {t} : task[u].pc \in Restoring => task[u].txn # x
  BY <1>0 DEF Undoes, UndoInv, TransactionsMatch, CallMatches
<1>5. \A y \in DOMAIN txns \ {x} : ActiveSavepoints(y)' = ActiveSavepoints(y)
  BY <1>1 DEF ActiveSavepoints
<1>6. TransactionsMatch'
  BY <1>1, <1>2, <1>3, <1>5 DEF UndoInv, TransactionsMatch, CallMatches, RollingBack, Restoring, Transacting
<1>7. TransactionsAreOwn'
  <2>0. \A y \in DOMAIN txns : txns[y].tok # tk
    BY <1>1 DEF UndoInv, TransactionsAreOwn
  <2>1. \A y \in DOMAIN txns' :
       /\ txns'[y].tok \in DOMAIN tokens'
       /\ tokens'[txns'[y].tok].state = "spent"
       /\ txns'[y].state = "open" => ActiveSavepoints(y)' = DOMAIN txns'[y].saves
    BY <1>1, <1>5 DEF UndoInv, TransactionsAreOwn, SpentStays
  <2>2. \A y, z \in DOMAIN txns' : txns'[y].tok = txns'[z].tok => y = z
    BY <1>1 DEF UndoInv, TransactionsAreOwn
  <2>3. \A u \in Tasks, y \in DOMAIN txns' :
          task'[u].pc \in Restoring \cup {"dash_lock"} => txns'[y].tok # task'[u].tok
    BY <1>1, <2>0 DEF UndoInv, TransactionsAreOwn
  <2> QED
    BY <2>1, <2>2, <2>3 DEF TransactionsAreOwn
<1>8. RollbackOnce'
  <2>1. \A u \in Tasks \ {t} : task'[u].pc \in {"rb_undo", "rb_wait"} => task[u].pc \in Restoring
    BY <1>1 DEF Restoring
  <2> QED
    BY <1>1, <1>4, <2>1 DEF UndoInv, RollbackOnce
<1> QED
  BY <1>6, <1>7, <1>8 DEF UndoInv

LEMMA TxnsForgotten ==
  ASSUME TypeInv, TokenInv, UndoInv, Forgets PROVE UndoInv'
<1>1. TransactionsMatch'
  BY DEF Forgets, TransactionsMatch, CallMatches, Idle, Transacting, Restoring, RollingBack
<1>2. TransactionsAreOwn'
  BY DEF Forgets, UndoInv, TransactionsAreOwn, Idle, Restoring
<1>3. RollbackOnce'
  BY DEF Forgets, RollbackOnce, Idle
<1> QED
  BY <1>1, <1>2, <1>3 DEF UndoInv

LEMMA UndoStep ==
  ASSUME TypeInv, TokenInv, UndoInv, LedgerStep PROVE UndoInv'
<1>1. \A tk : Issues(tk) => SpentStays
  BY DEF Issues, SpentStays
<1>2. \A tk : Spends(tk) => SpentStays
  BY DEF Spends, SpentStays
<1>3. UNCHANGED tokens => SpentStays
  BY DEF SpentStays
<1>4. \A u \in Tasks : GoesOn(task[u], task[u])
  BY StaysSame
<1>5. CASE Shows
  BY <1>1, <1>4, <1>5, TxnsStay DEF Shows
<1>6. CASE Works
  BY <1>3, <1>6, TxnsStay DEF Works, KeepsTables
<1>7. CASE Forgets
  BY <1>7, TxnsForgotten
<1>8. ASSUME NEW tk, Wastes(tk) \/ DoneAtOnce(tk) PROVE UndoInv'
  <2>1. SpentStays /\ UNCHANGED txns
    BY <1>2, <1>8 DEF Wastes, DoneAtOnce
  <2>2. \A u \in Tasks : GoesOn(task[u], task'[u]) \/ task'[u] = Idle
    BY <1>4, <1>8 DEF Wastes, DoneAtOnce, OthersStay
  <2> QED
    BY <2>1, <2>2, TxnsStay
<1>9. ASSUME NEW t \in Tasks, Enters(t) \/ Quits(t) PROVE UndoInv'
  <2>1. SpentStays /\ UNCHANGED txns
    BY <1>3, <1>9 DEF Enters, Quits, KeepsTables
  <2>2. \A u \in Tasks : \/ GoesOn(task[u], task'[u]) \/ task'[u] = Idle
                         \/ /\ task'[u].pc = "rb_claim" /\ task'[u].tok = 0
                            /\ task'[u].txn \in DOMAIN txns /\ txns[task'[u].txn].state = "committed"
    BY <1>4, <1>9 DEF Enters, Quits, OthersStay
  <2> QED
    BY <2>1, <2>2, TxnsStay
<1>10. ASSUME NEW t \in Tasks, NEW tk, Queues(t, tk) PROVE UndoInv'
  <2>1. SpentStays /\ UNCHANGED txns
    BY <1>2, <1>10 DEF Queues
  <2>2. \A x \in DOMAIN txns : txns[x].tok # tk
    BY <1>10 DEF Queues, Spends, UndoInv, TransactionsAreOwn
  <2>3. \A u \in Tasks : \/ GoesOn(task[u], task'[u])
                         \/ task'[u].pc = "dash_lock" /\ \A x \in DOMAIN txns : txns[x].tok # task'[u].tok
    BY <1>4, <1>10, <2>2 DEF Queues, OthersStay
  <2> QED
    BY <2>1, <2>3, TxnsStay
<1>11. ASSUME NEW t \in Tasks, NEW tk, Begins(t, tk) PROVE UndoInv'
  <2>1. /\ SpentStays /\ tk \in DOMAIN tokens' /\ tokens'[tk].state = "spent"
        /\ \A x \in DOMAIN txns : txns[x].tok # tk
    BY <1>2, <1>11 DEF Begins, Spends, UndoInv, TransactionsAreOwn
  <2>2. \A u \in Tasks : task[u].tok # tk
    BY <1>11, ZeroIsNoToken DEF Begins, Spends, TokenInv, SpentTokens
  <2> QED
    BY <1>11, <2>1, <2>2, TxnOpens DEF Begins
<1>12. ASSUME NEW t \in Tasks, Locks(t) PROVE UndoInv'
  <2>1. \A u \in Tasks \ {t} : task[u].tok # task[t].tok
    BY <1>12, AtWork DEF Locks
  <2>2. task[t].tok \in DOMAIN tokens /\ tokens[task[t].tok].state = "spent"
    BY <1>12, AtWork DEF Locks
  <2>3. \A x \in DOMAIN txns : txns[x].tok # task[t].tok
    BY <1>12 DEF Locks, UndoInv, TransactionsAreOwn
  <2> QED
    BY <1>3, <1>12, <2>1, <2>2, <2>3, TxnOpens DEF Locks
<1>13. ASSUME NEW t \in Tasks, Records(t) PROVE UndoInv'
  BY <1>13, TxnMoves DEF Records
<1>14. ASSUME NEW t \in Tasks, NEW ok \in BOOLEAN, Ends(t, ok) PROVE UndoInv'
  <2>1. CASE task[t].pc \in Transacting
    BY <1>14, <2>1, TxnMoves DEF Ends
  <2>2. CASE UNCHANGED txns
    <3>1. \A u \in Tasks : GoesOn(task[u], task'[u]) \/ task'[u] = Idle
      BY <1>4, <1>14 DEF Ends, OthersStay
    <3> QED
      BY <1>3, <1>14, <2>2, <3>1, TxnsStay DEF Ends
  <2> QED
    BY <1>14, <2>1, <2>2 DEF Ends
<1>15. ASSUME NEW t \in Tasks, NEW tk, Undoes(t, tk) PROVE UndoInv'
  BY <1>2, <1>15, TxnUndone DEF Undoes
<1> QED
  BY <1>5, <1>6, <1>7, <1>8, <1>9, <1>10, <1>11, <1>12, <1>13, <1>14, <1>15 DEF LedgerStep

LEMMA InitUndo == Init => UndoInv
<1> SUFFICES ASSUME Init PROVE UndoInv
  OBVIOUS
<1>1. /\ \A t \in Tasks : task[t] = Idle
      /\ txns = <<>> /\ DOMAIN txns = {}
  BY DEF Init
<1>2. TransactionsMatch
  BY <1>1 DEF TransactionsMatch, CallMatches, Idle, Transacting, Restoring, RollingBack
<1>3. TransactionsAreOwn
  BY <1>1 DEF TransactionsAreOwn
<1>4. RollbackOnce
  BY <1>1 DEF RollbackOnce, Idle
<1> QED
  BY <1>2, <1>3, <1>4 DEF UndoInv

LEMMA UndoInvariant == Spec => [](TypeInv /\ TokenInv /\ UndoInv)
<1>1. TypeInv /\ TokenInv /\ UndoInv /\ [Next]_vars => UndoInv'
  BY EveryStepIsOne, UndoStep
<1> QED
  BY <1>1, InitUndo, TokensAreSpent, PTL DEF Spec

(* Of two rollbacks of one transaction at most one restores anything, in   *)
(* every instance: claiming the token and marking the savepoints is one    *)
(* step, between the wait for the token and the first write.               *)
THEOREM TransactionsAreUndoneOnce == Spec => []RollbackOnce
<1>1. UndoInv => RollbackOnce
  BY DEF UndoInv
<1> QED
  BY <1>1, UndoInvariant, PTL
-----------------------------------------------------------------------------
(* The pipeline implements the contract of ChangeLedger.                   *)

PipelineInv == TypeInv /\ TokenInv /\ UndoInv

Seen(tk) == tk \in DOMAIN tokens
Runs(tk) == \E t \in Tasks : task[t].tok = tk
SaidDone(tk) == \E i \in DOMAIN audit : audit[i].tok = tk /\ audit[i].ok = TRUE
SaidFailed(tk) == \E i \in DOMAIN audit : audit[i].tok = tk /\ audit[i].ok = FALSE

(* The stages exclude each other, so the order in which Stage asks for     *)
(* them does not matter.                                                   *)
StageFacts ==
  \A tk \in TokenIds :
    /\ ~Seen(tk)       => Stage(tk) = "unseen"
    /\ Live(tk)        => Stage(tk) = "shown"
    /\ Runs(tk)        => Stage(tk) = "running"
    /\ SaidDone(tk)  => Stage(tk) = "applied"
    /\ SaidFailed(tk) => Stage(tk) = "failed"
    /\ Seen(tk) /\ ~Live(tk) /\ ~Runs(tk) /\ ~SaidDone(tk) /\ ~SaidFailed(tk)
         => Stage(tk) = IF UndoOf(tk) = "none" THEN "dropped" ELSE "unreported"

Exclusive ==
  \A tk \in TokenIds :
    /\ Live(tk) \/ Runs(tk) \/ SaidDone(tk) \/ SaidFailed(tk) => Seen(tk)
    /\ Live(tk) => ~Runs(tk) /\ ~SaidDone(tk) /\ ~SaidFailed(tk)
    /\ Runs(tk) => ~SaidDone(tk) /\ ~SaidFailed(tk)
    /\ ~(SaidDone(tk) /\ SaidFailed(tk))

LEMMA OneArm ==
  ASSUME NEW a \in BOOLEAN, NEW b \in BOOLEAN, NEW c \in BOOLEAN,
         NEW d \in BOOLEAN, NEW e \in BOOLEAN,
         ~(a /\ b), ~(a /\ c), ~(a /\ d), ~(a /\ e), ~(b /\ c), ~(b /\ d),
         ~(b /\ e), ~(c /\ d), ~(c /\ e), ~(d /\ e),
         NEW o,
         NEW s, s = CASE a -> "unseen" [] b -> "shown" [] c -> "running"
                      [] d -> "applied" [] e -> "failed" [] OTHER -> o
  PROVE  /\ a => s = "unseen"
         /\ b => s = "shown"
         /\ c => s = "running"
         /\ d => s = "applied"
         /\ e => s = "failed"
         /\ ~a /\ ~b /\ ~c /\ ~d /\ ~e => s = o
BY Zenon

LEMMA StagesExclude == PipelineInv => Exclusive
<1> SUFFICES ASSUME PipelineInv, NEW tk \in TokenIds
             PROVE  /\ Live(tk) \/ Runs(tk) \/ SaidDone(tk) \/ SaidFailed(tk) => Seen(tk)
                    /\ Live(tk) => ~Runs(tk) /\ ~SaidDone(tk) /\ ~SaidFailed(tk)
                    /\ Runs(tk) => ~SaidDone(tk) /\ ~SaidFailed(tk)
                    /\ ~(SaidDone(tk) /\ SaidFailed(tk))
  BY DEF Exclusive
<1>1. tk # 0
  BY ContextAssumption DEF TokenIds
<1>2. SpentTokens /\ TokenDrivesOneCall
  BY DEF PipelineInv, TokenInv
<1> QED
  BY <1>1, <1>2 DEF Seen, Live, Runs, SaidDone, SaidFailed, SpentTokens, TokenDrivesOneCall

LEMMA StageIs == PipelineInv => StageFacts
<1> SUFFICES ASSUME PipelineInv, NEW tk \in TokenIds
             PROVE  /\ ~Seen(tk)       => Stage(tk) = "unseen"
                    /\ Live(tk)        => Stage(tk) = "shown"
                    /\ Runs(tk)        => Stage(tk) = "running"
                    /\ SaidDone(tk)  => Stage(tk) = "applied"
                    /\ SaidFailed(tk) => Stage(tk) = "failed"
                    /\ Seen(tk) /\ ~Live(tk) /\ ~Runs(tk) /\ ~SaidDone(tk) /\ ~SaidFailed(tk)
                         => Stage(tk) = IF UndoOf(tk) = "none" THEN "dropped" ELSE "unreported"
  BY DEF StageFacts
<1>1. \A i \in DOMAIN audit : audit[i].ok \in BOOLEAN
  <2>1. audit \in [1..Len(audit) -> AuditEntries] /\ DOMAIN audit = 1..Len(audit)
    BY SeqIsFun DEF PipelineInv, TypeInv, TypeOK
  <2> QED
    BY <2>1 DEF AuditEntries
<1>2. /\ SaidDone(tk) <=> \E i \in DOMAIN audit : audit[i].tok = tk /\ audit[i].ok
      /\ SaidFailed(tk) <=> \E i \in DOMAIN audit : audit[i].tok = tk /\ ~audit[i].ok
  BY <1>1 DEF SaidDone, SaidFailed
<1>3. PICK a \in BOOLEAN : a = (tk \notin DOMAIN tokens)
  OBVIOUS
<1>4. PICK b \in BOOLEAN : b = Live(tk)
  BY DEF Live
<1>5. PICK c \in BOOLEAN : c = (\E t \in Tasks : task[t].tok = tk)
  OBVIOUS
<1>6. PICK d \in BOOLEAN : d = (\E i \in DOMAIN audit : audit[i].tok = tk /\ audit[i].ok)
  OBVIOUS
<1>7. PICK e \in BOOLEAN : e = (\E i \in DOMAIN audit : audit[i].tok = tk /\ ~audit[i].ok)
  OBVIOUS
<1>a. PICK o : o = IF CommittedFor(tk) # {} THEN "unreported" ELSE "dropped"
  OBVIOUS
<1>b. o = IF UndoOf(tk) = "none" THEN "dropped" ELSE "unreported"
  BY <1>a DEF UndoOf
<1>8. Stage(tk) = CASE a -> "unseen" [] b -> "shown" [] c -> "running"
                    [] d -> "applied" [] e -> "failed" [] OTHER -> o
  BY <1>3, <1>4, <1>5, <1>6, <1>7, <1>a, Zenon DEF Stage
<1>9. /\ a <=> ~Seen(tk)
      /\ b <=> Live(tk)
      /\ c <=> Runs(tk)
      /\ d <=> SaidDone(tk)
      /\ e <=> SaidFailed(tk)
  BY <1>2, <1>3, <1>4, <1>5, <1>6, <1>7, Zenon DEF Seen, Runs
<1>10. /\ ~(a /\ b) /\ ~(a /\ c) /\ ~(a /\ d) /\ ~(a /\ e) /\ ~(b /\ c) /\ ~(b /\ d)
       /\ ~(b /\ e) /\ ~(c /\ d) /\ ~(c /\ e) /\ ~(d /\ e)
  BY <1>9, StagesExclude DEF Exclusive
<1> QED
  BY <1>8, <1>9, <1>10, <1>b, OneArm, Zenon

(* tk comes no further.                                                    *)
SamePlace(tk) ==
  /\ Seen(tk)' <=> Seen(tk)
  /\ Live(tk)' <=> Live(tk)
  /\ Runs(tk)' <=> Runs(tk)
  /\ SaidDone(tk)' <=> SaidDone(tk)
  /\ SaidFailed(tk)' <=> SaidFailed(tk)
  /\ UndoOf(tk)' = "none" <=> UndoOf(tk) = "none"

LEMMA StageStays ==
  ASSUME StageFacts, StageFacts', NEW tk \in TokenIds, SamePlace(tk)
  PROVE  Stage(tk)' = Stage(tk)
BY DEF StageFacts, SamePlace

(* What can be undone, without the sets.                                   *)
Undoable(i, x) ==
  x \in DOMAIN txns /\ txns[x].state = "committed" /\ txns[x].tok = i /\ txns[x].saves # <<>>

UndoFacts ==
  \A i : UndoOf(i) = IF ~\E x : Undoable(i, x) THEN "none"
                     ELSE IF \E x : Undoable(i, x) /\ ActiveSavepoints(x) # {}
                          THEN "ready" ELSE "used"

LEMMA UndoIs == UndoFacts
BY DEF UndoFacts, UndoOf, CommittedFor, Undoable

LEMMA UndoStays ==
  ASSUME NEW i,
         \A x : Undoable(i, x)' <=> Undoable(i, x),
         \A x : Undoable(i, x) => (ActiveSavepoints(x)' = {} <=> ActiveSavepoints(x) = {}),
         UndoFacts, UndoFacts'
  PROVE  UndoOf(i)' = UndoOf(i)
BY DEF UndoFacts

StagesStay(S) == \A tk \in S : Stage(tk)' = Stage(tk)
UndosStay(S)  == \A i \in S : UndoOf(i)' = UndoOf(i)

LEMMA MoveIs ==
  ASSUME NEW i \in TokenIds, NEW from, NEW to, Stage(i) = from, Stage(i)' = to,
         StagesStay(TokenIds \ {i})
  PROVE  Ledger!Move(i, from, to)
BY DEF Ledger!Move, StagesStay

(* What holds before a step and after it.                                  *)
LEMMA FactsBefore == PipelineInv => StageFacts /\ Exclusive /\ UndoFacts
BY StageIs, StagesExclude, UndoIs

LEMMA FactsAfter == PipelineInv' => (StageFacts /\ Exclusive /\ UndoFacts)'
BY FactsBefore, PTL

Facts == StageFacts /\ Exclusive /\ UndoFacts

(* What is shown or in progress cannot be undone yet.                      *)
LEMMA NoUndoYet ==
  ASSUME PipelineInv, Facts, NEW tk, Live(tk) \/ (tk # 0 /\ Runs(tk))
  PROVE  UndoOf(tk) = "none"
<1>1. ASSUME NEW x, Undoable(tk, x) PROVE FALSE
  <2>1. CASE Live(tk)
    BY <1>1, <2>1 DEF Undoable, Live, PipelineInv, UndoInv, TransactionsAreOwn
  <2>2. CASE tk # 0 /\ Runs(tk)
    <3>1. PICK t \in Tasks : task[t].tok = tk
      BY <2>2 DEF Runs
    <3>2. task[t].pc \in {"dash_lock"} \cup Transacting \cup Restoring
      BY <2>2, <3>1, AtWork DEF PipelineInv, UndoInv, TransactionsMatch, CallMatches
    <3> QED
      BY <1>1, <3>1, <3>2
         DEF Undoable, PipelineInv, UndoInv, TransactionsMatch, CallMatches, TransactionsAreOwn
  <2> QED
    BY <2>1, <2>2
<1> QED
  BY <1>1 DEF Facts, UndoFacts

(* What becomes of the parts of a stage.                                   *)
LEMMA SpendsTokens ==
  ASSUME NEW tk, Spends(tk)
  PROVE  /\ \A i : Seen(i)' <=> Seen(i)
         /\ \A i : i # tk => (Live(i)' <=> Live(i))
         /\ Seen(tk) /\ Live(tk) /\ ~Live(tk)'
BY DEF Spends, Seen, Live

LEMMA ReportsAudit ==
  ASSUME NEW tk, NEW ok \in BOOLEAN, Reports(tk, ok)
  PROVE  /\ \A i : i # tk => (SaidDone(i)' <=> SaidDone(i)) /\ (SaidFailed(i)' <=> SaidFailed(i))
         /\ ok => SaidDone(tk)'
         /\ ~ok => SaidFailed(tk)'
<1>1. PICK n : /\ n \notin DOMAIN audit /\ DOMAIN audit' = DOMAIN audit \cup {n}
               /\ audit'[n].tok = tk /\ audit'[n].ok = ok
               /\ \A i \in DOMAIN audit : audit'[i] = audit[i]
  BY DEF Reports
<1> QED
  BY <1>1 DEF SaidDone, SaidFailed

LEMMA AuditStays ==
  ASSUME UNCHANGED audit
  PROVE  \A i : (SaidDone(i)' <=> SaidDone(i)) /\ (SaidFailed(i)' <=> SaidFailed(i))
BY DEF SaidDone, SaidFailed

LEMMA TokensStay ==
  ASSUME UNCHANGED tokens
  PROVE  \A i : (Seen(i)' <=> Seen(i)) /\ (Live(i)' <=> Live(i))
BY DEF Seen, Live

LEMMA OthersRun ==
  ASSUME NEW t \in Tasks, OthersStay(t)
  PROVE  \A i : i # task[t].tok /\ i # task'[t].tok => (Runs(i)' <=> Runs(i))
BY DEF OthersStay, Runs

LEMMA SameTokensRun ==
  ASSUME \A t \in Tasks : task'[t].tok = task[t].tok
  PROVE  \A i : Runs(i)' <=> Runs(i)
BY DEF Runs

LEMMA ZeroNeverRuns == 0 \notin TokenIds
BY ContextAssumption DEF TokenIds

(* Only x changes, and neither before nor after is it one to undo.         *)
LEMMA UndoElsewhere ==
  ASSUME UndoFacts, UndoFacts', NEW x, OtherTxnsStay(x), NEW i, ~Undoable(i, x), ~Undoable(i, x)'
  PROVE  UndoOf(i)' = UndoOf(i)
<1>1. \A y : Undoable(i, y)' <=> Undoable(i, y)
  <2> TAKE y
  <2>1. CASE y = x
    BY <2>1
  <2>2. CASE y # x
    BY <2>2 DEF Undoable, OtherTxnsStay
  <2> QED
    BY <2>1, <2>2
<1>2. \A y : Undoable(i, y) => (ActiveSavepoints(y)' = {} <=> ActiveSavepoints(y) = {})
  BY DEF Undoable, OtherTxnsStay, ActiveSavepoints
<1> QED
  BY <1>1, <1>2, UndoStays

LEMMA UndosStayWithTxns ==
  ASSUME UndoFacts, UndoFacts', UNCHANGED txns
  PROVE  UndosStay(TokenIds)
<1>1. ASSUME NEW i PROVE UndoOf(i)' = UndoOf(i)
  BY UndoStays DEF Undoable, ActiveSavepoints
<1> QED
  BY <1>1 DEF UndosStay

LEMMA UndosStayOpen ==
  ASSUME UndoFacts, UndoFacts', NEW x, OtherTxnsStay(x),
         x \in DOMAIN txns => txns[x].state # "committed",
         x \in DOMAIN txns' => txns'[x].state # "committed"
  PROVE  UndosStay(TokenIds)
<1>1. ASSUME NEW i PROVE ~Undoable(i, x) /\ ~Undoable(i, x)'
  BY DEF Undoable
<1> QED
  BY <1>1, UndoElsewhere DEF UndosStay

(* The state functions of the contract.                                    *)
LEMMA UndoUnchanged ==
  ASSUME UndosStay(TokenIds)
  PROVE  UNCHANGED [tk \in TokenIds |-> UndoOf(tk)]
BY DEF UndosStay

LEMMA StageUnchanged ==
  ASSUME StagesStay(TokenIds)
  PROVE  UNCHANGED [tk \in TokenIds |-> Stage(tk)]
BY DEF StagesStay

(* A step of one stage of one change, that disturbs no undo.               *)
LEMMA StepIs ==
  ASSUME NEW i \in TokenIds, NEW from, NEW to, Stage(i) = from, Stage(i)' = to,
         StagesStay(TokenIds \ {i}), UndosStay(TokenIds),
         \/ from = "unseen"  /\ to = "shown"
         \/ from = "shown"   /\ to \in {"running", "dropped", "applied"}
         \/ from = "running" /\ to \in {"failed", "dropped"}
  PROVE  Ledger!Next
<1>1. Ledger!Move(i, from, to) /\ UNCHANGED [tk \in TokenIds |-> UndoOf(tk)]
  BY MoveIs, UndoUnchanged
<1> QED
  BY <1>1 DEF Ledger!Next, Ledger!Show, Ledger!Run, Ledger!Drop, Ledger!Fail, Ledger!ApplyAtOnce

(* Nothing that the contract sees.                                         *)
LEMMA StutterIs ==
  ASSUME StageFacts, StageFacts', \A tk \in TokenIds : SamePlace(tk), UndosStay(TokenIds)
  PROVE  UNCHANGED <<[tk \in TokenIds |-> Stage(tk)], [tk \in TokenIds |-> UndoOf(tk)]>>
<1>1. StagesStay(TokenIds)
  BY StageStays DEF StagesStay
<1> QED
  BY <1>1, StageUnchanged, UndoUnchanged

-----------------------------------------------------------------------------
(* Each kind of step is a step of the contract, or none that it sees.      *)
KeepsPromise ==
  \/ Ledger!Next
  \/ UNCHANGED <<[tk \in TokenIds |-> Stage(tk)], [tk \in TokenIds |-> UndoOf(tk)]>>

LEMMA ShowsKeeps ==
  ASSUME PipelineInv, Facts, Facts', Shows PROVE KeepsPromise
<1>1. PICK tk \in TokenIds : Issues(tk)
  BY DEF Shows
<1>2. UNCHANGED <<txns, audit, task>>
  BY DEF Shows
<1>3. \A i : i # tk => (Seen(i)' <=> Seen(i)) /\ (Live(i)' <=> Live(i))
  BY <1>1 DEF Issues, Seen, Live
<1>4. ~Seen(tk) /\ Live(tk)'
  BY <1>1 DEF Issues, Seen, Live
<1>5. \A i : Runs(i)' <=> Runs(i)
  BY <1>2 DEF Runs
<1>8. UndosStay(TokenIds)
  BY <1>2, UndosStayWithTxns DEF Facts
<1>6. StagesStay(TokenIds \ {tk})
  BY <1>2, <1>3, <1>5, <1>8, AuditStays, StageStays DEF StagesStay, UndosStay, SamePlace, Facts
<1>7. Stage(tk) = "unseen" /\ Stage(tk)' = "shown"
  BY <1>4 DEF Facts, StageFacts
<1> QED
  BY <1>6, <1>7, <1>8, StepIs DEF KeepsPromise

(* The call at work is under the same token before and after.              *)
LEMMA SameCallKeeps ==
  ASSUME Facts, Facts', UNCHANGED <<tokens, audit>>,
         \A t \in Tasks : task'[t].tok = task[t].tok, UndosStay(TokenIds)
  PROVE  KeepsPromise
<1>1. \A tk \in TokenIds : SamePlace(tk)
  BY SameTokensRun, TokensStay, AuditStays DEF SamePlace, UndosStay
<1> QED
  BY <1>1, StutterIs DEF Facts, KeepsPromise

LEMMA WorksKeeps ==
  ASSUME Facts, Facts', Works PROVE KeepsPromise
<1>1. UndosStay(TokenIds)
  BY UndosStayWithTxns DEF Facts, Works, KeepsTables
<1> QED
  BY <1>1, SameCallKeeps DEF Works, KeepsTables, GoesOn

LEMMA EntersKeeps ==
  ASSUME PipelineInv, Facts, Facts', NEW t \in Tasks, Enters(t) PROVE KeepsPromise
<1>1. UndosStay(TokenIds)
  BY UndosStayWithTxns DEF Facts, Enters, KeepsTables
<1>2. task[t].tok = 0
  BY DEF Enters, PipelineInv, UndoInv, TransactionsMatch, CallMatches
<1> QED
  BY <1>1, <1>2, SameCallKeeps DEF Enters, KeepsTables, OthersStay

LEMMA LocksKeeps ==
  ASSUME Facts, Facts', NEW t \in Tasks, Locks(t) PROVE KeepsPromise
<1>1. PICK x : x = task'[t].txn
  OBVIOUS
<1>2. /\ OtherTxnsStay(x) /\ x \notin DOMAIN txns /\ txns'[x].state = "open"
      /\ task'[t].tok = task[t].tok
  BY <1>1 DEF Locks, Opens
<1>3. UndosStay(TokenIds)
  BY <1>2, UndosStayOpen DEF Facts
<1> QED
  BY <1>2, <1>3, SameCallKeeps DEF Locks, OthersStay

LEMMA RecordsKeeps ==
  ASSUME PipelineInv, Facts, Facts', NEW t \in Tasks, Records(t) PROVE KeepsPromise
<1>1. PICK x : x = task[t].txn
  OBVIOUS
<1>2. /\ OtherTxnsStay(x) /\ txns'[x].state = txns[x].state
      /\ task'[t].tok = task[t].tok
  BY <1>1 DEF Records, GoesOn
<1>3. txns[x].state = "open"
  BY <1>1 DEF Records, PipelineInv, UndoInv, TransactionsMatch, CallMatches
<1>4. UndosStay(TokenIds)
  BY <1>2, <1>3, UndosStayOpen DEF Facts
<1> QED
  BY <1>2, <1>4, SameCallKeeps DEF Records, OthersStay

(* A token is claimed, and tk runs or not.                                 *)
LEMMA SpendsStages ==
  ASSUME PipelineInv, Facts, Facts', NEW tk, Spends(tk), UNCHANGED audit,
         \A i \in TokenIds : UndoOf(i)' = "none" <=> UndoOf(i) = "none",
         \A i \in TokenIds : i # tk => (Runs(i)' <=> Runs(i))
  PROVE  /\ StagesStay(TokenIds \ {tk})
         /\ tk \in TokenIds => /\ Stage(tk) = "shown"
                               /\ Runs(tk)' => Stage(tk)' = "running"
                               /\ ~Runs(tk)' => Stage(tk)' = "dropped"
<1>1. StagesStay(TokenIds \ {tk})
  BY SpendsTokens, AuditStays, StageStays DEF StagesStay, SamePlace, Facts
<1>2. ASSUME tk \in TokenIds
      PROVE  /\ Stage(tk) = "shown"
             /\ Runs(tk)' => Stage(tk)' = "running"
             /\ ~Runs(tk)' => Stage(tk)' = "dropped"
  <2>1. /\ Live(tk) /\ ~Live(tk)' /\ Seen(tk)'
        /\ ~SaidDone(tk)' /\ ~SaidFailed(tk)'
        /\ UndoOf(tk)' = "none"
    BY <1>2, SpendsTokens, AuditStays, NoUndoYet DEF Facts, Exclusive
  <2> QED
    BY <1>2, <2>1 DEF Facts, StageFacts
<1> QED
  BY <1>1, <1>2

LEMMA WastesKeeps ==
  ASSUME PipelineInv, Facts, Facts', NEW tk \in TokenIds, Wastes(tk) PROVE KeepsPromise
<1>1. \A t \in Tasks : task'[t].tok = task[t].tok
  BY DEF Wastes, OthersStay, Idle, PipelineInv, UndoInv, TransactionsMatch, CallMatches
<1>2. \A i : Runs(i)' <=> Runs(i)
  BY <1>1, SameTokensRun
<1>3. Spends(tk) /\ UNCHANGED <<txns, audit>>
  BY DEF Wastes
<1>4. ~Runs(tk)
  BY <1>3, SpendsTokens DEF Facts, Exclusive
<1>5. UndosStay(TokenIds)
  BY <1>3, UndosStayWithTxns DEF Facts
<1> QED
  BY <1>2, <1>3, <1>4, <1>5, SpendsStages, StepIs DEF KeepsPromise, UndosStay

LEMMA QueuesKeeps ==
  ASSUME PipelineInv, Facts, Facts', NEW t \in Tasks, NEW tk \in TokenIds, Queues(t, tk)
  PROVE  KeepsPromise
<1>1. task[t].tok = 0 /\ task'[t].tok = tk /\ OthersStay(t)
  BY DEF Queues, PipelineInv, UndoInv, TransactionsMatch, CallMatches
<1>2. Runs(tk)'
  BY <1>1 DEF Runs
<1>3. \A i \in TokenIds : i # tk => (Runs(i)' <=> Runs(i))
  BY <1>1, OthersRun, ZeroNeverRuns
<1>4. Spends(tk) /\ UNCHANGED <<txns, audit>>
  BY DEF Queues
<1>5. UndosStay(TokenIds)
  BY <1>4, UndosStayWithTxns DEF Facts
<1> QED
  BY <1>2, <1>3, <1>4, <1>5, SpendsStages, StepIs DEF KeepsPromise, UndosStay

LEMMA BeginsKeeps ==
  ASSUME PipelineInv, Facts, Facts', NEW t \in Tasks, NEW tk \in TokenIds, Begins(t, tk)
  PROVE  KeepsPromise
<1>1. PICK x : x = task'[t].txn
  OBVIOUS
<1>2. /\ OtherTxnsStay(x) /\ x \notin DOMAIN txns /\ txns'[x].state = "open"
      /\ task'[t].tok = tk /\ task[t].tok = 0 /\ OthersStay(t)
      /\ Spends(tk) /\ UNCHANGED audit
  BY <1>1 DEF Begins, Opens, PipelineInv, UndoInv, TransactionsMatch, CallMatches
<1>3. Runs(tk)'
  BY <1>2 DEF Runs
<1>4. \A i \in TokenIds : i # tk => (Runs(i)' <=> Runs(i))
  BY <1>2, OthersRun, ZeroNeverRuns
<1>5. UndosStay(TokenIds)
  BY <1>2, UndosStayOpen DEF Facts
<1> QED
  BY <1>2, <1>3, <1>4, <1>5, SpendsStages, StepIs DEF KeepsPromise, UndosStay

LEMMA DoneKeeps ==
  ASSUME Facts, Facts', NEW tk \in TokenIds, DoneAtOnce(tk) PROVE KeepsPromise
<1>1. Spends(tk) /\ Reports(tk, TRUE) /\ UNCHANGED <<txns, task>>
  BY DEF DoneAtOnce
<1>2. \A i : Runs(i)' <=> Runs(i)
  BY <1>1 DEF Runs
<1>5. UndosStay(TokenIds)
  BY <1>1, UndosStayWithTxns DEF Facts
<1>3. StagesStay(TokenIds \ {tk})
  BY <1>1, <1>2, <1>5, SpendsTokens, ReportsAudit, StageStays
     DEF StagesStay, UndosStay, SamePlace, Facts
<1>4. Stage(tk) = "shown" /\ Stage(tk)' = "applied"
  BY <1>1, SpendsTokens, ReportsAudit DEF Facts, StageFacts
<1> QED
  BY <1>3, <1>4, <1>5, StepIs DEF KeepsPromise

LEMMA SeenIsToken ==
  ASSUME PipelineInv, NEW tk \in DOMAIN tokens
  PROVE  tk \in TokenIds
<1>1. tokens \in Seq(Tokens) /\ Len(tokens) <= MaxTokens
  BY DEF PipelineInv, TypeInv, TypeOK, WellFormed
<1> QED
  BY <1>1, SeqIsFun, ContextAssumption DEF TokenIds

(* A call ends, and nothing runs under its token any more.                 *)
LEMMA EndStopsToken ==
  ASSUME PipelineInv, NEW t \in Tasks, OthersStay(t), task'[t] = Idle,
         NEW tk, tk = task[t].tok
  PROVE  /\ \A i \in TokenIds : i # tk => (Runs(i)' <=> Runs(i))
         /\ tk \in TokenIds => Runs(tk) /\ ~Runs(tk)'
<1>1. \A i \in TokenIds : i # tk => (Runs(i)' <=> Runs(i))
  BY OthersRun, ZeroNeverRuns DEF Idle
<1>2. ASSUME tk \in TokenIds
      PROVE  Runs(tk) /\ ~Runs(tk)'
  <2>1. \A u \in Tasks \ {t} : task[u].tok # tk
    BY <1>2, ZeroNeverRuns DEF PipelineInv, TokenInv, TokenDrivesOneCall
  <2> QED
    BY <1>2, <2>1, ZeroNeverRuns DEF Runs, OthersStay, Idle
<1> QED
  BY <1>1, <1>2

LEMMA QuitsKeeps ==
  ASSUME PipelineInv, Facts, Facts', NEW t \in Tasks, Quits(t) PROVE KeepsPromise
<1>1. UNCHANGED <<tokens, txns, audit>> /\ OthersStay(t) /\ task'[t] = Idle
  BY DEF Quits, KeepsTables
<1>2. UndosStay(TokenIds)
  BY <1>1, UndosStayWithTxns DEF Facts
<1>3. CASE task[t].tok = 0
  BY <1>1, <1>2, <1>3, SameCallKeeps DEF OthersStay, Idle
<1>4. CASE task[t].tok # 0
  <2>1. PICK tk : tk = task[t].tok
    OBVIOUS
  <2>2. tk \in TokenIds
    BY <1>4, <2>1, SeenIsToken DEF PipelineInv, TokenInv, SpentTokens
  <2>3. StagesStay(TokenIds \ {tk})
    BY <1>1, <1>2, <2>1, EndStopsToken, TokensStay, AuditStays, StageStays
       DEF StagesStay, UndosStay, SamePlace, Facts
  <2>4. Runs(tk) /\ ~Runs(tk)'
    BY <1>1, <2>1, <2>2, EndStopsToken
  <2>5. /\ Seen(tk)' /\ ~Live(tk)' /\ ~SaidDone(tk)' /\ ~SaidFailed(tk)'
        /\ UndoOf(tk)' = "none"
    <3>1. UndoOf(tk) = "none"
      BY <1>4, <2>1, <2>4, NoUndoYet
    <3> QED
      BY <1>1, <1>2, <2>2, <2>4, <3>1, TokensStay, AuditStays DEF Facts, Exclusive, UndosStay
  <2>6. Stage(tk) = "running" /\ Stage(tk)' = "dropped"
    BY <2>2, <2>4, <2>5 DEF Facts, StageFacts
  <2> QED
    BY <1>2, <2>2, <2>3, <2>6, StepIs DEF KeepsPromise
<1> QED
  BY <1>3, <1>4

LEMMA ForgetsKeeps ==
  ASSUME PipelineInv, Facts, Facts', Forgets PROVE KeepsPromise
<1>1. \A tk \in TokenIds :
        /\ Seen(tk)' <=> Seen(tk)
        /\ ~Live(tk)'
        /\ ~Runs(tk)'
        /\ SaidDone(tk)' <=> SaidDone(tk)
        /\ SaidFailed(tk)' <=> SaidFailed(tk)
  BY ZeroNeverRuns, AuditStays DEF Forgets, Seen, Live, Runs, Idle
<1>2. \A i : UndoOf(i)' = "none"
  <2>1. \A i, x : ~Undoable(i, x)'
    BY DEF Forgets, Undoable
  <2> QED
    BY <2>1 DEF Facts, UndoFacts
<1>3. \A tk \in TokenIds :
        Stage(tk)' = IF Stage(tk) \in Ledger!Forgotten THEN "dropped" ELSE Stage(tk)
  <2> TAKE tk \in TokenIds
  <2>1. CASE Live(tk) \/ Runs(tk)
    BY <1>1, <1>2, <2>1 DEF Facts, StageFacts, Exclusive, Ledger!Forgotten
  <2>2. CASE ~Seen(tk) \/ SaidDone(tk) \/ SaidFailed(tk)
    BY <1>1, <2>2 DEF Facts, StageFacts, Ledger!Forgotten
  <2>3. CASE Seen(tk) /\ ~Live(tk) /\ ~Runs(tk) /\ ~SaidDone(tk) /\ ~SaidFailed(tk)
    BY <1>1, <1>2, <2>3 DEF Facts, StageFacts, Ledger!Forgotten
  <2> QED
    BY <2>1, <2>2, <2>3
<1>4. Ledger!Crash
  BY <1>2, <1>3 DEF Ledger!Crash
<1> QED
  BY <1>4 DEF KeepsPromise, Ledger!Next

LEMMA NoDomain ==
  ASSUME NEW S, NEW s \in Seq(S), DOMAIN s = {} PROVE s = <<>>
OBVIOUS

LEMMA SavesAreSeq ==
  ASSUME TypeInv, NEW x \in DOMAIN txns PROVE txns[x].saves \in Seq(Savepoints)
<1>1. txns \in Seq(Txns)
  BY DEF TypeInv, TypeOK
<1>2. txns[x] \in Txns
  BY <1>1, SeqIsFun
<1> QED
  BY <1>2 DEF Txns

LEMMA SavesAfter ==
  ASSUME TypeInv', NEW x, x \in DOMAIN txns' PROVE txns'[x].saves \in Seq(Savepoints)
<1>1. txns' \in Seq(Txns)
  BY DEF TypeInv, TypeOK
<1>2. txns'[x] \in Txns
  BY <1>1, SeqIsFun
<1> QED
  BY <1>2 DEF Txns

LEMMA ApplyIs ==
  ASSUME NEW i \in TokenIds, Stage(i) = "running", Stage(i)' = "applied",
         StagesStay(TokenIds \ {i}), UndosStay(TokenIds \ {i}),
         UndoOf(i)' \in {"none", "ready"}
  PROVE  Ledger!Next
<1>1. Ledger!Move(i, "running", "applied")
  BY MoveIs
<1>2. [tk \in TokenIds |-> UndoOf(tk)]'
        = [[tk \in TokenIds |-> UndoOf(tk)] EXCEPT ![i] = UndoOf(i)']
  BY DEF UndosStay
<1>3. Ledger!Apply(i)
  BY <1>1, <1>2 DEF Ledger!Apply
<1> QED
  BY <1>3 DEF Ledger!Next

LEMMA SilenceIs ==
  ASSUME NEW i \in TokenIds, Stage(i) = "running", Stage(i)' = "unreported",
         StagesStay(TokenIds \ {i}), UndosStay(TokenIds \ {i}), UndoOf(i)' = "ready"
  PROVE  Ledger!Next
<1>1. Ledger!Move(i, "running", "unreported")
  BY MoveIs
<1>2. [tk \in TokenIds |-> UndoOf(tk)]'
        = [[tk \in TokenIds |-> UndoOf(tk)] EXCEPT ![i] = "ready"]
  BY DEF UndosStay
<1>3. Ledger!Silence(i)
  BY <1>1, <1>2 DEF Ledger!Silence
<1> QED
  BY <1>3 DEF Ledger!Next

(* What a call's token could be undone by: its own transaction alone.      *)
LEMMA EndsUndo ==
  ASSUME PipelineInv, PipelineInv', Facts, Facts', NEW t \in Tasks, NEW ok \in BOOLEAN, Ends(t, ok),
         NEW tk, tk = task[t].tok
  PROVE  /\ UndosStay(TokenIds \ {tk})
         /\ UndoOf(tk)' \in {"none", "ready"}
         /\ ~ok => UndoOf(tk)' = UndoOf(tk)
<1>0. Transacting \cap Restoring = {}
  BY DEF Transacting, Restoring
<1>1. CASE task[t].pc \in Restoring
  <2>1. UNCHANGED txns
    BY <1>0, <1>1 DEF Ends
  <2>2. \A x : ~Undoable(tk, x)
    BY <1>1 DEF Undoable, PipelineInv, UndoInv, TransactionsAreOwn
  <2>3. UndoOf(tk) = "none" /\ UndoOf(tk)' = UndoOf(tk)
    <3>1. \A x : Undoable(tk, x)' <=> Undoable(tk, x)
      BY <2>1 DEF Undoable
    <3> QED
      BY <2>2, <3>1 DEF Facts, UndoFacts
  <2>4. UndosStay(TokenIds \ {tk})
    BY <2>1, UndosStayWithTxns DEF Facts, UndosStay
  <2> QED
    BY <2>3, <2>4
<1>2. CASE task[t].pc \in Transacting
  <2>1. PICK x : x = task[t].txn
    OBVIOUS
  <2>2. /\ x \in DOMAIN txns /\ txns[x].state = "open" /\ txns[x].tok = tk
        /\ \A y \in DOMAIN txns : txns[y].tok = tk => y = x
        /\ ActiveSavepoints(x) = DOMAIN txns[x].saves
    BY <1>2, <2>1 DEF PipelineInv, UndoInv, TransactionsMatch, CallMatches, TransactionsAreOwn
  <2>3. /\ OtherTxnsStay(x)
        /\ txns'[x].state = IF ok THEN "committed" ELSE "gone"
        /\ txns'[x].tok = tk /\ txns'[x].saves = txns[x].saves
    BY <1>0, <1>2, <2>1, <2>2 DEF Ends
  <2>4. UndosStay(TokenIds \ {tk})
    <3>1. ASSUME NEW i \in TokenIds \ {tk} PROVE ~Undoable(i, x) /\ ~Undoable(i, x)'
      BY <2>2, <2>3 DEF Undoable
    <3> QED
      BY <2>3, <3>1, UndoElsewhere DEF UndosStay, Facts
  <2>5. UndoOf(tk) = "none"
    <3>1. \A y : ~Undoable(tk, y)
      BY <2>2 DEF Undoable
    <3> QED
      BY <3>1 DEF Facts, UndoFacts
  <2>6. \A y : Undoable(tk, y)' => y = x /\ ok
    BY <2>2, <2>3 DEF Undoable, OtherTxnsStay
  <2>7. UndoOf(tk)' \in {"none", "ready"}
    <3>1. Undoable(tk, x)' => ActiveSavepoints(x)' # {}
      <4>1. txns[x].saves \in Seq(Savepoints)
        BY <2>2, SavesAreSeq DEF PipelineInv
      <4>2. ActiveSavepoints(x)' = ActiveSavepoints(x)
        BY <2>3 DEF ActiveSavepoints
      <4> QED
        BY <2>2, <2>3, <4>1, <4>2, NoDomain DEF Undoable
    <3> QED
      BY <2>6, <3>1 DEF Facts, UndoFacts
  <2>8. ~ok => UndoOf(tk)' = "none"
    BY <2>6 DEF Facts, UndoFacts
  <2> QED
    BY <2>4, <2>5, <2>7, <2>8
<1> QED
  BY <1>1, <1>2 DEF Ends

LEMMA EndsKeeps ==
  ASSUME PipelineInv, PipelineInv', Facts, Facts', NEW t \in Tasks, NEW ok \in BOOLEAN, Ends(t, ok)
  PROVE  KeepsPromise
<1>0. PICK tk : tk = task[t].tok
  OBVIOUS
<1>1. UNCHANGED tokens /\ OthersStay(t) /\ task'[t] = Idle
  BY DEF Ends
<1>2. tk \in TokenIds
  <2>1. task[t].pc \in Restoring \cup Transacting
    BY DEF Ends
  <2> QED
    BY <1>0, <2>1, AtWork, SeenIsToken DEF PipelineInv, Restoring, Transacting
<1>3. /\ UndosStay(TokenIds \ {tk})
      /\ UndoOf(tk)' \in {"none", "ready"}
      /\ ~ok => UndoOf(tk)' = UndoOf(tk)
  BY <1>0, EndsUndo
<1>4. CASE Reports(tk, ok)
  <2>1. StagesStay(TokenIds \ {tk})
    BY <1>0, <1>1, <1>3, <1>4, EndStopsToken, TokensStay, ReportsAudit, StageStays
       DEF StagesStay, UndosStay, SamePlace, Facts
  <2>2. Stage(tk) = "running" /\ Stage(tk)' = IF ok THEN "applied" ELSE "failed"
    BY <1>0, <1>1, <1>2, <1>4, EndStopsToken, ReportsAudit DEF Facts, StageFacts
  <2>3. CASE ok
    BY <1>2, <1>3, <2>1, <2>2, <2>3, ApplyIs DEF KeepsPromise
  <2>4. CASE ~ok
    <3>1. UndosStay(TokenIds)
      BY <1>3, <2>4 DEF UndosStay
    <3> QED
      BY <1>2, <2>1, <2>2, <2>4, <3>1, StepIs DEF KeepsPromise
  <2> QED
    BY <2>3, <2>4
<1>5. CASE UNCHANGED audit
  <2>1. StagesStay(TokenIds \ {tk})
    BY <1>0, <1>1, <1>3, <1>5, EndStopsToken, TokensStay, AuditStays, StageStays
       DEF StagesStay, UndosStay, SamePlace, Facts
  <2>2. Runs(tk) /\ ~Runs(tk)'
    BY <1>0, <1>1, <1>2, EndStopsToken
  <2>3. /\ Seen(tk)' /\ ~Live(tk)' /\ ~SaidDone(tk)' /\ ~SaidFailed(tk)'
    BY <1>1, <1>2, <1>5, <2>2, TokensStay, AuditStays DEF Facts, Exclusive
  <2>4. /\ Stage(tk) = "running"
        /\ Stage(tk)' = IF UndoOf(tk)' = "none" THEN "dropped" ELSE "unreported"
    BY <1>2, <2>2, <2>3 DEF Facts, StageFacts
  <2>5. CASE UndoOf(tk)' = "ready"
    BY <1>2, <1>3, <2>1, <2>4, <2>5, SilenceIs DEF KeepsPromise
  <2>6. CASE UndoOf(tk)' = "none"
    <3>1. UndoOf(tk) = "none"
      BY <1>2, <2>2, NoUndoYet, ZeroNeverRuns
    <3>2. UndosStay(TokenIds)
      BY <1>3, <2>6, <3>1 DEF UndosStay
    <3> QED
      BY <1>2, <2>1, <2>4, <2>6, <3>2, StepIs DEF KeepsPromise
  <2> QED
    BY <1>3, <2>5, <2>6
<1> QED
  BY <1>0, <1>4, <1>5 DEF Ends

LEMMA UndoingIs ==
  ASSUME NEW i \in TokenIds, NEW j \in TokenIds, Stage(j) = "shown", Stage(j)' = "running",
         StagesStay(TokenIds \ {j}), UndosStay(TokenIds \ {i}),
         UndoOf(i) = "ready", UndoOf(i)' = "used"
  PROVE  Ledger!Next
<1>1. Ledger!Move(j, "shown", "running")
  BY MoveIs
<1>2. [tk \in TokenIds |-> UndoOf(tk)]'
        = [[tk \in TokenIds |-> UndoOf(tk)] EXCEPT ![i] = "used"]
  BY DEF UndosStay
<1>3. Ledger!Undo(i, j)
  BY <1>1, <1>2 DEF Ledger!Undo
<1> QED
  BY <1>3 DEF Ledger!Next

LEMMA UndoesKeeps ==
  ASSUME PipelineInv, PipelineInv', Facts, Facts', NEW t \in Tasks, NEW tk \in TokenIds, Undoes(t, tk)
  PROVE  KeepsPromise
<1>0. PICK x : x = task[t].txn
  OBVIOUS
<1>1. /\ x \in DOMAIN txns /\ DOMAIN txns' = DOMAIN txns
      /\ task[t].tok = 0 /\ task'[t].tok = tk /\ OthersStay(t)
  <2>1. x \in DOMAIN txns /\ task[t].tok = 0
    BY <1>0 DEF Undoes, PipelineInv, UndoInv, TransactionsMatch, CallMatches, RollingBack
  <2>2. task'[t].tok = tk /\ OthersStay(t) /\ OtherTxnsStay(x)
    BY <1>0 DEF Undoes
  <2> QED
    BY <2>1, <2>2 DEF OtherTxnsStay
<1>2. /\ OtherTxnsStay(x) /\ Spends(tk) /\ UNCHANGED audit
      /\ txns'[x].state = txns[x].state /\ txns'[x].tok = txns[x].tok
      /\ DOMAIN txns'[x].saves = DOMAIN txns[x].saves
      /\ txns[x].state = "committed"
  BY <1>0 DEF Undoes, PipelineInv, UndoInv, TransactionsMatch, CallMatches, RollingBack
<1>3. ActiveSavepoints(x)' = {}
  BY <1>0 DEF Undoes, ActiveSavepoints
<1>5. txns'[x].saves # <<>> <=> txns[x].saves # <<>>
  <2>1. txns[x].saves \in Seq(Savepoints)
    BY <1>1, SavesAreSeq DEF PipelineInv
  <2>2. txns'[x].saves \in Seq(Savepoints)
    BY <1>1, SavesAfter DEF PipelineInv
  <2> QED
    BY <1>2, <2>1, <2>2, NoDomain
<1>6. \A i, y : Undoable(i, y)' <=> Undoable(i, y)
  BY <1>1, <1>2, <1>5 DEF Undoable, OtherTxnsStay
<1>4. /\ StagesStay(TokenIds \ {tk})
      /\ Stage(tk) = "shown" /\ Stage(tk)' = "running"
  <2>1. Runs(tk)'
    BY <1>1 DEF Runs
  <2>2. \A i \in TokenIds : i # tk => (Runs(i)' <=> Runs(i))
    BY <1>1, OthersRun, ZeroNeverRuns
  <2>3. \A i : UndoOf(i)' = "none" <=> UndoOf(i) = "none"
    BY <1>6 DEF Facts, UndoFacts
  <2> QED
    BY <1>2, <2>1, <2>2, <2>3, SpendsStages
<1>7. \A y \in DOMAIN txns \ {x} : ActiveSavepoints(y)' = ActiveSavepoints(y)
  BY <1>2 DEF OtherTxnsStay, ActiveSavepoints
<1>8. CASE ActiveSavepoints(x) = {}
  <2>1. UndosStay(TokenIds)
    <3>1. ASSUME NEW i PROVE UndoOf(i)' = UndoOf(i)
      <4>1. \A y : Undoable(i, y) => (ActiveSavepoints(y)' = {} <=> ActiveSavepoints(y) = {})
        BY <1>3, <1>7, <1>8 DEF Undoable
      <4> QED
        BY <1>6, <4>1, UndoStays DEF Facts
    <3> QED
      BY <3>1 DEF UndosStay
  <2> QED
    BY <1>4, <2>1, StepIs DEF KeepsPromise
<1>9. CASE ActiveSavepoints(x) # {}
  <2>0. PICK i : i = txns[x].tok
    OBVIOUS
  <2>1. /\ i \in TokenIds
        /\ \A y \in DOMAIN txns : txns[y].tok = i => y = x
    BY <1>1, <2>0, SeenIsToken DEF PipelineInv, UndoInv, TransactionsAreOwn
  <2>2. Undoable(i, x) /\ \A y : Undoable(i, y) => y = x
    <3>1. txns[x].saves # <<>>
      BY <1>9 DEF ActiveSavepoints
    <3> QED
      BY <1>1, <1>2, <2>0, <2>1, <3>1 DEF Undoable
  <2>3. UndoOf(i) = "ready" /\ UndoOf(i)' = "used"
    BY <1>3, <1>6, <1>9, <2>2 DEF Facts, UndoFacts
  <2>4. UndosStay(TokenIds \ {i})
    <3>1. ASSUME NEW j \in TokenIds \ {i} PROVE ~Undoable(j, x) /\ ~Undoable(j, x)'
      BY <1>6, <2>0 DEF Undoable
    <3> QED
      BY <1>2, <3>1, UndoElsewhere DEF UndosStay, Facts
  <2> QED
    BY <1>4, <2>1, <2>3, <2>4, UndoingIs DEF KeepsPromise
<1> QED
  BY <1>8, <1>9

LEMMA StepKeeps ==
  PipelineInv /\ PipelineInv' /\ [Next]_vars => KeepsPromise
<1> SUFFICES ASSUME PipelineInv, PipelineInv', [Next]_vars PROVE KeepsPromise
  OBVIOUS
<1>1. Facts /\ Facts'
  BY FactsBefore, FactsAfter DEF Facts
<1>2. LedgerStep
  BY EveryStepIsOne DEF PipelineInv
<1> QED
  BY <1>1, <1>2, ShowsKeeps, WorksKeeps, ForgetsKeeps, WastesKeeps, DoneKeeps, EntersKeeps,
     QuitsKeeps, LocksKeeps, RecordsKeeps, QueuesKeeps, BeginsKeeps, UndoesKeeps, EndsKeeps
     DEF LedgerStep

LEMMA InitKeeps == Init /\ PipelineInv => Ledger!Init
<1> SUFFICES ASSUME Init, PipelineInv PROVE Ledger!Init
  OBVIOUS
<1>1. txns = <<>> /\ tokens = <<>>
  BY DEF Init
<1>2. \A tk \in TokenIds : Stage(tk) = "unseen"
  BY <1>1, FactsBefore DEF StageFacts, Seen
<1>3. \A tk \in TokenIds : UndoOf(tk) = "none"
  <2>1. \A i, x : ~Undoable(i, x)
    BY <1>1 DEF Undoable
  <2> QED
    BY <2>1, FactsBefore DEF UndoFacts
<1> QED
  BY <1>2, <1>3 DEF Ledger!Init

(* The pipeline implements the contract of ChangeLedger, in every          *)
(* instance: a change is shown before it runs, runs at most once, ends at  *)
(* most one way, and is undone at most once, after it was carried out and  *)
(* before the server restarts, whether or not its log entry was written.   *)
THEOREM PipelineKeepsContract == Spec => KeepsContract
<1>1. Spec => []PipelineInv
  BY UndoInvariant, PTL DEF PipelineInv
<1> QED
  BY <1>1, StepKeeps, InitKeeps, PTL DEF Spec, KeepsContract, Ledger!Spec, KeepsPromise
=============================================================================
