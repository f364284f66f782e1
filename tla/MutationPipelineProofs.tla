----------------------- MODULE MutationPipelineProofs -----------------------
(***************************************************************************)
(* Type correctness of MutationPipeline, for any sets of files, dashboards *)
(* and tasks and any bounds.  TypeOK alone is not inductive: a call refers *)
(* to tokens, items, savepoints and backups by index, so the proof carries *)
(* WellFormed, which keeps those indices in range.  First some facts about *)
(* sequences, then what each helper does to the tables, then one lemma per *)
(* operation.  On top of it, safety: a token drives one call, the lock of  *)
(* a dashboard covers the save, a call that waits for a lock holds none,   *)
(* and no apply overwrites another unseen.                                 *)
(***************************************************************************)
EXTENDS PipelineInvariants, WellFoundedInduction, TLAPS

-----------------------------------------------------------------------------
(* Facts about sequences and finite sets of numbers.                       *)

(* A function on 1..n is a sequence of length n.                           *)
LEMMA FunIsSeq ==
  ASSUME NEW S, NEW n \in Nat, NEW g \in [1..n -> S]
  PROVE  g \in Seq(S) /\ Len(g) = n
OBVIOUS

(* A sequence is a function on 1..Len(s).                                  *)
LEMMA SeqIsFun ==
  ASSUME NEW S, NEW s \in Seq(S)
  PROVE  s \in [1..Len(s) -> S] /\ Len(s) \in Nat /\ DOMAIN s = 1..Len(s)
OBVIOUS

(* Replacing one element by one of the same set keeps a sequence one.      *)
LEMMA SeqUpdate ==
  ASSUME NEW S, NEW s \in Seq(S), NEW i, NEW v, i \in DOMAIN s => v \in S
  PROVE  /\ [s EXCEPT ![i] = v] \in Seq(S)
         /\ Len([s EXCEPT ![i] = v]) = Len(s)
<1>1. s \in [1..Len(s) -> S] /\ DOMAIN s = 1..Len(s) /\ Len(s) \in Nat
  BY SeqIsFun
<1>2. [s EXCEPT ![i] = v] \in [1..Len(s) -> S]
  BY <1>1
<1> QED
  BY <1>1, <1>2, FunIsSeq

(* What Append does.                                                       *)
LEMMA SeqAppend ==
  ASSUME NEW S, NEW s \in Seq(S), NEW v \in S
  PROVE  /\ Append(s, v) \in Seq(S)
         /\ Len(Append(s, v)) = Len(s) + 1
         /\ \A i \in DOMAIN s : Append(s, v)[i] = s[i]
         /\ Append(s, v)[Len(s) + 1] = v
         /\ DOMAIN Append(s, v) = DOMAIN s \cup {Len(s) + 1}
OBVIOUS

(* A nonempty set of positions has a last one (`pending` of a batch holds  *)
(* what the latest earlier item left).                                     *)
LEMMA MaxOfRange ==
  ASSUME NEW k \in Nat, NEW S \in SUBSET (1..k), S # {}
  PROVE  Max(S) \in S
<1> DEFINE T == {n \in Nat : k - n \in S}
<1>1. T # {} /\ T \subseteq Nat
  <2>1. PICK y \in S : TRUE
    OBVIOUS
  <2>2. k - y \in T
    BY <2>1
  <2> QED
    BY <2>2
<1>2. PICK m \in T : \A n \in T : m <= n
  <2> DEFINE R == OpToRel(<, Nat)
  <2>1. IsWellFoundedOn(R, Nat)
    BY NatLessThanWellFounded
  <2>2. \E m \in T : \A n \in T : <<n, m>> \notin R
    <3> HIDE DEF T, R
    <3> QED
      BY <1>1, <2>1, WFMin
  <2>3. \A m, n \in Nat : n < m => <<n, m>> \in R
    BY DEF OpToRel
  <2>4. PICK m \in T : \A n \in T : <<n, m>> \notin R
    BY <2>2
  <2>5. \A n \in T : m <= n
    <3> HIDE DEF R
    <3> TAKE n \in T
    <3>1. m \in Nat /\ n \in Nat /\ ~(n < m)
      <4> HIDE DEF T
      <4> QED
        BY <1>1, <2>3, <2>4
    <3> QED
      BY <3>1
  <2> QED
    BY <2>5
<1>3. \A y \in S : y <= k - m
  <2> TAKE y \in S
  <2>1. k - y \in T
    OBVIOUS
  <2> QED
    BY <2>1, <1>2
<1> QED
  BY <1>2, <1>3 DEF Max

-----------------------------------------------------------------------------

(* r has the tokens of s, with the items and the action they were issued   *)
(* with.                                                                   *)
TokensKeep(s, r) ==
  /\ DOMAIN s \subseteq DOMAIN r
  /\ \A i \in DOMAIN s : r[i].items = s[i].items /\ r[i].action = s[i].action

(* r has the transactions of s, each with its savepoints and perhaps more. *)
TxnsKeep(s, r) ==
  /\ DOMAIN s \subseteq DOMAIN r
  /\ \A i \in DOMAIN s : Len(r[i].saves) >= Len(s[i].saves)

(* What a call refers to by index only grows, so a record that fitted goes *)
(* on to fit: tokens keep their items, transactions and the manifest only  *)
(* get longer.                                                             *)
LEMMA FitsStays ==
  ASSUME NEW c \in Calls,
         NEW toks \in Seq(Tokens), NEW toks2 \in Seq(Tokens), TokensKeep(toks, toks2),
         NEW xs \in Seq(Txns), NEW xs2 \in Seq(Txns), TxnsKeep(xs, xs2),
         NEW baks \in Seq(BackupEntries), NEW baks2 \in Seq(BackupEntries),
         Len(baks2) >= Len(baks),
         CallFits(c, toks, xs, baks)
  PROVE  CallFits(c, toks2, xs2, baks2)
<1>1. \A j \in DOMAIN c.baks : c.baks[j] <= Len(baks2)
  BY SeqIsFun DEF Calls, CallFits
<1>2. c.pc \in {"rb_undo", "rb_wait"} => c.k <= Len(xs2[c.txn].saves)
  <2> SUFFICES ASSUME c.pc \in {"rb_undo", "rb_wait"}
               PROVE  c.k <= Len(xs2[c.txn].saves)
    OBVIOUS
  <2>1. c.txn \in DOMAIN xs /\ c.k <= Len(xs[c.txn].saves)
    BY DEF CallFits
  <2>2. xs[c.txn].saves \in Seq(Savepoints) /\ xs2[c.txn].saves \in Seq(Savepoints)
    <3>1. xs[c.txn] \in Txns /\ xs2[c.txn] \in Txns
      BY <2>1, SeqIsFun DEF TxnsKeep
    <3> QED
      BY <3>1 DEF Txns
  <2> QED
    BY <2>1, <2>2 DEF TxnsKeep, Calls
<1> QED
  BY <1>1, <1>2 DEF CallFits, TokensKeep, TxnsKeep, AtItem, AtDashboard

(* Claiming a token changes nothing but its state.                         *)
LEMMA ClaimEffect ==
  ASSUME TypeInv, NEW tk, ClaimToken(tk)
  PROVE  /\ tk \in DOMAIN tokens
         /\ tokens' \in Seq(Tokens) /\ Len(tokens') = Len(tokens)
         /\ TokensKeep(tokens, tokens')
         /\ DOMAIN tokens' = DOMAIN tokens
<1>1. tk \in DOMAIN tokens /\ tokens \in Seq(Tokens)
  BY DEF ClaimToken, Live, TypeInv, TypeOK
<1>2. tokens[tk] \in Tokens
  BY <1>1, SeqIsFun
<1>3. [tokens[tk] EXCEPT !.state = "spent"] \in Tokens
  BY <1>2 DEF Tokens
<1>4. tokens' = [tokens EXCEPT ![tk] = [tokens[tk] EXCEPT !.state = "spent"]]
  BY DEF ClaimToken
<1>5. tokens' \in Seq(Tokens) /\ Len(tokens') = Len(tokens)
  BY <1>1, <1>3, <1>4, SeqUpdate
<1>6. TokensKeep(tokens, tokens')
  BY <1>1, <1>2, <1>4 DEF TokensKeep, Tokens
<1> QED
  BY <1>1, <1>4, <1>5, <1>6

(* A transaction is added at the end.                                      *)
LEMMA BeginEffect ==
  ASSUME TypeInv, NEW tk \in TokenIds, NEW saves \in Seq(Savepoints), Begin(tk, saves)
  PROVE  /\ txns' \in Seq(Txns)
         /\ TxnsKeep(txns, txns')
<1>1. [state |-> "open", tok |-> tk, saves |-> saves] \in Txns
  BY DEF Txns
<1>2. txns \in Seq(Txns)
  BY DEF TypeInv, TypeOK
<1> QED
  BY <1>1, <1>2, SeqAppend, SeqIsFun DEF Begin, TxnsKeep, Txns

(* A token is added at the end, within the bound.                          *)
LEMMA CreateEffect ==
  ASSUME TypeInv, NEW act \in Actions, NEW items \in Seq(Items), NEW x \in Nat,
         CreateToken(act, items, x)
  PROVE  /\ tokens' \in Seq(Tokens) /\ Len(tokens') <= MaxTokens
         /\ TokensKeep(tokens, tokens')
         /\ tokens' = Append(tokens, [action |-> act, items |-> items, txn |-> x,
                                      state |-> "live"])
<1> DEFINE new == [action |-> act, items |-> items, txn |-> x, state |-> "live"]
<1>1. new \in Tokens
  BY DEF Tokens
<1>2. tokens \in Seq(Tokens) /\ tokens' = Append(tokens, new)
  BY DEF TypeInv, TypeOK, CreateToken
<1>3. Len(tokens) < MaxTokens /\ MaxTokens \in Nat
  BY ContextAssumption DEF CreateToken
<1> QED
  BY <1>1, <1>2, <1>3, SeqAppend, SeqIsFun DEF TokensKeep

(* Replacing a transaction by one with at least as many savepoints.        *)
LEMMA TxnUpdate ==
  ASSUME TypeInv, NEW x, NEW v,
         x \in DOMAIN txns => v \in Txns /\ Len(v.saves) >= Len(txns[x].saves),
         txns' = [txns EXCEPT ![x] = v]
  PROVE  /\ txns' \in Seq(Txns)
         /\ TxnsKeep(txns, txns')
<1>1. txns \in Seq(Txns)
  BY DEF TypeInv, TypeOK
<1>2. txns' \in Seq(Txns)
  BY <1>1, SeqUpdate
<1>3. \A i \in DOMAIN txns : Len(txns[i].saves) \in Nat
  BY <1>1, SeqIsFun DEF Txns
<1> QED
  BY <1>1, <1>2, <1>3 DEF TxnsKeep

(* commit and discard change the state of a transaction only.              *)
LEMMA SetStateEffect ==
  ASSUME TypeInv, NEW x, NEW s \in {"open", "committed", "gone"},
         txns' = [txns EXCEPT ![x].state = s]
  PROVE  txns' \in Seq(Txns) /\ TxnsKeep(txns, txns')
<1>1. txns \in Seq(Txns)
  BY DEF TypeInv, TypeOK
<1>2. x \in DOMAIN txns => txns[x] \in Txns
  BY <1>1, SeqIsFun
<1> DEFINE v == [txns[x] EXCEPT !.state = s]
<1>3. x \in DOMAIN txns => v \in Txns /\ Len(v.saves) >= Len(txns[x].saves)
  BY <1>2 DEF Txns
<1>4. txns' = [txns EXCEPT ![x] = v]
  OBVIOUS
<1> QED
  BY <1>3, <1>4, TxnUpdate

(* savepoint() makes a transaction longer.                                 *)
LEMMA AddSavepointEffect ==
  ASSUME TypeInv, NEW x, NEW sp \in Savepoints, AddSavepoint(x, sp)
  PROVE  txns' \in Seq(Txns) /\ TxnsKeep(txns, txns')
<1>1. txns \in Seq(Txns)
  BY DEF TypeInv, TypeOK
<1>2. x \in DOMAIN txns => txns[x] \in Txns
  BY <1>1, SeqIsFun
<1> DEFINE v == [txns[x] EXCEPT !.saves = Append(@, sp)]
<1>3. x \in DOMAIN txns => v \in Txns /\ Len(v.saves) >= Len(txns[x].saves)
  BY <1>2, SeqAppend DEF Txns
<1>4. txns' = [txns EXCEPT ![x] = v]
  BY DEF AddSavepoint
<1> QED
  BY <1>3, <1>4, TxnUpdate

(* Marking savepoints as undone drops none of them.                        *)
LEMMA RollbackTransactionEffect ==
  ASSUME TypeInv, NEW x, RollbackTransaction(x)
  PROVE  txns' \in Seq(Txns) /\ TxnsKeep(txns, txns')
<1>1. txns \in Seq(Txns)
  BY DEF TypeInv, TypeOK
<1>2. x \in DOMAIN txns => txns[x] \in Txns
  BY <1>1, SeqIsFun
<1> DEFINE old == txns[x].saves
           new == [i \in DOMAIN old |-> [old[i] EXCEPT !.undone = TRUE]]
           v   == [txns[x] EXCEPT !.saves = new]
<1>3. ASSUME x \in DOMAIN txns
      PROVE  new \in Seq(Savepoints) /\ Len(new) = Len(old)
  <2>1. old \in Seq(Savepoints)
    BY <1>2, <1>3 DEF Txns
  <2>2. old \in [1..Len(old) -> Savepoints] /\ DOMAIN old = 1..Len(old) /\ Len(old) \in Nat
    BY <2>1, SeqIsFun
  <2>3. new \in [1..Len(old) -> Savepoints]
    BY <2>2 DEF Savepoints
  <2> QED
    BY <2>2, <2>3, FunIsSeq
<1>4. x \in DOMAIN txns => v \in Txns /\ Len(v.saves) >= Len(txns[x].saves)
  <2> SUFFICES ASSUME x \in DOMAIN txns
               PROVE  v \in Txns /\ Len(v.saves) >= Len(txns[x].saves)
    OBVIOUS
  <2>1. Len(old) \in Nat
    BY <1>2, SeqIsFun DEF Txns
  <2> HIDE DEF new
  <2> QED
    BY <1>2, <1>3, <2>1 DEF Txns
<1>5. txns' = [txns EXCEPT ![x] = v]
  BY DEF RollbackTransaction
<1> QED
  BY <1>4, <1>5, TxnUpdate

(* A backup adds one entry to the manifest and retention, which takes      *)
(* files away, removes none of the entries that indices refer to.          *)
LEMMA BackUpEffect ==
  ASSUME TypeInv, NEW r \in Resources, NEW c \in Contents, BackUp(r, c)
  PROVE  /\ backups' \in Seq(BackupEntries)
         /\ Len(backups') = Len(backups) + 1
<1> DEFINE bs == Append(backups, [res |-> r, text |-> c, kept |-> TRUE])
<1>1. backups \in Seq(BackupEntries) /\ Len(backups) \in Nat
  BY SeqIsFun DEF TypeInv, TypeOK
<1>2. bs \in Seq(BackupEntries) /\ Len(bs) = Len(backups) + 1
  BY <1>1, SeqAppend DEF BackupEntries
<1>3. bs \in [1..Len(bs) -> BackupEntries] /\ DOMAIN bs = 1..Len(bs)
  BY <1>2, SeqIsFun
<1>4. backups' = [i \in DOMAIN bs |-> [bs[i] EXCEPT !.kept = @ /\ Retained(bs, i)]]
  BY DEF BackUp
<1>5. backups' \in [1..Len(bs) -> BackupEntries]
  <2> HIDE DEF bs
  <2>1. \A i \in 1..Len(bs) :
          [bs[i] EXCEPT !.kept = @ /\ Retained(bs, i)] \in BackupEntries
    <3> TAKE i \in 1..Len(bs)
    <3>1. bs[i] \in BackupEntries
      BY <1>3
    <3>2. (bs[i].kept /\ Retained(bs, i)) \in BOOLEAN
      OBVIOUS
    <3> DEFINE kept == bs[i].kept /\ Retained(bs, i)
    <3>3. [bs[i] EXCEPT !.kept = kept] \in BackupEntries
      <4> HIDE DEF kept
      <4>1. kept \in BOOLEAN
        BY <3>2 DEF kept
      <4> QED
        BY <3>1, <4>1 DEF BackupEntries
    <3> QED
      BY <3>3
  <2> QED
    BY <1>3, <1>4, <2>1
<1> QED
  BY <1>1, <1>2, <1>5, FunIsSeq

(* A well-typed entry keeps the log well-typed.                            *)
LEMMA LogEffect ==
  ASSUME TypeInv, NEW tk \in TokenIds, NEW ok \in BOOLEAN, NEW dirty \in BOOLEAN,
         LogOperation(tk, ok, dirty)
  PROVE  audit' \in Seq(AuditEntries)
<1>1. CASE audit' = Append(audit, [tok |-> tk, ok |-> ok, dirty |-> dirty])
  BY <1>1, SeqAppend DEF TypeInv, TypeOK, AuditEntries
<1>2. CASE UNCHANGED audit
  BY <1>2 DEF TypeInv, TypeOK
<1> QED
  BY <1>1, <1>2 DEF LogOperation

(* A write keeps the contents and the history variables well-typed.        *)
LEMMA WriteEffect ==
  ASSUME TypeInv, NEW r \in Resources, NEW c \in Contents \cup {Absent},
         NEW who \in Writers, NEW tk, Write(r, c, who, tk)
  PROVE  /\ content' \in [Resources -> Contents \cup {Absent}]
         /\ writer' \in [Resources -> Writers]
         /\ unsure' \subseteq TokenIds
<1>1. Bystanders(r, tk) \subseteq TokenIds
  BY DEF Bystanders, TypeInv, TypeOK, Calls
<1> QED
  BY <1>1 DEF Write, TypeInv, TypeOK

(* Noting what a write replaced, within the bounds of the history or not.  *)
LEMMA ReplaceEffect ==
  ASSUME TypeInv, NEW r \in Resources, NEW tk, NEW k, Replace(tk, k, r)
  PROVE  replaced' \in [TokenIds \X (1..MaxItems) -> Contents \cup {Absent, None}]
BY DEF Replace, TypeInv, TypeOK

(* A well-typed command keeps the connection well-typed.                   *)
LEMMA SendEffect ==
  ASSUME TypeInv, NEW tk \in TokenIds, NEW k \in Nat, NEW dir \in {"do", "undo"},
         NEW r \in Dashboards, NEW c \in Contents, NEW checked \in BOOLEAN,
         Send(tk, k, dir, r, c, checked)
  PROVE  inflight' \subseteq Saves
<1> DEFINE e == [tok |-> tk, k |-> k, dir |-> dir, res |-> r, new |-> c,
                 heard |-> TRUE, checked |-> checked]
<1>1. e \in Saves
  BY Zenon DEF Saves
<1> QED
  BY <1>1 DEF Send, TypeInv, TypeOK

(* Releasing leaves every lock with a call or with nobody.                 *)
LEMMA ReleaseEffect ==
  ASSUME TypeInv, NEW t, Release(t)
  PROVE  lock' \in [Dashboards -> Tasks \cup {None}]
BY DEF Release, TypeInv, TypeOK

(* A step of one call, or of none.                                         *)
LEMMA OneCallMoves ==
  ASSUME TypeInv, TypeOK', NEW t \in Tasks,
         Len(tokens') <= MaxTokens, TokensKeep(tokens, tokens'),
         \A tk \in DOMAIN tokens' : SingleItem(tokens'[tk]),
         TxnsKeep(txns, txns'), Len(backups') >= Len(backups),
         \A u \in Tasks \ {t} : task'[u] = task[u],
         CallFits(task'[t], tokens', txns', backups')
  PROVE  TypeInv'
<1>1. \A u \in Tasks \ {t} : CallFits(task'[u], tokens', txns', backups')
  <2> TAKE u \in Tasks \ {t}
  <2>1. CallFits(task[u], tokens, txns, backups) /\ task[u] \in Calls
    BY DEF TypeInv, WellFormed, TypeOK
  <2> QED
    BY <2>1, FitsStays DEF TypeInv, TypeOK
<1> QED
  BY <1>1 DEF TypeInv, WellFormed

(* The tokens of the single-item tools keep their one item.                *)
LEMMA SingleItemStays ==
  ASSUME TypeInv, TokensKeep(tokens, tokens'), DOMAIN tokens' = DOMAIN tokens
  PROVE  \A tk \in DOMAIN tokens' : SingleItem(tokens'[tk])
BY DEF TypeInv, WellFormed, TokensKeep, SingleItem

(* What does not change has grown, too.                                    *)
LEMMA KeepRefl ==
  ASSUME TypeInv
  PROVE  /\ TokensKeep(tokens, tokens)
         /\ TxnsKeep(txns, txns)
         /\ Len(backups) >= Len(backups)
         /\ Len(tokens) <= MaxTokens
<1>1. \A x \in DOMAIN txns : Len(txns[x].saves) \in Nat
  BY SeqIsFun DEF TypeInv, TypeOK, Txns
<1>2. Len(backups) \in Nat
  BY SeqIsFun DEF TypeInv, TypeOK
<1> QED
  BY <1>1, <1>2 DEF TypeInv, WellFormed, TokensKeep, TxnsKeep

-----------------------------------------------------------------------------
(* What a call at work is known to have.                                   *)

(* The invariant for one call: its token exists, and so does its item.     *)
LEMMA CallFacts ==
  ASSUME TypeInv, NEW t \in Tasks
  PROVE  /\ task[t] \in Calls
         /\ CallFits(task[t], tokens, txns, backups)
         /\ task[t].pc \notin {"idle", "rb_claim"} =>
              /\ task[t].tok \in DOMAIN tokens /\ task[t].tok \in TokenIds
              /\ Token(t) \in Tokens
         /\ task[t].pc \in AtItem =>
              /\ task[t].k \in DOMAIN Token(t).items
              /\ Item(t) \in Items
<1>1. task[t] \in Calls /\ CallFits(task[t], tokens, txns, backups)
  BY DEF TypeInv, TypeOK, WellFormed
<1>2. tokens \in Seq(Tokens) /\ Len(tokens) <= MaxTokens /\ MaxTokens \in Nat
  BY ContextAssumption DEF TypeInv, TypeOK, WellFormed
<1>3. ASSUME task[t].pc \notin {"idle", "rb_claim"}
      PROVE  /\ task[t].tok \in DOMAIN tokens /\ task[t].tok \in TokenIds
             /\ Token(t) \in Tokens
  BY <1>1, <1>2, <1>3, SeqIsFun DEF CallFits, Token, TokenIds
<1>4. ASSUME task[t].pc \in AtItem
      PROVE  /\ task[t].k \in DOMAIN Token(t).items
             /\ Item(t) \in Items
  <2>1. task[t].pc \notin {"idle", "rb_claim"}
    BY <1>4 DEF AtItem
  <2>2. Token(t) \in Tokens
    BY <1>3, <2>1
  <2>3. Token(t).items \in Seq(Items)
    BY <2>2 DEF Tokens
  <2> QED
    BY <1>1, <1>4, <2>3, SeqIsFun DEF CallFits, Token, Item
<1> QED
  BY <1>1, <1>3, <1>4

(* An idle call refers to nothing.                                         *)
LEMMA IdleFits ==
  ASSUME NEW toks, NEW xs, NEW baks
  PROVE  Idle \in Calls /\ CallFits(Idle, toks, xs, baks)
BY DEF Idle, Calls, Points, CallFits, AtItem, AtDashboard

(* The record of a call that begins is well-typed.                         *)
LEMMA StartType ==
  ASSUME NEW pc \in Points, NEW tok \in {0} \cup TokenIds, NEW x \in Nat, NEW k \in Nat
  PROVE  [Idle EXCEPT !.pc = pc, !.tok = tok, !.txn = x, !.k = k] \in Calls
<1>1. Idle \in Calls
  BY IdleFits
<1> QED
  BY <1>1 DEF Calls

(* What a write leaves of a text, and what a read makes of it, are texts.  *)
LEMMA WrittenType ==
  ASSUME NEW r, NEW c \in Contents
  PROVE  Written(r, c) \in Contents /\ OrEmpty(c) \in Contents
BY ContextAssumption DEF Written, OrEmpty

(* A call that ends leaves the others alone.                               *)
LEMMA FinishEffect ==
  ASSUME TypeInv, NEW t \in Tasks, Finish(t)
  PROVE  /\ task' \in [Tasks -> Calls] /\ loop' \in Tasks \cup {None}
         /\ \A u \in Tasks \ {t} : task'[u] = task[u]
         /\ CallFits(task'[t], tokens', txns', backups')
BY IdleFits DEF Finish, TypeInv, TypeOK

-----------------------------------------------------------------------------
(* ConfigTools.                                                            *)

(* An item of resources and texts is well-typed.                           *)
LEMMA NewItem ==
  ASSUME NEW r \in Resources, NEW old \in Contents, NEW new \in Contents,
         NEW create \in BOOLEAN
  PROVE  [res |-> r, old |-> old, new |-> new, create |-> create] \in Items
BY Zenon DEF Items

(* A preview issues one token and leaves everything else alone.            *)
LEMMA PreviewStep ==
  ASSUME TypeInv, NEW act \in Actions, NEW items \in Seq(Items), NEW x \in Nat,
         CreateToken(act, items, x),
         SingleItem([action |-> act, items |-> items, txn |-> x, state |-> "live"]),
         UNCHANGED <<txns, durable, sched, world>>
  PROVE  TypeInv'
<1> DEFINE new == [action |-> act, items |-> items, txn |-> x, state |-> "live"]
<1>1. /\ tokens' \in Seq(Tokens) /\ Len(tokens') <= MaxTokens
      /\ TokensKeep(tokens, tokens') /\ tokens' = Append(tokens, new)
  BY CreateEffect
<1>2. TypeOK'
  BY <1>1 DEF TypeInv, TypeOK, durable, sched, world
<1>3. \A tk \in DOMAIN tokens' : SingleItem(tokens'[tk])
  <2>1. \A tk \in DOMAIN tokens : SingleItem(tokens'[tk])
    BY <1>1 DEF TypeInv, WellFormed, TokensKeep, SingleItem
  <2>2. new \in Tokens /\ tokens \in Seq(Tokens)
    BY DEF Tokens, TypeInv, TypeOK
  <2>3. DOMAIN tokens' = DOMAIN tokens \cup {Len(tokens) + 1}
        /\ tokens'[Len(tokens) + 1] = new
    BY <1>1, <2>2, SeqAppend
  <2> QED
    BY <2>1, <2>3
<1>4. \A t \in Tasks : CallFits(task'[t], tokens', txns', backups')
  <2> TAKE t \in Tasks
  <2>1. CallFits(task[t], tokens, txns, backups) /\ task[t] \in Calls
    BY CallFacts
  <2>2. CallFits(task[t], tokens', txns, backups)
    BY <1>1, <2>1, FitsStays, KeepRefl DEF TypeInv, TypeOK
  <2> QED
    BY <2>2 DEF durable, sched
<1> QED
  BY <1>1, <1>2, <1>3, <1>4 DEF TypeInv, WellFormed

(* The previews of the config tools keep the type invariant.               *)
LEMMA ConfigPatchType ==
  ASSUME TypeInv, NEW p \in Files, NEW c \in Contents,
         ConfigPatch(p, c) \/ ConfigCreate(p, c)
  PROVE  TypeInv'
<1>1. content[p] \in Contents \cup {Absent} /\ p \in Resources /\ Empty \in Contents
  BY ContextAssumption DEF TypeInv, TypeOK, Resources
<1>2. CASE ConfigPatch(p, c)
  <2> DEFINE it == ConfigItem(p, content[p], c)
  <2>1. it \in Items
    BY <1>1, <1>2, NewItem DEF ConfigPatch, ConfigItem
  <2>2. <<it>> \in Seq(Items)
    BY <2>1
  <2>3. SingleItem([action |-> "config_apply", items |-> <<it>>, txn |-> 0, state |-> "live"])
    BY DEF SingleItem
  <2> HIDE DEF it
  <2> QED
    BY <1>2, <2>2, <2>3, PreviewStep DEF ConfigPatch, Actions, it
<1>3. CASE ConfigCreate(p, c)
  <2> DEFINE it == ConfigItem(p, Empty, c)
  <2>1. it \in Items
    BY <1>1, <1>3, NewItem DEF ConfigItem
  <2>2. <<it>> \in Seq(Items)
    BY <2>1
  <2>3. SingleItem([action |-> "config_apply", items |-> <<it>>, txn |-> 0, state |-> "live"])
    BY DEF SingleItem
  <2> HIDE DEF it
  <2> QED
    BY <1>3, <2>2, <2>3, PreviewStep DEF ConfigCreate, Actions, it
<1> QED
  BY <1>2, <1>3

(* A savepoint of a resource and a text is well-typed.                     *)
LEMMA NewSavepoint ==
  ASSUME NEW r \in Resources, NEW c \in Contents, NEW created \in BOOLEAN, NEW k \in Nat
  PROVE  Savepoint(r, c, created, k) \in Savepoints
BY Zenon DEF Savepoint, Savepoints

(* A call begins: it claims its token and has recorded nothing yet, or its *)
(* one savepoint.                                                          *)
LEMMA ClaimFacts ==
  ASSUME TypeInv, NEW tk, ClaimToken(tk)
  PROVE  /\ tk \in DOMAIN tokens /\ tk \in TokenIds
         /\ tokens[tk] \in Tokens /\ tokens[tk].items \in Seq(Items)
         /\ SingleItem(tokens[tk])
         /\ tokens'[tk].items = tokens[tk].items
         /\ tokens' \in Seq(Tokens) /\ Len(tokens') <= MaxTokens
         /\ TokensKeep(tokens, tokens') /\ DOMAIN tokens' = DOMAIN tokens
         /\ \A i \in DOMAIN tokens' : SingleItem(tokens'[i])
<1>1. /\ tk \in DOMAIN tokens
      /\ tokens' \in Seq(Tokens) /\ Len(tokens') = Len(tokens)
      /\ TokensKeep(tokens, tokens') /\ DOMAIN tokens' = DOMAIN tokens
  BY ClaimEffect
<1>2. tokens \in Seq(Tokens) /\ Len(tokens) <= MaxTokens /\ MaxTokens \in Nat
  BY ContextAssumption DEF TypeInv, TypeOK, WellFormed
<1>3. tk \in TokenIds /\ tokens[tk] \in Tokens
  BY <1>1, <1>2, SeqIsFun DEF TokenIds
<1>4. \A i \in DOMAIN tokens' : SingleItem(tokens'[i])
  BY <1>1, SingleItemStays
<1> QED
  BY <1>1, <1>2, <1>3, <1>4 DEF TypeInv, WellFormed, TokensKeep, Tokens

(* The claim of haops_config_apply keeps the type invariant.               *)
LEMMA ConfigApplyType ==
  ASSUME TypeInv, NEW t \in Tasks, NEW tk, ConfigApply(t, tk)
  PROVE  TypeInv'
<1>1. ClaimToken(tk)
  BY DEF ConfigApply
<1>2. CASE /\ tokens[tk].action = "config_apply"
           /\ Begin(tk, <<Savepoint(tokens[tk].items[1].res, tokens[tk].items[1].old, FALSE, 1)>>)
           /\ task' = [task EXCEPT ![t] = [Idle EXCEPT !.pc = "cfg_backup",
                         !.tok = tk, !.txn = Len(txns) + 1, !.k = 1]]
           /\ loop' = t
  <2> DEFINE sp == Savepoint(tokens[tk].items[1].res, tokens[tk].items[1].old, FALSE, 1)
             c  == [Idle EXCEPT !.pc = "cfg_backup", !.tok = tk, !.txn = Len(txns) + 1, !.k = 1]
  <2>1. tokens[tk].items \in Seq(Items) /\ Len(tokens[tk].items) = 1
    BY <1>1, <1>2, ClaimFacts DEF SingleItem
  <2>2. tokens[tk].items[1] \in Items /\ 1 \in DOMAIN tokens[tk].items
    BY <2>1, SeqIsFun
  <2>3. sp \in Savepoints
    BY <2>2, NewSavepoint DEF Items
  <2>4. txns' \in Seq(Txns) /\ TxnsKeep(txns, txns')
    <3> HIDE DEF sp
    <3>1. <<sp>> \in Seq(Savepoints)
      BY <2>3
    <3> QED
      BY <1>1, <1>2, <3>1, ClaimFacts, BeginEffect DEF sp
  <2>5. c \in Calls
    <3>1. Len(txns) + 1 \in Nat
      BY SeqIsFun DEF TypeInv, TypeOK
    <3>2. "cfg_backup" \in Points
      BY DEF Points
    <3>3. tk \in {0} \cup TokenIds /\ 1 \in Nat
      BY <1>1, ClaimFacts
    <3> QED
      BY <3>1, <3>2, <3>3, StartType
  <2>6. TypeOK'
    BY <1>1, <1>2, <2>4, <2>5, ClaimFacts DEF TypeInv, TypeOK, ConfigApply, durable, world
  <2>7. CallFits(c, tokens', txns', backups')
    BY <1>1, <2>2, ClaimFacts DEF CallFits, Idle, AtItem, AtDashboard
  <2>8. task'[t] = c /\ \A u \in Tasks \ {t} : task'[u] = task[u]
    BY <1>2 DEF TypeInv, TypeOK
  <2>9. Len(backups') >= Len(backups)
    BY KeepRefl DEF ConfigApply, durable
  <2> HIDE DEF c
  <2> QED
    BY <1>1, <2>4, <2>6, <2>7, <2>8, <2>9, ClaimFacts, OneCallMoves
<1>3. CASE UNCHANGED <<txns, loop, task>>
  <2>1. TypeOK'
    BY <1>1, <1>3, ClaimFacts DEF TypeInv, TypeOK, ConfigApply, durable, world
  <2>2. CallFits(task[t], tokens', txns', backups')
    BY <1>1, <1>3, CallFacts, ClaimFacts, FitsStays, KeepRefl
       DEF TypeInv, TypeOK, ConfigApply, durable
  <2>3. TxnsKeep(txns, txns') /\ Len(backups') >= Len(backups)
    BY <1>3, KeepRefl DEF ConfigApply, durable
  <2> QED
    BY <1>1, <1>3, <2>1, <2>2, <2>3, ClaimFacts, OneCallMoves
<1> QED
  BY <1>2, <1>3 DEF ConfigApply

(* The type invariant of what is outside the server's tables.              *)
WorldOK ==
  /\ content \in [Resources -> Contents \cup {Absent}]
  /\ inflight \subseteq Saves
  /\ writer \in [Resources -> Writers]
  /\ replaced \in [TokenIds \X (1..MaxItems) -> Contents \cup {Absent, None}]
  /\ unsure \subseteq TokenIds

(* The type invariant of what the server keeps on disk.                    *)
DurableOK == backups \in Seq(BackupEntries) /\ audit \in Seq(AuditEntries)

(* What does not change keeps its type.                                    *)
LEMMA Unchanging ==
  ASSUME TypeInv
  PROVE  /\ (UNCHANGED world => WorldOK')
         /\ (UNCHANGED durable => DurableOK' /\ Len(backups') >= Len(backups))
         /\ (UNCHANGED backups => backups' \in Seq(BackupEntries) /\ Len(backups') >= Len(backups))
         /\ (UNCHANGED audit => audit' \in Seq(AuditEntries))
         /\ (UNCHANGED lock => lock' \in [Dashboards -> Tasks \cup {None}])
         /\ (UNCHANGED loop => loop' \in Tasks \cup {None})
         /\ (UNCHANGED txns => txns' \in Seq(Txns) /\ TxnsKeep(txns, txns'))
         /\ WorldOK /\ DurableOK
<1>1. UNCHANGED world => WorldOK'
  BY DEF TypeInv, TypeOK, world, WorldOK
<1>2. UNCHANGED durable => DurableOK' /\ Len(backups') >= Len(backups)
  BY KeepRefl DEF TypeInv, TypeOK, durable, DurableOK
<1>3. UNCHANGED backups => backups' \in Seq(BackupEntries) /\ Len(backups') >= Len(backups)
  BY KeepRefl DEF TypeInv, TypeOK
<1>4. UNCHANGED txns => txns' \in Seq(Txns) /\ TxnsKeep(txns, txns')
  BY KeepRefl DEF TypeInv, TypeOK
<1> QED
  BY <1>1, <1>2, <1>3, <1>4 DEF TypeInv, TypeOK, WorldOK, DurableOK

(* A call that has its token goes on, as c.                                *)
LEMMA CallGoesOn ==
  ASSUME TypeInv, NEW t \in Tasks, NEW c \in Calls,
         task' = [task EXCEPT ![t] = c],
         UNCHANGED tokens,
         txns' \in Seq(Txns), TxnsKeep(txns, txns'),
         DurableOK', Len(backups') >= Len(backups),
         lock' \in [Dashboards -> Tasks \cup {None}], loop' \in Tasks \cup {None},
         WorldOK',
         CallFits(c, tokens, txns', backups')
  PROVE  TypeInv'
<1>1. task' \in [Tasks -> Calls] /\ task'[t] = c
      /\ \A u \in Tasks \ {t} : task'[u] = task[u]
  BY DEF TypeInv, TypeOK
<1>2. TypeOK'
  BY <1>1 DEF TypeInv, TypeOK, WorldOK, DurableOK
<1>3. Len(tokens') <= MaxTokens /\ TokensKeep(tokens, tokens')
      /\ DOMAIN tokens' = DOMAIN tokens
  BY KeepRefl
<1>4. CallFits(task'[t], tokens', txns', backups')
  BY <1>1
<1> QED
  BY <1>1, <1>2, <1>3, <1>4, SingleItemStays, OneCallMoves

(* The steps of haops_config_apply keep the type invariant.                *)
LEMMA ConfigStepType ==
  ASSUME TypeInv, NEW t \in Tasks, ConfigStep(t)
  PROVE  TypeInv'
<1>0. task[t] \in Calls /\ CallFits(task[t], tokens, txns, backups)
  BY CallFacts
<1>1. CASE ConfigBackup(t)
  <2> DEFINE c == [task[t] EXCEPT !.pc = "cfg_write"]
  <2>1. Item(t) \in Items /\ task[t].pc = "cfg_backup"
    BY <1>1, CallFacts DEF ConfigBackup, At, AtItem
  <2>2. Item(t).res \in Resources
    BY <2>1 DEF Items
  <2>3. backups' \in Seq(BackupEntries) /\ Len(backups') >= Len(backups)
    <3>1. CASE BackUp(Item(t).res, content[Item(t).res]) /\ content[Item(t).res] # Absent
      <4>1. content[Item(t).res] \in Contents
        BY <2>2, <3>1 DEF TypeInv, TypeOK
      <4>2. Len(backups) \in Nat
        BY SeqIsFun DEF TypeInv, TypeOK
      <4> QED
        BY <2>2, <3>1, <4>1, <4>2, BackUpEffect
    <3>2. CASE UNCHANGED backups
      BY <3>2, Unchanging
    <3> QED
      BY <1>1, <3>1, <3>2 DEF ConfigBackup
  <2>4. c \in Calls /\ CallFits(c, tokens, txns, backups)
    BY <1>0, <2>1 DEF Calls, Points, CallFits, AtItem, AtDashboard
  <2>5. CallFits(c, tokens, txns, backups')
    BY <2>3, <2>4, FitsStays, KeepRefl DEF TypeInv, TypeOK
  <2> HIDE DEF c
  <2> QED
    BY <1>1, <2>3, <2>4, <2>5, CallGoesOn, Unchanging DEF ConfigBackup, memory, DurableOK, c
<1>2. CASE ConfigWrite(t)
  <2> DEFINE c == [task[t] EXCEPT !.pc = "cfg_commit"]
  <2>1. Item(t) \in Items /\ task[t].pc = "cfg_write"
    BY <1>2, CallFacts DEF ConfigWrite, At, AtItem
  <2>2. Item(t).res \in Resources /\ Written(Item(t).res, Item(t).new) \in Contents
    BY <2>1, WrittenType DEF Items
  <2>3. WorldOK'
    BY <1>2, <2>2, WriteEffect, ReplaceEffect, Unchanging DEF ConfigWrite, WorldOK, Writers
  <2>4. c \in Calls /\ CallFits(c, tokens, txns, backups)
    BY <1>0, <2>1 DEF Calls, Points, CallFits, AtItem, AtDashboard
  <2> HIDE DEF c
  <2> QED
    BY <1>2, <2>3, <2>4, CallGoesOn, Unchanging DEF ConfigWrite, memory, durable, c
<1>3. CASE ConfigWriteFails(t)
  BY <1>3, IdleFits, CallGoesOn, Unchanging DEF ConfigWriteFails, Finish, memory, durable
<1>4. CASE ConfigCommit(t)
  <2>1. task[t].tok \in TokenIds
    BY <1>4, CallFacts DEF ConfigCommit, At
  <2>2. audit' \in Seq(AuditEntries)
    BY <1>4, <2>1, LogEffect DEF ConfigCommit
  <2>3. txns' \in Seq(Txns) /\ TxnsKeep(txns, txns')
    BY <1>4, SetStateEffect DEF ConfigCommit, Commit
  <2> QED
    BY <1>4, <2>2, <2>3, IdleFits, CallGoesOn, Unchanging
       DEF ConfigCommit, Finish, DurableOK
<1> QED
  BY <1>1, <1>2, <1>3, <1>4 DEF ConfigStep

-----------------------------------------------------------------------------
(* DashboardTools.                                                         *)

(* The previews of the dashboard tools keep the type invariant.            *)
LEMMA DashboardPreviewType ==
  ASSUME TypeInv, NEW d \in Dashboards, NEW c \in Contents,
         DashboardDiff(d, c) \/ DashboardPatch(d, c)
  PROVE  TypeInv'
<1> DEFINE old == OrEmpty(content[d])
           it  == DashboardItem(d, old, c)
           tok == [action |-> "dashboard_apply", items |-> <<it>>, txn |-> 0, state |-> "live"]
<1>1. old \in Contents /\ d \in Resources
  BY ContextAssumption DEF TypeInv, TypeOK, Resources, OrEmpty
<1>2. CreateToken("dashboard_apply", <<it>>, 0)
  BY DEF DashboardDiff, DashboardPatch, OrEmpty
<1>3. it \in Items /\ it.res = d
  <2> HIDE DEF old
  <2> QED
    BY <1>1, NewItem DEF DashboardItem
<1>4. UNCHANGED <<txns, durable, sched, world>>
  BY DEF DashboardDiff, DashboardPatch
<1> HIDE DEF it
<1>5. <<it>> \in Seq(Items) /\ <<it>>[1] = it /\ Len(<<it>>) = 1
  BY <1>3
<1>6. SingleItem(tok)
  BY <1>3, <1>5 DEF SingleItem
<1> QED
  BY <1>2, <1>4, <1>5, <1>6, PreviewStep DEF Actions

(* The claim of haops_dashboard_apply keeps the type invariant.            *)
LEMMA DashboardApplyType ==
  ASSUME TypeInv, NEW t \in Tasks, NEW tk, DashboardApply(t, tk)
  PROVE  TypeInv'
<1>1. ClaimToken(tk)
  BY DEF DashboardApply
<1>2. TxnsKeep(txns, txns') /\ Len(backups') >= Len(backups) /\ UNCHANGED <<txns, backups>>
  BY KeepRefl DEF DashboardApply, durable
<1>3. CASE /\ tokens[tk].action = "dashboard_apply"
           /\ task' = [task EXCEPT ![t] =
                         [Idle EXCEPT !.pc = "dash_lock", !.tok = tk, !.k = 1]]
  <2> DEFINE c == [Idle EXCEPT !.pc = "dash_lock", !.tok = tk, !.k = 1]
  <2>1. /\ tokens[tk].items \in Seq(Items) /\ Len(tokens[tk].items) = 1
        /\ tokens[tk].items[1].res \in Dashboards
    BY <1>1, <1>3, ClaimFacts DEF SingleItem
  <2>2. 1 \in DOMAIN tokens[tk].items
    BY <2>1, SeqIsFun
  <2>3. c \in Calls
    BY <1>1, IdleFits, ClaimFacts DEF Calls, Points
  <2>4. TypeOK'
    BY <1>1, <1>3, <2>3, ClaimFacts DEF TypeInv, TypeOK, DashboardApply, durable, world
  <2>5. CallFits(c, tokens', txns', backups')
    BY <1>1, <2>1, <2>2, ClaimFacts DEF CallFits, Idle, AtItem, AtDashboard
  <2>6. task'[t] = c /\ \A u \in Tasks \ {t} : task'[u] = task[u]
    BY <1>3 DEF TypeInv, TypeOK
  <2> HIDE DEF c
  <2> QED
    BY <1>1, <1>2, <2>4, <2>5, <2>6, ClaimFacts, OneCallMoves
<1>4. CASE UNCHANGED task
  <2>1. TypeOK'
    BY <1>1, <1>4, ClaimFacts DEF TypeInv, TypeOK, DashboardApply, durable, world
  <2>2. CallFits(task[t], tokens', txns', backups')
    BY <1>1, <1>2, <1>4, CallFacts, ClaimFacts, FitsStays, KeepRefl DEF TypeInv, TypeOK
  <2> QED
    BY <1>1, <1>2, <1>4, <2>1, <2>2, ClaimFacts, OneCallMoves
<1> QED
  BY <1>3, <1>4 DEF DashboardApply

(* The steps of haops_dashboard_apply keep the type invariant.             *)
LEMMA DashboardStepType ==
  ASSUME TypeInv, NEW t \in Tasks, DashboardStep(t)
  PROVE  TypeInv'
<1>0. task[t] \in Calls /\ CallFits(task[t], tokens, txns, backups)
  BY CallFacts
<1>1. CASE DashboardRecheck(t)
  <2> DEFINE it == Item(t)
             tk == task[t].tok
             c  == [task[t] EXCEPT !.pc = "dash_wait", !.txn = Len(txns) + 1]
  <2>1. task[t].pc = "dash_lock" /\ it \in Items /\ tk \in TokenIds /\ it.res \in Dashboards
    BY <1>0, <1>1, CallFacts
       DEF DashboardRecheck, At, AtItem, AtDashboard, CallFits, Item, Token
  <2>2. it.old \in Contents /\ it.new \in Contents /\ it.res \in Resources
    BY <2>1 DEF Items
  <2>3. PICK got \in Readings(it.res) :
          /\ Begin(tk, <<Savepoint(it.res, it.old, FALSE, 1)>>)
          /\ IF BackupOnWrite /\ it.old # Empty
             THEN BackUp(it.res, it.old)
             ELSE UNCHANGED backups
          /\ Send(tk, 1, "do", it.res, it.new, got # None)
          /\ unsure' = IF got = None THEN unsure \cup {tk} ELSE unsure
    BY <1>1 DEF DashboardRecheck
  <2>4. txns' \in Seq(Txns) /\ TxnsKeep(txns, txns')
    <3> DEFINE sp == Savepoint(it.res, it.old, FALSE, 1)
    <3>1. sp \in Savepoints
      BY <2>2, NewSavepoint
    <3>2. Begin(tk, <<sp>>)
      BY <2>3
    <3> HIDE DEF sp, it, tk
    <3>3. <<sp>> \in Seq(Savepoints)
      BY <3>1
    <3> QED
      BY <2>1, <3>2, <3>3, BeginEffect
  <2>5. backups' \in Seq(BackupEntries) /\ Len(backups') >= Len(backups)
    <3>1. Len(backups) \in Nat
      BY SeqIsFun DEF TypeInv, TypeOK
    <3> QED
      BY <2>2, <2>3, <3>1, BackUpEffect, Unchanging
  <2>6. WorldOK'
    <3>1. inflight' \subseteq Saves
      <4>1. (got # None) \in BOOLEAN
        OBVIOUS
      <4> DEFINE checked == got # None
      <4>2. Send(tk, 1, "do", it.res, it.new, checked) /\ checked \in BOOLEAN
        BY <2>3, <4>1
      <4> HIDE DEF checked, it, tk
      <4> QED
        BY <2>1, <2>2, <4>2, SendEffect
    <3>2. unsure' \subseteq TokenIds
      BY <2>1, <2>3 DEF TypeInv, TypeOK
    <3> QED
      BY <1>1, <3>1, <3>2 DEF DashboardRecheck, TypeInv, TypeOK, WorldOK
  <2>7. c \in Calls
    <3>1. Len(txns) + 1 \in Nat
      BY SeqIsFun DEF TypeInv, TypeOK
    <3> QED
      BY <1>0, <3>1 DEF Calls, Points
  <2>8. CallFits(c, tokens, txns, backups)
    BY <1>0, <2>1 DEF CallFits, AtItem, AtDashboard, Calls
  <2>9. CallFits(c, tokens, txns', backups')
    BY <2>4, <2>5, <2>7, <2>8, FitsStays, KeepRefl DEF TypeInv, TypeOK
  <2>10. lock' \in [Dashboards -> Tasks \cup {None}] /\ loop' \in Tasks \cup {None}
    BY <1>1 DEF DashboardRecheck, Acquire, TypeInv, TypeOK
  <2>11. /\ task' = [task EXCEPT ![t] = c]
         /\ UNCHANGED tokens /\ DurableOK'
    BY <1>1, <2>5 DEF DashboardRecheck, TypeInv, TypeOK, DurableOK
  <2> HIDE DEF c
  <2> QED
    BY <2>4, <2>5, <2>6, <2>7, <2>9, <2>10, <2>11, CallGoesOn
<1>2. CASE DashboardRefuse(t)
  BY <1>2, IdleFits, CallGoesOn, Unchanging DEF DashboardRefuse, Finish, memory
<1>3. CASE DashboardSaved(t)
  <2>1. task[t].tok \in TokenIds
    BY <1>3, CallFacts DEF DashboardSaved, At
  <2>2. audit' \in Seq(AuditEntries)
    BY <1>3, <2>1, LogEffect DEF DashboardSaved
  <2>3. txns' \in Seq(Txns) /\ TxnsKeep(txns, txns')
    BY <1>3, SetStateEffect DEF DashboardSaved, Commit
  <2> QED
    BY <1>3, <2>2, <2>3, IdleFits, CallGoesOn, Unchanging, ReleaseEffect
       DEF DashboardSaved, Finish, DurableOK
<1>4. CASE DashboardSaveFails(t)
  BY <1>4, IdleFits, CallGoesOn, Unchanging, ReleaseEffect
     DEF DashboardSaveFails, Finish, memory
<1> QED
  BY <1>1, <1>2, <1>3, <1>4 DEF DashboardStep

-----------------------------------------------------------------------------
(* RollbackTools.                                                          *)

(* The savepoints of a transaction are a sequence of savepoints.           *)
LEMMA SavepointsOf ==
  ASSUME TypeInv, NEW x \in DOMAIN txns
  PROVE  /\ txns[x].saves \in Seq(Savepoints)
         /\ DOMAIN txns[x].saves = 1..Len(txns[x].saves)
         /\ Len(txns[x].saves) \in Nat
         /\ \A i \in DOMAIN txns[x].saves : txns[x].saves[i] \in Savepoints
<1>1. txns[x] \in Txns
  BY SeqIsFun DEF TypeInv, TypeOK
<1>2. txns[x].saves \in Seq(Savepoints)
  BY <1>1 DEF Txns
<1> QED
  BY <1>2, SeqIsFun

(* The preview of haops_rollback keeps the type invariant.                 *)
LEMMA RollbackPreviewType ==
  ASSUME TypeInv, NEW x \in DOMAIN txns, RollbackPreview(x)
  PROVE  TypeInv'
<1> DEFINE item(i) == LET sp == txns[x].saves[i]
                      IN  [res |-> sp.res, old |-> OrEmpty(content[sp.res]),
                           new |-> sp.content, create |-> sp.created]
           items == [i \in DOMAIN txns[x].saves |-> item(i)]
<1>1. \A i \in DOMAIN txns[x].saves : item(i) \in Items
  <2> TAKE i \in DOMAIN txns[x].saves
  <2> DEFINE sp == txns[x].saves[i]
  <2>1. /\ sp.res \in Resources /\ sp.content \in Contents
        /\ sp.created \in BOOLEAN
    BY SavepointsOf DEF Savepoints
  <2>2. OrEmpty(content[sp.res]) \in Contents
    BY <2>1, ContextAssumption DEF OrEmpty, TypeInv, TypeOK
  <2> QED
    BY <2>1, <2>2, NewItem
<1>2. items \in Seq(Items)
  <2>1. items \in [1..Len(txns[x].saves) -> Items]
    BY <1>1, SavepointsOf
  <2> QED
    BY <2>1, SavepointsOf, FunIsSeq
<1>3. CreateToken("rollback", items, x) /\ UNCHANGED <<txns, durable, sched, world>>
  BY DEF RollbackPreview
<1>4. x \in Nat
  BY SeqIsFun DEF TypeInv, TypeOK
<1> HIDE DEF items
<1>5. SingleItem([action |-> "rollback", items |-> items, txn |-> x, state |-> "live"])
  BY DEF SingleItem
<1> QED
  BY <1>2, <1>3, <1>4, <1>5, PreviewStep DEF Actions

(* The confirming call of haops_rollback begins well-typed.                *)
LEMMA RollbackEnterType ==
  ASSUME TypeInv, NEW t \in Tasks, NEW x \in DOMAIN txns, RollbackEnter(t, x)
  PROVE  TypeInv'
<1> DEFINE c == [Idle EXCEPT !.pc = "rb_claim", !.txn = x]
<1>1. x \in Nat
  BY SeqIsFun DEF TypeInv, TypeOK
<1>2. c \in Calls
  BY <1>1, IdleFits DEF Calls, Points
<1>3. CallFits(c, tokens, txns, backups)
  BY DEF CallFits, Idle, AtItem, AtDashboard
<1>4. loop' \in Tasks \cup {None}
  BY DEF RollbackEnter
<1>5. /\ task' = [task EXCEPT ![t] = c]
      /\ UNCHANGED <<tokens, txns, durable, lock, world>>
  BY DEF RollbackEnter, memory
<1> HIDE DEF c
<1> QED
  BY <1>2, <1>3, <1>4, <1>5, CallGoesOn, Unchanging DEF durable

(* The claim of haops_rollback keeps the type invariant: the count of      *)
(* savepoints to restore is that of the transaction.                       *)
LEMMA RollbackClaimType ==
  ASSUME TypeInv, NEW t \in Tasks, NEW tk, RollbackClaim(t, tk)
  PROVE  TypeInv'
<1> DEFINE x == task[t].txn
           n == IF ActiveSavepoints(x) = {} THEN 0 ELSE Len(txns[x].saves)
           c == [task[t] EXCEPT !.pc = "rb_undo", !.tok = tk, !.k = n, !.n = n]
<1>0. /\ task[t] \in Calls /\ CallFits(task[t], tokens, txns, backups)
      /\ task[t].pc = "rb_claim"
  BY CallFacts DEF RollbackClaim, At
<1>1. ClaimToken(tk) /\ RollbackTransaction(x)
      /\ task' = [task EXCEPT ![t].pc = "rb_undo", ![t].tok = tk, ![t].k = n, ![t].n = n]
      /\ UNCHANGED <<durable, lock, world>> /\ loop' = t
  BY DEF RollbackClaim
<1>2. txns' \in Seq(Txns) /\ TxnsKeep(txns, txns')
  BY <1>1, RollbackTransactionEffect
<1>3. x \in DOMAIN txns /\ n \in Nat /\ n <= Len(txns[x].saves)
  BY <1>0, SavepointsOf DEF CallFits
<1>4. c \in Calls
  BY <1>0, <1>1, <1>3, ClaimFacts DEF Calls, Points
<1>5. task' = [task EXCEPT ![t] = c]
  BY <1>1
<1>6. CallFits(c, tokens', txns, backups)
  <2>1. CallFits(task[t], tokens', txns, backups)
    BY <1>0, <1>1, ClaimFacts, FitsStays, KeepRefl DEF TypeInv, TypeOK
  <2> HIDE DEF n, x
  <2> QED
    BY <1>0, <1>1, <1>3, <2>1, ClaimFacts DEF CallFits, AtItem, AtDashboard, Calls, x
<1>7. Len(backups') >= Len(backups) /\ UNCHANGED backups
  BY <1>1, KeepRefl DEF durable
<1> HIDE DEF c, n, x
<1>8. CallFits(c, tokens', txns', backups')
  <2>1. TokensKeep(tokens', tokens') /\ tokens' \in Seq(Tokens)
    BY <1>1, ClaimFacts DEF TokensKeep
  <2>2. txns \in Seq(Txns) /\ backups \in Seq(BackupEntries) /\ backups' = backups
    BY <1>7 DEF TypeInv, TypeOK
  <2> QED
    BY <1>2, <1>4, <1>6, <1>7, <2>1, <2>2, FitsStays
<1>9. TypeOK'
  <2>1. UNCHANGED <<content, backups, audit, lock, inflight, writer, replaced, unsure>>
    BY <1>1 DEF durable, world
  <2>2. task' \in [Tasks -> Calls]
    BY <1>4, <1>5 DEF TypeInv, TypeOK
  <2>3. tokens' \in Seq(Tokens) /\ loop' \in Tasks \cup {None}
    BY <1>1, ClaimFacts
  <2> QED
    BY <1>2, <2>1, <2>2, <2>3 DEF TypeInv, TypeOK
<1>10. task'[t] = c /\ \A u \in Tasks \ {t} : task'[u] = task[u]
  BY <1>5 DEF TypeInv, TypeOK
<1> QED
  BY <1>1, <1>2, <1>7, <1>8, <1>9, <1>10, ClaimFacts, OneCallMoves

(* A token is spent, and the call that presented it is over.               *)
LEMMA SpendAndFinish ==
  ASSUME TypeInv, NEW t \in Tasks, NEW tk, ClaimToken(tk), Finish(t),
         UNCHANGED <<txns, durable, lock, world>>
  PROVE  TypeInv'
<1>1. TypeOK'
  BY ClaimFacts, FinishEffect DEF TypeInv, TypeOK, durable, world
<1>2. TxnsKeep(txns, txns') /\ Len(backups') >= Len(backups)
  BY KeepRefl DEF durable
<1> QED
  BY <1>1, <1>2, ClaimFacts, FinishEffect, OneCallMoves

(* A rollback that has something left to restore points at a savepoint.    *)
LEMMA UndoingType ==
  ASSUME TypeInv, NEW t \in Tasks, task[t].pc \in {"rb_undo", "rb_wait"}, task[t].k > 0
  PROVE  Undoing(t) \in Savepoints
<1>1. task[t] \in Calls /\ task[t].txn \in DOMAIN txns
      /\ task[t].k <= Len(txns[task[t].txn].saves)
  BY CallFacts DEF CallFits
<1> QED
  BY <1>1, SavepointsOf DEF Undoing, Calls

(* One savepoint, or one executed item of a batch, less to restore.        *)
LEMMA OneLess ==
  ASSUME NEW c \in Calls, NEW d \in Calls,
         NEW toks \in Seq(Tokens), NEW xs \in Seq(Txns), NEW baks,
         CallFits(c, toks, xs, baks),
         c.k > 0, d.k = c.k - 1, d.tok = c.tok, d.txn = c.txn, d.baks = c.baks,
         \/ c.pc \in {"rb_undo", "rb_wait"} /\ d.pc = "rb_undo"
         \/ c.pc \in {"b_undo", "b_uwait"} /\ d.pc = "b_undo"
  PROVE  CallFits(d, toks, xs, baks)
<1>1. c.k \in Nat /\ d.k \in Nat /\ Len(c.baks) \in Nat
  BY SeqIsFun DEF Calls
<1>2. CASE c.pc \in {"rb_undo", "rb_wait"} /\ d.pc = "rb_undo"
  <2>1. c.txn \in DOMAIN xs /\ c.k <= Len(xs[c.txn].saves)
    BY <1>2 DEF CallFits
  <2>2. Len(xs[c.txn].saves) \in Nat
    BY <2>1, SeqIsFun DEF Txns
  <2>3. d.k <= Len(xs[c.txn].saves)
    BY <1>1, <2>1, <2>2
  <2> QED
    BY <1>2, <2>1, <2>3 DEF CallFits, AtItem, AtDashboard
<1>3. CASE c.pc \in {"b_undo", "b_uwait"} /\ d.pc = "b_undo"
  <2>1. c.tok \in DOMAIN toks /\ toks[c.tok].items \in Seq(Items)
    <3>1. c.tok \in DOMAIN toks
      BY <1>3 DEF CallFits
    <3>2. toks[c.tok] \in Tokens
      BY <3>1, SeqIsFun
    <3> QED
      BY <3>1, <3>2 DEF Tokens
  <2>2. c.k <= Len(toks[c.tok].items) /\ Len(toks[c.tok].items) \in Nat
    BY <1>3, <2>1, SeqIsFun DEF CallFits, AtItem
  <2>3. Len(c.baks) >= c.k
    BY <1>3 DEF CallFits
  <2>4. d.k <= Len(toks[c.tok].items) /\ Len(d.baks) >= d.k
    BY <1>1, <2>2, <2>3
  <2> QED
    BY <1>3, <2>1, <2>4 DEF CallFits, AtItem, AtDashboard
<1> QED
  BY <1>2, <1>3

(* The steps of haops_rollback keep the type invariant.                    *)
LEMMA RollbackStepType ==
  ASSUME TypeInv, NEW t \in Tasks, RollbackStep(t)
  PROVE  TypeInv'
<1>0. task[t] \in Calls /\ CallFits(task[t], tokens, txns, backups)
  BY CallFacts
<1>1. CASE \E tk \in DOMAIN tokens : RollbackClaim(t, tk)
  BY <1>1, RollbackClaimType
<1>2. CASE \E tk \in DOMAIN tokens : RollbackMismatch(t, tk)
  BY <1>2, SpendAndFinish DEF RollbackMismatch
<1>3. CASE RollbackRefuse(t)
  BY <1>3, IdleFits, CallGoesOn, Unchanging DEF RollbackRefuse, Finish, memory
<1>4. CASE RollbackFile(t)
  <2> DEFINE c  == [task[t] EXCEPT !.k = @ - 1]
             sp == Undoing(t)
             v  == IF sp.created THEN Absent ELSE Restored(sp.res, sp.content)
  <2>1. task[t].pc = "rb_undo" /\ task[t].k > 0 /\ sp \in Savepoints
    BY <1>4, UndoingType DEF RollbackFile, At
  <2>2. sp.res \in Resources /\ v \in Contents \cup {Absent}
    BY <2>1, WrittenType DEF Savepoints, Restored
  <2>3. Write(sp.res, v, "undo", task[t].tok)
    BY <1>4 DEF RollbackFile
  <2>4. WorldOK'
    <3> HIDE DEF sp, v
    <3> QED
      BY <1>4, <2>2, <2>3, WriteEffect, Unchanging DEF RollbackFile, WorldOK, Writers
  <2>5. task[t].k - 1 \in Nat
    BY <1>0, <2>1 DEF Calls
  <2>6. c \in Calls
    BY <1>0, <2>5 DEF Calls
  <2>7. CallFits(c, tokens, txns, backups)
    <3>1. /\ c.k = task[t].k - 1 /\ c.pc = "rb_undo"
          /\ c.tok = task[t].tok /\ c.txn = task[t].txn /\ c.baks = task[t].baks
      BY <1>0, <2>1 DEF Calls
    <3> HIDE DEF c
    <3> QED
      BY <1>0, <2>1, <2>6, <3>1, OneLess DEF TypeInv, TypeOK
  <2>8. /\ task' = [task EXCEPT ![t] = c]
        /\ UNCHANGED <<tokens, txns, durable, lock, loop>>
    BY <1>4 DEF RollbackFile, memory
  <2> HIDE DEF c
  <2> QED
    BY <2>4, <2>6, <2>7, <2>8, CallGoesOn, Unchanging DEF durable
<1>5. CASE RollbackFileFails(t)
  <2> DEFINE c == [task[t] EXCEPT !.k = @ - 1, !.dirty = TRUE]
  <2>1. task[t].pc = "rb_undo" /\ task[t].k > 0
    BY <1>5 DEF RollbackFileFails, At
  <2>2. task[t].k - 1 \in Nat
    BY <1>0, <2>1 DEF Calls
  <2>3. c \in Calls
    BY <1>0, <2>2 DEF Calls
  <2>4. CallFits(c, tokens, txns, backups)
    <3>1. /\ c.k = task[t].k - 1 /\ c.pc = "rb_undo"
          /\ c.tok = task[t].tok /\ c.txn = task[t].txn /\ c.baks = task[t].baks
      BY <1>0, <2>1 DEF Calls
    <3> HIDE DEF c
    <3> QED
      BY <1>0, <2>1, <2>3, <3>1, OneLess DEF TypeInv, TypeOK
  <2>5. /\ task' = [task EXCEPT ![t] = c]
        /\ UNCHANGED <<tokens, txns, durable, lock, loop, world>>
    BY <1>5 DEF RollbackFileFails, memory
  <2> HIDE DEF c
  <2> QED
    BY <2>3, <2>4, <2>5, CallGoesOn, Unchanging DEF durable
<1>6. CASE RollbackCrashes(t)
  BY <1>6, IdleFits, CallGoesOn, Unchanging DEF RollbackCrashes, Finish, memory
<1>7. CASE RollbackDashboard(t)
  <2> DEFINE c  == [task[t] EXCEPT !.pc = "rb_wait"]
             sp == Undoing(t)
  <2>1. task[t].pc = "rb_undo" /\ task[t].k > 0 /\ sp \in Savepoints
        /\ task[t].tok \in TokenIds
    BY <1>7, UndoingType, CallFacts DEF RollbackDashboard, At
  <2>2. sp.res \in Dashboards /\ sp.content \in Contents /\ task[t].k \in Nat
    BY <1>0, <1>7, <2>1 DEF RollbackDashboard, Savepoints, Calls
  <2>3. inflight' \subseteq Saves
    BY <1>7, <2>1, <2>2, SendEffect DEF RollbackDashboard
  <2>4. WorldOK'
    BY <1>7, <2>3 DEF RollbackDashboard, WorldOK, TypeInv, TypeOK
  <2>5. c \in Calls /\ CallFits(c, tokens, txns, backups)
    <3>1. c \in Calls /\ c.k = task[t].k /\ c.k >= 1 /\ c.tok = task[t].tok
          /\ c.txn = task[t].txn /\ c.baks = task[t].baks /\ c.pc = "rb_wait"
      BY <1>0, <2>1 DEF Calls, Points
    <3> HIDE DEF c
    <3> QED
      BY <1>0, <2>1, <3>1 DEF CallFits, AtItem, AtDashboard
  <2>6. /\ task' = [task EXCEPT ![t] = c]
        /\ UNCHANGED <<tokens, txns, durable, lock>> /\ loop' = None
    BY <1>7 DEF RollbackDashboard, memory
  <2> HIDE DEF c
  <2> QED
    BY <2>4, <2>5, <2>6, CallGoesOn, Unchanging DEF durable
<1>8. CASE RollbackAnswered(t)
  <2> DEFINE failed == task[t].dirty \/ task[t].reply = "err"
             c == [task[t] EXCEPT !.pc = "rb_undo", !.k = @ - 1, !.reply = "none",
                                  !.dirty = failed]
  <2>1. failed \in BOOLEAN
    BY <1>0 DEF Calls
  <2>2. task' = [task EXCEPT ![t] = c]
    BY <1>8 DEF RollbackAnswered
  <2>3. task[t].pc = "rb_wait" /\ task[t].k > 0
    BY <1>0, <1>8 DEF RollbackAnswered, At, CallFits, Calls
  <2>4. task[t].k - 1 \in Nat
    BY <1>0, <2>3 DEF Calls
  <2>5. c \in Calls
    <3> HIDE DEF failed
    <3> QED
      BY <1>0, <2>1, <2>4 DEF Calls, Points
  <2>6. CallFits(c, tokens, txns, backups)
    <3>1. /\ c.k = task[t].k - 1 /\ c.pc = "rb_undo"
          /\ c.tok = task[t].tok /\ c.txn = task[t].txn /\ c.baks = task[t].baks
      BY <1>0, <2>3 DEF Calls
    <3> HIDE DEF c
    <3> QED
      BY <1>0, <2>3, <2>5, <3>1, OneLess DEF TypeInv, TypeOK
  <2>7. UNCHANGED <<tokens, txns, durable, lock, world>> /\ loop' = t
    BY <1>8 DEF RollbackAnswered, memory
  <2> HIDE DEF c
  <2> QED
    BY <2>2, <2>5, <2>6, <2>7, CallGoesOn, Unchanging DEF durable
<1>9. CASE RollbackEnd(t)
  <2>1. task[t].tok \in TokenIds /\ task[t].dirty \in BOOLEAN
    BY <1>0, <1>9, CallFacts DEF RollbackEnd, At, Calls
  <2>2. audit' \in Seq(AuditEntries)
    <3> DEFINE ok == ~task[t].dirty
    <3>1. ok \in BOOLEAN /\ LogOperation(task[t].tok, ok, task[t].dirty)
      BY <1>9 DEF RollbackEnd
    <3> HIDE DEF ok
    <3> QED
      BY <2>1, <3>1, LogEffect
  <2> QED
    BY <1>9, <2>2, IdleFits, CallGoesOn, Unchanging DEF RollbackEnd, Finish, memory, DurableOK
<1> QED
  BY <1>1, <1>2, <1>3, <1>4, <1>5, <1>6, <1>7, <1>8, <1>9 DEF RollbackStep

-----------------------------------------------------------------------------
(* BackupTools.                                                            *)

(* A token is spent and no call begins.                                    *)
LEMMA SpendOnly ==
  ASSUME TypeInv, NEW tk, ClaimToken(tk), UNCHANGED <<txns, task, lock, loop>>,
         DurableOK', Len(backups') >= Len(backups), WorldOK'
  PROVE  TypeInv'
<1>1. TypeOK'
  BY ClaimFacts DEF TypeInv, TypeOK, DurableOK, WorldOK
<1>2. \A t \in Tasks : CallFits(task'[t], tokens', txns', backups')
  <2> TAKE t \in Tasks
  <2>1. task[t] \in Calls /\ CallFits(task[t], tokens, txns, backups)
    BY CallFacts
  <2>2. TokensKeep(tokens, tokens') /\ TxnsKeep(txns, txns')
    BY ClaimFacts, KeepRefl
  <2> QED
    BY <1>1, <2>1, <2>2, FitsStays DEF TypeInv, TypeOK
<1> QED
  BY <1>1, <1>2, ClaimFacts DEF TypeInv, WellFormed

(* A call begins, as c.                                                    *)
LEMMA CallBegins ==
  ASSUME TypeInv, NEW t \in Tasks, NEW tk, ClaimToken(tk), NEW c \in Calls,
         task' = [task EXCEPT ![t] = c],
         txns' \in Seq(Txns), TxnsKeep(txns, txns'),
         UNCHANGED <<backups, audit, lock>>, loop' \in Tasks \cup {None}, WorldOK',
         CallFits(c, tokens', txns', backups')
  PROVE  TypeInv'
<1>1. task' \in [Tasks -> Calls] /\ task'[t] = c
      /\ \A u \in Tasks \ {t} : task'[u] = task[u]
  BY DEF TypeInv, TypeOK
<1>2. TypeOK'
  BY <1>1, ClaimFacts DEF TypeInv, TypeOK, WorldOK
<1>3. Len(backups') >= Len(backups)
  BY KeepRefl
<1> QED
  BY <1>1, <1>2, <1>3, ClaimFacts, OneCallMoves

(* The preview of haops_backup_revert keeps the type invariant.            *)
LEMMA RevertPreviewType ==
  ASSUME TypeInv, NEW b \in DOMAIN backups, RevertPreview(b)
  PROVE  TypeInv'
<1> DEFINE e  == backups[b]
           it == [res |-> e.res, old |-> OrEmpty(content[e.res]), new |-> e.text,
                  create |-> FALSE]
<1>1. e \in BackupEntries
  BY SeqIsFun DEF TypeInv, TypeOK
<1>2. e.res \in Resources /\ e.text \in Contents
  BY <1>1 DEF BackupEntries
<1>3. OrEmpty(content[e.res]) \in Contents
  BY <1>2, ContextAssumption DEF OrEmpty, TypeInv, TypeOK
<1>4. it \in Items
  BY <1>2, <1>3, NewItem
<1>5. CreateToken("backup_revert", <<it>>, 0) /\ UNCHANGED <<txns, durable, sched, world>>
  BY DEF RevertPreview
<1> HIDE DEF it
<1>6. <<it>> \in Seq(Items)
  BY <1>4
<1>7. SingleItem([action |-> "backup_revert", items |-> <<it>>, txn |-> 0, state |-> "live"])
  BY DEF SingleItem
<1> QED
  BY <1>5, <1>6, <1>7, PreviewStep DEF Actions

(* The claim of haops_backup_revert keeps the type invariant.              *)
LEMMA RevertConfirmType ==
  ASSUME TypeInv, NEW t \in Tasks, NEW tk, NEW b, RevertConfirm(t, tk, b)
  PROVE  TypeInv'
<1> DEFINE it == tokens[tk].items[1]
           c(pc) == [Idle EXCEPT !.pc = pc, !.tok = tk, !.txn = Len(txns) + 1, !.k = 1]
<1>1. ClaimToken(tk) /\ tokens[tk].action = "backup_revert"
      /\ Begin(tk, <<Savepoint(it.res, it.old, FALSE, 1)>>)
      /\ UNCHANGED <<durable, lock, content, writer, replaced, unsure>>
  BY DEF RevertConfirm
<1>2. tokens[tk].items \in Seq(Items) /\ Len(tokens[tk].items) = 1
  BY <1>1, ClaimFacts DEF SingleItem
<1>3. it \in Items /\ 1 \in DOMAIN tokens[tk].items
  <2>1. tokens[tk].items \in [1..1 -> Items]
    BY <1>2, SeqIsFun
  <2> QED
    BY <2>1
<1>4. it.res \in Resources /\ it.old \in Contents /\ it.new \in Contents
  BY <1>3 DEF Items
<1>5. txns' \in Seq(Txns) /\ TxnsKeep(txns, txns')
  <2> DEFINE sp == Savepoint(it.res, it.old, FALSE, 1)
  <2>1. sp \in Savepoints /\ Begin(tk, <<sp>>)
    BY <1>1, <1>4, NewSavepoint
  <2> HIDE DEF sp
  <2>2. <<sp>> \in Seq(Savepoints)
    BY <2>1
  <2> QED
    BY <1>1, <2>1, <2>2, ClaimFacts, BeginEffect
<1>6. c("rv_write") \in Calls /\ c("rv_wait") \in Calls
  <2>1. Len(txns) + 1 \in Nat
    BY SeqIsFun DEF TypeInv, TypeOK
  <2>2. "rv_write" \in Points /\ "rv_wait" \in Points
    BY DEF Points
  <2>3. tk \in {0} \cup TokenIds /\ 1 \in Nat
    BY <1>1, ClaimFacts
  <2> QED
    BY <2>1, <2>2, <2>3, StartType
<1>7. /\ CallFits(c("rv_write"), tokens', txns', backups')
      /\ CallFits(c("rv_wait"), tokens', txns', backups')
  BY <1>1, <1>3, ClaimFacts DEF CallFits, Idle, AtItem, AtDashboard
<1>8. UNCHANGED <<backups, audit, lock>>
  BY <1>1 DEF durable
<1>9. CASE it.res \in Files
  <2>1. task' = [task EXCEPT ![t] = c("rv_write")] /\ loop' = t /\ UNCHANGED inflight
    BY <1>9 DEF RevertConfirm
  <2>2. WorldOK'
    BY <1>1, <2>1 DEF TypeInv, TypeOK, WorldOK
  <2> HIDE DEF c
  <2> QED
    BY <1>1, <1>5, <1>6, <1>7, <1>8, <2>1, <2>2, CallBegins
<1>10. CASE it.res \notin Files
  <2>1. /\ task' = [task EXCEPT ![t] = c("rv_wait")] /\ UNCHANGED loop
        /\ Send(tk, 1, "do", it.res, it.new, FALSE)
    BY <1>10 DEF RevertConfirm
  <2>2. it.res \in Dashboards
    BY <1>4, <1>10 DEF Resources
  <2>3. inflight' \subseteq Saves
    BY <1>1, <1>4, <2>1, <2>2, ClaimFacts, SendEffect
  <2>4. WorldOK' /\ loop' \in Tasks \cup {None}
    BY <1>1, <2>1, <2>3 DEF TypeInv, TypeOK, WorldOK
  <2> HIDE DEF c
  <2> QED
    BY <1>1, <1>5, <1>6, <1>7, <1>8, <2>1, <2>4, CallBegins
<1> QED
  BY <1>9, <1>10

(* The steps of haops_backup_revert keep the type invariant.               *)
LEMMA RevertStepType ==
  ASSUME TypeInv, NEW t \in Tasks, RevertStep(t)
  PROVE  TypeInv'
<1>0. task[t] \in Calls /\ CallFits(task[t], tokens, txns, backups)
  BY CallFacts
<1>1. CASE RevertWrite(t)
  <2> DEFINE c == [task[t] EXCEPT !.pc = "rv_commit"]
  <2>1. Item(t) \in Items /\ task[t].pc = "rv_write"
    BY <1>1, CallFacts DEF RevertWrite, At, AtItem
  <2>2. Item(t).res \in Resources /\ Item(t).new \in Contents
    BY <2>1 DEF Items
  <2>3. WorldOK'
    BY <1>1, <2>2, WriteEffect, ReplaceEffect, Unchanging DEF RevertWrite, WorldOK, Writers
  <2>4. c \in Calls /\ CallFits(c, tokens, txns, backups)
    BY <1>0, <2>1 DEF Calls, Points, CallFits, AtItem, AtDashboard
  <2> HIDE DEF c
  <2> QED
    BY <1>1, <2>3, <2>4, CallGoesOn, Unchanging DEF RevertWrite, memory, durable, c
<1>2. CASE RevertCommit(t)
  <2>1. task[t].tok \in TokenIds
    BY <1>2, CallFacts DEF RevertCommit, At
  <2>2. audit' \in Seq(AuditEntries)
    BY <1>2, <2>1, LogEffect DEF RevertCommit
  <2>3. txns' \in Seq(Txns) /\ TxnsKeep(txns, txns')
    BY <1>2, SetStateEffect DEF RevertCommit, Commit
  <2> QED
    BY <1>2, <2>2, <2>3, IdleFits, CallGoesOn, Unchanging
       DEF RevertCommit, Finish, DurableOK
<1>3. CASE RevertFails(t)
  BY <1>3, IdleFits, CallGoesOn, Unchanging DEF RevertFails, Finish, memory, durable
<1> QED
  BY <1>1, <1>2, <1>3 DEF RevertStep

(* A revert with the wrong token keeps the type invariant.                 *)
LEMMA RevertMismatchType ==
  ASSUME TypeInv, NEW t, NEW tk, NEW b, RevertMismatch(t, tk, b)
  PROVE  TypeInv'
BY SpendOnly, Unchanging DEF RevertMismatch, sched

(* haops_backup_prune keeps the type invariant.                            *)
LEMMA PruneType ==
  ASSUME TypeInv, PrunePreview \/ \E tk \in DOMAIN tokens : PruneConfirm(tk)
  PROVE  TypeInv'
<1>1. CASE PrunePreview
  <2>1. SingleItem([action |-> "backup_prune", items |-> <<>>, txn |-> 0, state |-> "live"])
    BY DEF SingleItem
  <2>2. <<>> \in Seq(Items) /\ "backup_prune" \in Actions /\ 0 \in Nat
    BY DEF Actions
  <2> QED
    BY <1>1, <2>1, <2>2, PreviewStep DEF PrunePreview
<1>2. ASSUME NEW tk \in DOMAIN tokens, PruneConfirm(tk)
      PROVE  TypeInv'
  <2>1. ClaimToken(tk) /\ LogOperation(tk, TRUE, FALSE) /\ UNCHANGED <<txns, sched, world>>
    BY <1>2 DEF PruneConfirm
  <2>2. audit' \in Seq(AuditEntries)
    BY <2>1, ClaimFacts, LogEffect
  <2>3. backups' \in Seq(BackupEntries) /\ Len(backups') >= Len(backups)
    <3>1. CASE backups' = [b \in DOMAIN backups |-> [backups[b] EXCEPT !.kept = FALSE]]
      <4>1. /\ backups \in [1..Len(backups) -> BackupEntries]
            /\ DOMAIN backups = 1..Len(backups) /\ Len(backups) \in Nat
        BY SeqIsFun DEF TypeInv, TypeOK
      <4>2. \A b \in 1..Len(backups) : [backups[b] EXCEPT !.kept = FALSE] \in BackupEntries
        BY <4>1 DEF BackupEntries
      <4>3. backups' \in [1..Len(backups) -> BackupEntries]
        BY <3>1, <4>1, <4>2
      <4> QED
        BY <4>1, <4>3, FunIsSeq
    <3>2. CASE UNCHANGED backups
      BY <3>2, Unchanging
    <3> QED
      BY <1>2, <3>1, <3>2 DEF PruneConfirm
  <2> QED
    BY <2>1, <2>2, <2>3, SpendOnly, Unchanging DEF sched, DurableOK
<1> QED
  BY <1>1, <1>2

-----------------------------------------------------------------------------
(* BatchTools.                                                             *)

(* An item of a batch is well-typed, whether it is prepared against what   *)
(* is there or against what an earlier item of the batch leaves.           *)
LEMMA PreparedType ==
  ASSUME TypeInv, NEW n \in Nat, NEW rs \in [1..n -> Resources],
         NEW cs \in [1..n -> Contents], NEW k \in 1..n
  PROVE  PreparedItem(rs, cs, k) \in Items
<1>1. Prepared(rs, cs, k) \in Contents \cup {Absent}
  <2>1. CASE Earlier(rs, k) = {}
    BY <2>1 DEF Prepared, TypeInv, TypeOK
  <2>2. CASE Earlier(rs, k) # {}
    <3>1. Earlier(rs, k) \in SUBSET (1..(k - 1)) /\ k - 1 \in Nat
      BY DEF Earlier
    <3>2. Max(Earlier(rs, k)) \in Earlier(rs, k)
      BY <2>2, <3>1, MaxOfRange
    <3>3. Max(Earlier(rs, k)) \in 1..n
      BY <3>1, <3>2
    <3> QED
      BY <2>2, <3>3 DEF Prepared
  <2> QED
    BY <2>1, <2>2
<1>2. OrEmpty(Prepared(rs, cs, k)) \in Contents
  BY <1>1, ContextAssumption DEF OrEmpty
<1> DEFINE create == Prepared(rs, cs, k) = Absent
<1>3. create \in BOOLEAN
  OBVIOUS
<1>4. rs[k] \in Resources /\ cs[k] \in Contents
  OBVIOUS
<1>5. PreparedItem(rs, cs, k) = [res |-> rs[k], old |-> OrEmpty(Prepared(rs, cs, k)),
                                 new |-> cs[k], create |-> create]
  BY DEF PreparedItem
<1> HIDE DEF create
<1> QED
  BY <1>2, <1>3, <1>4, <1>5, NewItem

(* The preview of a batch keeps the type invariant.                        *)
LEMMA BatchPreviewType ==
  ASSUME TypeInv, NEW n \in 1..MaxItems, NEW rs \in [1..n -> Resources],
         NEW cs \in [1..n -> Contents], BatchPreview(rs, cs)
  PROVE  TypeInv'
<1> DEFINE items == [k \in DOMAIN rs |-> PreparedItem(rs, cs, k)]
<1>1. n \in Nat
  BY ContextAssumption
<1>2. items \in [1..n -> Items]
  BY <1>1, PreparedType
<1>3. items \in Seq(Items)
  BY <1>1, <1>2, FunIsSeq
<1>4. CreateToken("batch_apply", items, 0) /\ UNCHANGED <<txns, durable, sched, world>>
  BY DEF BatchPreview
<1> HIDE DEF items
<1>5. SingleItem([action |-> "batch_apply", items |-> items, txn |-> 0, state |-> "live"])
  BY DEF SingleItem
<1> QED
  BY <1>3, <1>4, <1>5, PreviewStep DEF Actions

(* The claim of haops_batch_apply keeps the type invariant.                *)
LEMMA BatchApplyType ==
  ASSUME TypeInv, NEW t \in Tasks, NEW tk, BatchApply(t, tk)
  PROVE  TypeInv'
<1>1. ClaimToken(tk) /\ UNCHANGED <<durable, lock, world>>
  BY DEF BatchApply
<1>2. CASE UNCHANGED <<txns, loop, task>>
  BY <1>1, <1>2, SpendOnly, Unchanging
<1>3. CASE /\ Begin(tk, <<>>)
           /\ task' = [task EXCEPT ![t] = [Idle EXCEPT !.pc = "b_item",
                         !.tok = tk, !.txn = Len(txns) + 1, !.k = 1]]
           /\ loop' = t
  <2> DEFINE c == [Idle EXCEPT !.pc = "b_item", !.tok = tk, !.txn = Len(txns) + 1, !.k = 1]
  <2>1. txns' \in Seq(Txns) /\ TxnsKeep(txns, txns')
    <3>1. <<>> \in Seq(Savepoints)
      OBVIOUS
    <3> QED
      BY <1>1, <1>3, <3>1, ClaimFacts, BeginEffect
  <2>2. c \in Calls
    <3>1. Len(txns) + 1 \in Nat /\ "b_item" \in Points
      BY SeqIsFun DEF TypeInv, TypeOK, Points
    <3>2. tk \in {0} \cup TokenIds /\ 1 \in Nat
      BY <1>1, ClaimFacts
    <3> QED
      BY <3>1, <3>2, StartType
  <2>3. CallFits(c, tokens', txns', backups')
    BY <1>1, ClaimFacts DEF CallFits, Idle, AtItem, AtDashboard
  <2>4. WorldOK' /\ loop' \in Tasks \cup {None} /\ UNCHANGED <<backups, audit, lock>>
    BY <1>1, <1>3, Unchanging DEF durable
  <2>5. task' = [task EXCEPT ![t] = c]
    BY <1>3
  <2> HIDE DEF c
  <2> QED
    BY <1>1, <2>1, <2>2, <2>3, <2>4, <2>5, CallBegins
<1> QED
  BY <1>2, <1>3 DEF BatchApply

(* A batch that fails at item k turns to the k - 1 items before it.        *)
LEMMA AbortEffect ==
  ASSUME TypeInv, NEW t \in Tasks, Abort(t),
         \/ task[t].pc \in {"b_lock", "b_write", "b_wait"}
         \/ task[t].pc = "b_item" /\ MoreItems(t),
         UNCHANGED <<tokens, txns, durable, world>>,
         lock' \in [Dashboards -> Tasks \cup {None}]
  PROVE  TypeInv'
<1> DEFINE c == [task[t] EXCEPT !.pc = "b_undo", !.reply = "none",
                                !.k = task[t].k - 1, !.n = task[t].k - 1]
<1>1. task[t] \in Calls /\ CallFits(task[t], tokens, txns, backups) /\ Token(t) \in Tokens
  BY CallFacts
<1>2. Token(t).items \in Seq(Items) /\ task[t].k \in DOMAIN Token(t).items
  BY <1>1 DEF Tokens, CallFits, AtItem, MoreItems, Token
<1>3. /\ task[t].k \in Nat /\ task[t].k - 1 \in Nat
      /\ task[t].k <= Len(Token(t).items) /\ Len(Token(t).items) \in Nat
  BY <1>2, SeqIsFun
<1>4. c \in Calls
  BY <1>1, <1>3 DEF Calls, Points
<1>5. Len(task[t].baks) \in Nat
  BY <1>1, SeqIsFun DEF Calls
<1>6. CallFits(c, tokens, txns, backups)
  <2>1. /\ c.pc = "b_undo" /\ c.k = task[t].k - 1 /\ c.tok = task[t].tok
        /\ c.baks = task[t].baks
    BY <1>1 DEF Calls
  <2>2. c.tok \in DOMAIN tokens
    BY <1>1, <2>1 DEF CallFits
  <2>3. Len(task[t].baks) >= task[t].k - 1
    BY <1>1, <1>3, <1>5 DEF CallFits
  <2>4. task[t].k - 1 <= Len(tokens[task[t].tok].items)
    BY <1>3 DEF Token
  <2> HIDE DEF c
  <2> QED
    BY <1>1, <2>1, <2>2, <2>3, <2>4 DEF CallFits, AtItem, AtDashboard
<1>7. task' = [task EXCEPT ![t] = c] /\ loop' = t
  BY DEF Abort
<1> HIDE DEF c
<1> QED
  BY <1>4, <1>6, <1>7, CallGoesOn, Unchanging DEF durable

(* The item a batch turns to: its token and its place in it.               *)
LEMMA NextItem ==
  ASSUME TypeInv, NEW t \in Tasks, task[t].pc = "b_item", MoreItems(t)
  PROVE  /\ task[t].k \in DOMAIN tokens[task[t].tok].items
         /\ Item(t) \in Items /\ Item(t).res \in Resources
         /\ Item(t).old \in Contents /\ Item(t).new \in Contents
<1>1. Token(t) \in Tokens
  BY CallFacts
<1>2. Token(t).items \in Seq(Items) /\ task[t].k \in DOMAIN Token(t).items
  BY <1>1 DEF Tokens, MoreItems
<1>3. Item(t) \in Items
  BY <1>2, SeqIsFun DEF Item
<1> QED
  BY <1>2, <1>3 DEF Token, Items

(* An item that is about to be written, with the backup that was made of   *)
(* its target.                                                             *)
LEMMA NotesBackup ==
  ASSUME TypeInv, NEW t \in Tasks, NEW pc \in {"b_write", "b_wait"}, NEW b \in Nat,
         task[t].pc \in {"b_item", "b_lock"},
         task[t].k \in DOMAIN tokens[task[t].tok].items,
         pc = "b_wait" => tokens[task[t].tok].items[task[t].k].res \in Dashboards,
         backups' \in Seq(BackupEntries),
         Len(backups') >= Len(backups), Len(backups') >= b
  PROVE  LET c == [task[t] EXCEPT !.pc = pc, !.baks = Append(task[t].baks, b)]
         IN  c \in Calls /\ CallFits(c, tokens, txns, backups')
<1> DEFINE bs == Append(task[t].baks, b)
           c == [task[t] EXCEPT !.pc = pc, !.baks = bs]
<1>1. task[t] \in Calls /\ CallFits(task[t], tokens, txns, backups)
      /\ task[t].tok \in DOMAIN tokens
  BY CallFacts
<1>2. task[t].baks \in Seq(Nat) /\ task[t].k \in Nat
  BY <1>1 DEF Calls
<1>3. bs \in Seq(Nat) /\ Len(bs) = Len(task[t].baks) + 1 /\ Len(task[t].baks) \in Nat
      /\ DOMAIN bs = 1..(Len(task[t].baks) + 1)
      /\ \A j \in DOMAIN bs : \/ j \in DOMAIN task[t].baks /\ bs[j] = task[t].baks[j]
                              \/ bs[j] = b
  BY <1>2, SeqAppend, SeqIsFun
<1> HIDE DEF bs
<1>4. c \in Calls
  BY <1>1, <1>3 DEF Calls, Points
<1>5. c.pc = pc /\ c.k = task[t].k /\ c.tok = task[t].tok /\ c.baks = bs
  BY <1>1 DEF Calls
<1>6. \A j \in DOMAIN bs : bs[j] <= Len(backups')
  <2>1. \A j \in DOMAIN task[t].baks : task[t].baks[j] <= Len(backups) /\ task[t].baks[j] \in Nat
    BY <1>1, <1>2, SeqIsFun DEF CallFits
  <2>2. Len(backups') \in Nat /\ Len(backups) \in Nat
    BY SeqIsFun DEF TypeInv, TypeOK
  <2> TAKE j \in DOMAIN bs
  <2>3. CASE j \in DOMAIN task[t].baks /\ bs[j] = task[t].baks[j]
    <3> DEFINE v == task[t].baks[j]
    <3>1. v <= Len(backups) /\ v \in Nat /\ bs[j] = v
      BY <2>1, <2>3
    <3> HIDE DEF v
    <3> QED
      BY <2>2, <3>1
  <2>4. CASE bs[j] = b
    BY <2>2, <2>4
  <2> QED
    BY <1>3, <2>3, <2>4
<1>7. Len(bs) = task[t].k
  <2>1. Len(task[t].baks) = task[t].k - 1
    BY <1>1 DEF CallFits
  <2> QED
    BY <1>2, <1>3, <2>1
<1>8. CallFits(c, tokens, txns, backups')
  <2> HIDE DEF c
  <2> QED
    BY <1>1, <1>5, <1>6, <1>7 DEF CallFits, AtItem, AtDashboard
<1> QED
  BY <1>4, <1>8 DEF bs

(* Recheck and backup of a file item keep the type invariant.              *)
LEMMA BatchFileType ==
  ASSUME TypeInv, NEW t \in Tasks, BatchFile(t)
  PROVE  TypeInv'
<1> DEFINE backed == BackupOnWrite /\ ~Item(t).create
           b == IF backed THEN Len(backups) + 1 ELSE 0
           c == [task[t] EXCEPT !.pc = "b_write", !.baks = Append(task[t].baks, b)]
<1>1. task[t].pc = "b_item" /\ MoreItems(t) /\ Len(backups) \in Nat
  BY SeqIsFun DEF BatchFile, At, TypeInv, TypeOK
<1>2. task[t].k \in DOMAIN tokens[task[t].tok].items /\ Item(t).res \in Resources
      /\ Item(t).old \in Contents
  BY <1>1, NextItem
<1>3. /\ task' = [task EXCEPT ![t] = c]
      /\ IF backed THEN BackUp(Item(t).res, Item(t).old) ELSE UNCHANGED backups
      /\ UNCHANGED <<tokens, txns, audit, lock, loop, world>>
  BY DEF BatchFile, memory
<1>4. b \in Nat /\ backups' \in Seq(BackupEntries)
      /\ Len(backups') >= Len(backups) /\ Len(backups') >= b
  BY <1>1, <1>2, <1>3, BackUpEffect, Unchanging
<1> HIDE DEF b
<1>5. c \in Calls /\ CallFits(c, tokens, txns, backups')
  BY <1>1, <1>2, <1>4, NotesBackup
<1> HIDE DEF c
<1> QED
  BY <1>3, <1>4, <1>5, CallGoesOn, Unchanging DEF DurableOK

(* The write of a file item keeps the type invariant.                      *)
LEMMA BatchWriteType ==
  ASSUME TypeInv, NEW t \in Tasks, BatchWrite(t)
  PROVE  TypeInv'
<1> DEFINE c  == [task[t] EXCEPT !.pc = "b_item", !.k = task[t].k + 1]
           it == Item(t)
<1>1. task[t].pc = "b_write" /\ task[t] \in Calls /\ it \in Items
      /\ CallFits(task[t], tokens, txns, backups)
  BY CallFacts DEF BatchWrite, At, AtItem
<1>2. it.res \in Resources /\ Written(it.res, it.new) \in Contents /\ task[t].k \in Nat
      /\ it.old \in Contents /\ it.create \in BOOLEAN
  BY <1>1, WrittenType DEF Items, Calls
<1>3. WorldOK'
  BY <1>2, WriteEffect, ReplaceEffect, Unchanging DEF BatchWrite, WorldOK, Writers
<1>4. txns' \in Seq(Txns) /\ TxnsKeep(txns, txns')
  <2> DEFINE old == IF it.create THEN Empty ELSE it.old
             sp  == Savepoint(it.res, old, it.create, task[t].k)
  <2>1. old \in Contents
    BY <1>2, ContextAssumption
  <2>2. AddSavepoint(task[t].txn, sp)
    BY DEF BatchWrite
  <2> HIDE DEF old, it
  <2>3. sp \in Savepoints
    BY <1>2, <2>1, NewSavepoint
  <2> HIDE DEF sp
  <2> QED
    BY <2>2, <2>3, AddSavepointEffect
<1>5. c \in Calls
  <2>1. task[t].k + 1 \in Nat
    BY <1>2
  <2> QED
    BY <1>1, <2>1 DEF Calls, Points
<1>6. c.pc = "b_item" /\ c.k = task[t].k + 1 /\ c.tok = task[t].tok /\ c.baks = task[t].baks
  BY <1>1 DEF Calls
<1>7. CallFits(c, tokens, txns, backups)
  <2> HIDE DEF c
  <2> QED
    BY <1>1, <1>2, <1>6 DEF CallFits, AtItem, AtDashboard
<1>8. CallFits(c, tokens, txns', backups)
  BY <1>4, <1>5, <1>7, FitsStays, KeepRefl DEF TypeInv, TypeOK
<1>9. /\ task' = [task EXCEPT ![t] = c]
      /\ UNCHANGED <<tokens, durable, lock, loop>>
  BY DEF BatchWrite
<1> HIDE DEF c
<1> QED
  BY <1>3, <1>4, <1>5, <1>8, <1>9, CallGoesOn, Unchanging DEF durable

(* Going to wait for the lock of a dashboard item does.                    *)
LEMMA BatchDashboardType ==
  ASSUME TypeInv, NEW t \in Tasks, BatchDashboard(t)
  PROVE  TypeInv'
<1> DEFINE c == [task[t] EXCEPT !.pc = "b_lock"]
<1>1. task[t].pc = "b_item" /\ MoreItems(t) /\ task[t] \in Calls
      /\ CallFits(task[t], tokens, txns, backups)
      /\ Item(t).res \in Dashboards
  BY CallFacts DEF BatchDashboard, At
<1>2. task[t].k \in DOMAIN tokens[task[t].tok].items
  BY <1>1, NextItem
<1>3. c \in Calls /\ CallFits(c, tokens, txns, backups)
  BY <1>1, <1>2 DEF Calls, Points, CallFits, AtItem, AtDashboard, Item, Token
<1>4. /\ task' = [task EXCEPT ![t] = c] /\ loop' = None
      /\ UNCHANGED <<tokens, txns, durable, lock, world>>
  BY DEF BatchDashboard, memory
<1> HIDE DEF c
<1> QED
  BY <1>3, <1>4, CallGoesOn, Unchanging DEF durable

(* Recheck, backup and save of a dashboard item do.                        *)
LEMMA BatchRecheckType ==
  ASSUME TypeInv, NEW t \in Tasks, BatchRecheck(t)
  PROVE  TypeInv'
<1> DEFINE it == Item(t)
           tk == task[t].tok
           backed == BackupOnWrite /\ it.old # Empty
           b == IF backed THEN Len(backups) + 1 ELSE 0
           c == [task[t] EXCEPT !.pc = "b_wait", !.baks = Append(task[t].baks, b)]
<1>1. task[t].pc = "b_lock" /\ task[t] \in Calls /\ it \in Items /\ tk \in TokenIds
      /\ task[t].k \in DOMAIN tokens[tk].items /\ it.res \in Dashboards
      /\ it = tokens[tk].items[task[t].k]
  BY CallFacts DEF BatchRecheck, At, AtItem, AtDashboard, CallFits, Item, Token
<1>2. it.old \in Contents /\ it.new \in Contents /\ it.res \in Resources
      /\ task[t].k \in Nat /\ Len(backups) \in Nat
  BY <1>1, SeqIsFun DEF Items, Calls, TypeInv, TypeOK
<1>3. PICK got \in Readings(it.res) :
        /\ Send(tk, task[t].k, "do", it.res, it.new, got # None)
        /\ unsure' = IF got = None THEN unsure \cup {tk} ELSE unsure
  BY DEF BatchRecheck
<1>4. WorldOK'
  <2> DEFINE checked == got # None
  <2>1. Send(tk, task[t].k, "do", it.res, it.new, checked) /\ checked \in BOOLEAN
    BY <1>3
  <2>2. unsure' \subseteq TokenIds
    BY <1>1, <1>3 DEF TypeInv, TypeOK
  <2>3. inflight' \subseteq Saves
    <3> HIDE DEF checked, it, tk
    <3> QED
      BY <1>1, <1>2, <2>1, SendEffect
  <2> QED
    BY <2>2, <2>3 DEF BatchRecheck, TypeInv, TypeOK, WorldOK
<1>5. /\ task' = [task EXCEPT ![t] = c]
      /\ IF backed THEN BackUp(it.res, it.old) ELSE UNCHANGED backups
      /\ lock' = [lock EXCEPT ![it.res] = t] /\ loop' = None
      /\ UNCHANGED <<tokens, txns, audit>>
  BY DEF BatchRecheck, Acquire, memory
<1>6. b \in Nat /\ backups' \in Seq(BackupEntries)
      /\ Len(backups') >= Len(backups) /\ Len(backups') >= b
  BY <1>2, <1>5, BackUpEffect, Unchanging
<1>7. lock' \in [Dashboards -> Tasks \cup {None}]
  BY <1>5 DEF TypeInv, TypeOK
<1> HIDE DEF b, it
<1>8. c \in Calls /\ CallFits(c, tokens, txns, backups')
  BY <1>1, <1>6, NotesBackup
<1> HIDE DEF c, tk
<1> QED
  BY <1>4, <1>5, <1>6, <1>7, <1>8, CallGoesOn, Unchanging DEF DurableOK

(* The success of a dashboard item does.                                   *)
LEMMA BatchSavedType ==
  ASSUME TypeInv, NEW t \in Tasks, BatchSaved(t)
  PROVE  TypeInv'
<1> DEFINE c  == [task[t] EXCEPT !.pc = "b_item", !.k = task[t].k + 1, !.reply = "none"]
           it == Item(t)
<1>1. task[t].pc = "b_wait" /\ task[t] \in Calls /\ it \in Items
      /\ CallFits(task[t], tokens, txns, backups)
  BY CallFacts DEF BatchSaved, At, AtItem
<1>2. it.res \in Resources /\ task[t].k \in Nat /\ it.old \in Contents
  BY <1>1 DEF Items, Calls
<1>3. txns' \in Seq(Txns) /\ TxnsKeep(txns, txns')
  <2> DEFINE sp == Savepoint(it.res, it.old, FALSE, task[t].k)
  <2>1. sp \in Savepoints /\ AddSavepoint(task[t].txn, sp)
    BY <1>2, NewSavepoint DEF BatchSaved
  <2> HIDE DEF sp
  <2> QED
    BY <2>1, AddSavepointEffect
<1>4. c \in Calls
  <2>1. task[t].k + 1 \in Nat
    BY <1>2
  <2> QED
    BY <1>1, <2>1 DEF Calls, Points
<1>5. c.pc = "b_item" /\ c.k = task[t].k + 1 /\ c.tok = task[t].tok /\ c.baks = task[t].baks
  BY <1>1 DEF Calls
<1>6. CallFits(c, tokens, txns, backups)
  <2> HIDE DEF c
  <2> QED
    BY <1>1, <1>2, <1>5 DEF CallFits, AtItem, AtDashboard
<1>7. CallFits(c, tokens, txns', backups)
  BY <1>3, <1>4, <1>6, FitsStays, KeepRefl DEF TypeInv, TypeOK
<1>8. /\ task' = [task EXCEPT ![t] = c] /\ Release(t) /\ loop' = t
      /\ UNCHANGED <<tokens, durable, world>>
  BY DEF BatchSaved
<1> HIDE DEF c
<1> QED
  BY <1>3, <1>4, <1>7, <1>8, CallGoesOn, Unchanging, ReleaseEffect DEF durable

(* The end of a batch, in success or in failure, does.                     *)
LEMMA BatchEndType ==
  ASSUME TypeInv, NEW t \in Tasks, BatchCommit(t) \/ BatchFailed(t)
  PROVE  TypeInv'
<1>1. task[t].tok \in TokenIds /\ task[t].dirty \in BOOLEAN
  BY CallFacts DEF BatchCommit, BatchFailed, At, Calls
<1>2. audit' \in Seq(AuditEntries)
  BY <1>1, LogEffect DEF BatchCommit, BatchFailed
<1>3. txns' \in Seq(Txns) /\ TxnsKeep(txns, txns')
  BY SetStateEffect DEF BatchCommit, Commit, BatchFailed, Discard
<1>4. Finish(t) /\ UNCHANGED <<tokens, backups, lock, world>>
  BY DEF BatchCommit, BatchFailed
<1> QED
  BY <1>2, <1>3, <1>4, IdleFits, CallGoesOn, Unchanging DEF Finish, DurableOK

(* What an executed item of a batch is restored to.                        *)
LEMMA UndoneItem ==
  ASSUME TypeInv, NEW t \in Tasks, task[t].pc \in {"b_undo", "b_uwait"}, task[t].k > 0
  PROVE  /\ task[t].k \in DOMAIN Token(t).items
         /\ Item(t) \in Items /\ Item(t).res \in Resources /\ Item(t).old \in Contents
         /\ Original(t) \in Contents \cup {Absent, None}
<1>1. task[t] \in Calls /\ CallFits(task[t], tokens, txns, backups) /\ Token(t) \in Tokens
  BY CallFacts
<1>2. Token(t).items \in Seq(Items) /\ task[t].k \in Nat /\ task[t].baks \in Seq(Nat)
  BY <1>1 DEF Tokens, Calls
<1>3. task[t].k \in DOMAIN Token(t).items
  <2>1. CASE task[t].pc = "b_undo"
    BY <1>1, <1>2, <2>1, SeqIsFun DEF CallFits, Token
  <2>2. CASE task[t].pc = "b_uwait"
    BY <1>1, <2>2 DEF CallFits, AtItem, Token
  <2> QED
    BY <2>1, <2>2
<1>4. Item(t) \in Items
  BY <1>2, <1>3, SeqIsFun DEF Item
<1>5. Item(t).res \in Resources /\ Item(t).old \in Contents
  BY <1>4 DEF Items
<1>6. task[t].k \in DOMAIN task[t].baks /\ task[t].baks[task[t].k] \in Nat
      /\ task[t].baks[task[t].k] <= Len(backups)
  <2>1. task[t].k \in DOMAIN task[t].baks
    BY <1>1, <1>2, SeqIsFun DEF CallFits
  <2> QED
    BY <1>1, <1>2, <2>1, SeqIsFun DEF CallFits
<1>7. task[t].baks[task[t].k] # 0 =>
        /\ task[t].baks[task[t].k] \in DOMAIN backups
        /\ backups[task[t].baks[task[t].k]] \in BackupEntries
  BY <1>6, SeqIsFun DEF TypeInv, TypeOK
<1>8. Written(Item(t).res, Item(t).old) \in Contents
  BY <1>5, WrittenType
<1>9. Original(t) \in Contents \cup {Absent, None}
  BY <1>7, <1>8 DEF Original, BackupEntries
<1> QED
  BY <1>3, <1>4, <1>5, <1>9

(* Restoring a file item does: its backup is in the manifest.              *)
LEMMA BatchUndoType ==
  ASSUME TypeInv, NEW t \in Tasks,
         BatchUndoFile(t) \/ BatchUndoFileFails(t) \/ BatchUndone(t)
  PROVE  TypeInv'
<1>0. task[t] \in Calls /\ CallFits(task[t], tokens, txns, backups)
      /\ task[t].k > 0 /\ task[t].k \in Nat /\ task[t].k - 1 \in Nat
      /\ task[t].pc \in {"b_undo", "b_uwait"}
  <2>1. task[t] \in Calls /\ CallFits(task[t], tokens, txns, backups)
    BY CallFacts
  <2>2. task[t].k \in Nat
    BY <2>1 DEF Calls
  <2>3. CASE task[t].pc = "b_undo" /\ task[t].k > 0
    BY <2>1, <2>2, <2>3
  <2>4. CASE task[t].pc = "b_uwait"
    <3>1. Token(t) \in Tokens /\ task[t].k \in DOMAIN Token(t).items
      BY <2>4, CallFacts DEF AtItem
    <3>2. Token(t).items \in Seq(Items)
      BY <3>1 DEF Tokens
    <3>3. task[t].k \in 1..Len(Token(t).items) /\ Len(Token(t).items) \in Nat
      BY <3>1, <3>2, SeqIsFun
    <3> QED
      BY <2>1, <2>2, <2>4, <3>3
  <2> QED
    BY <2>3, <2>4 DEF BatchUndoFile, BatchUndoFileFails, BatchUndone, At
<1>1. ASSUME NEW c \in Calls, c.pc = "b_undo", c.k = task[t].k - 1, c.tok = task[t].tok,
             c.txn = task[t].txn, c.baks = task[t].baks,
             task' = [task EXCEPT ![t] = c],
             UNCHANGED <<tokens, txns, durable, lock>>,
             loop' \in Tasks \cup {None}, WorldOK'
      PROVE  TypeInv'
  <2>1. CallFits(c, tokens, txns, backups)
    BY <1>0, <1>1, OneLess DEF TypeInv, TypeOK
  <2> QED
    BY <1>1, <2>1, CallGoesOn, Unchanging DEF durable
<1>2. CASE BatchUndoFile(t)
  <2> DEFINE c == [task[t] EXCEPT !.k = task[t].k - 1]
  <2>1. task[t].pc = "b_undo" /\ Write(Item(t).res, Original(t), "undo", task[t].tok)
        /\ Original(t) # None /\ UNCHANGED <<inflight, replaced>>
        /\ task' = [task EXCEPT ![t] = c]
        /\ UNCHANGED <<tokens, txns, durable, lock, loop>>
    BY <1>2 DEF BatchUndoFile, At, memory
  <2>2. WorldOK'
    <3>1. Item(t).res \in Resources /\ Original(t) \in Contents \cup {Absent}
      BY <1>0, <2>1, UndoneItem
    <3> QED
      BY <2>1, <3>1, WriteEffect, Unchanging DEF WorldOK, Writers
  <2>3. c \in Calls /\ c.pc = "b_undo" /\ c.k = task[t].k - 1 /\ c.tok = task[t].tok
        /\ c.txn = task[t].txn /\ c.baks = task[t].baks
    BY <1>0, <2>1 DEF Calls
  <2> HIDE DEF c
  <2> QED
    BY <1>1, <2>1, <2>2, <2>3, Unchanging
<1>3. CASE BatchUndoFileFails(t)
  <2> DEFINE c == [task[t] EXCEPT !.k = task[t].k - 1, !.dirty = TRUE]
  <2>1. task[t].pc = "b_undo" /\ task' = [task EXCEPT ![t] = c]
        /\ UNCHANGED <<tokens, txns, durable, lock, loop, world>>
    BY <1>3 DEF BatchUndoFileFails, At, memory
  <2>2. c \in Calls /\ c.pc = "b_undo" /\ c.k = task[t].k - 1 /\ c.tok = task[t].tok
        /\ c.txn = task[t].txn /\ c.baks = task[t].baks
    BY <1>0, <2>1 DEF Calls
  <2> HIDE DEF c
  <2> QED
    BY <1>1, <2>1, <2>2, Unchanging
<1>4. CASE BatchUndone(t)
  <2> DEFINE failed == task[t].dirty \/ task[t].reply = "err"
             c == [task[t] EXCEPT !.pc = "b_undo", !.k = task[t].k - 1, !.reply = "none",
                                  !.dirty = failed]
  <2>1. failed \in BOOLEAN
    BY <1>0 DEF Calls
  <2>2. task' = [task EXCEPT ![t] = c] /\ loop' = t
        /\ UNCHANGED <<tokens, txns, durable, lock, world>>
    BY <1>4 DEF BatchUndone, memory
  <2>3. c \in Calls /\ c.pc = "b_undo" /\ c.k = task[t].k - 1 /\ c.tok = task[t].tok
        /\ c.txn = task[t].txn /\ c.baks = task[t].baks
    <3> HIDE DEF failed
    <3> QED
      BY <1>0, <2>1 DEF Calls, Points
  <2> HIDE DEF c
  <2> QED
    BY <1>1, <2>2, <2>3, Unchanging
<1> QED
  BY <1>2, <1>3, <1>4

(* Restoring a dashboard item does.                                        *)
LEMMA BatchUndoDashboardType ==
  ASSUME TypeInv, NEW t \in Tasks, BatchUndoDashboard(t)
  PROVE  TypeInv'
<1> DEFINE c == [task[t] EXCEPT !.pc = "b_uwait"]
<1>1. task[t].pc = "b_undo" /\ task[t].k > 0 /\ task[t] \in Calls
      /\ CallFits(task[t], tokens, txns, backups) /\ task[t].tok \in TokenIds
  BY CallFacts DEF BatchUndoDashboard, At
<1>2. Item(t).res \in Dashboards /\ Item(t).old \in Contents /\ task[t].k \in Nat
      /\ task[t].k \in DOMAIN tokens[task[t].tok].items
  BY <1>1, UndoneItem DEF BatchUndoDashboard, Calls, Token
<1>3. inflight' \subseteq Saves
  BY <1>1, <1>2, SendEffect DEF BatchUndoDashboard
<1>4. WorldOK' /\ UNCHANGED <<tokens, txns, durable, lock>> /\ loop' = None
      /\ task' = [task EXCEPT ![t] = c]
  BY <1>3 DEF BatchUndoDashboard, WorldOK, TypeInv, TypeOK, memory
<1>5. c \in Calls
  BY <1>1 DEF Calls, Points
<1>6. c.pc = "b_uwait" /\ c.k = task[t].k /\ c.tok = task[t].tok /\ c.baks = task[t].baks
  BY <1>1 DEF Calls
<1> HIDE DEF c
<1>7. CallFits(c, tokens, txns, backups)
  BY <1>1, <1>2, <1>6 DEF CallFits, AtItem, AtDashboard
<1> QED
  BY <1>4, <1>5, <1>7, CallGoesOn, Unchanging DEF durable

(* The steps of haops_batch_apply keep the type invariant.                 *)
LEMMA BatchStepType ==
  ASSUME TypeInv, NEW t \in Tasks, BatchStep(t)
  PROVE  TypeInv'
<1>1. CASE BatchFileFails(t) \/ BatchRefuse(t) \/ BatchSaveFails(t)
  <2>1. /\ Abort(t) /\ UNCHANGED <<tokens, txns, durable, world>>
        /\ \/ task[t].pc \in {"b_lock", "b_write", "b_wait"}
           \/ task[t].pc = "b_item" /\ MoreItems(t)
    BY <1>1 DEF BatchFileFails, BatchRefuse, BatchSaveFails, At, memory
  <2>2. lock' \in [Dashboards -> Tasks \cup {None}]
    BY <1>1, Unchanging, ReleaseEffect DEF BatchFileFails, BatchRefuse, BatchSaveFails
  <2> QED
    BY <2>1, <2>2, AbortEffect
<1>2. CASE BatchUndoCrashes(t)
  BY <1>2, IdleFits, CallGoesOn, Unchanging DEF BatchUndoCrashes, Finish, memory, durable
<1> QED
  BY <1>1, <1>2, BatchFileType, BatchWriteType, BatchDashboardType, BatchRecheckType,
     BatchSavedType, BatchEndType, BatchUndoType, BatchUndoDashboardType DEF BatchStep

-----------------------------------------------------------------------------
(* The world around the calls.                                             *)

(* Nothing but the calls moves, and those only to Idle or to a reply.      *)
LEMMA CallsSettle ==
  ASSUME TypeInv, TypeOK', UNCHANGED <<tokens, backups>>, TxnsKeep(txns, txns'),
         \A t \in Tasks : \/ task'[t] = Idle
                         \/ \E r \in {"none", "ok", "err"} :
                              task'[t] = [task[t] EXCEPT !.reply = r]
                         \/ task'[t] = task[t]
  PROVE  TypeInv'
<1>1. \A t \in Tasks : CallFits(task'[t], tokens', txns', backups')
  <2> TAKE t \in Tasks
  <2>1. CASE task'[t] = Idle
    BY <2>1, IdleFits
  <2>2. ASSUME NEW r \in {"none", "ok", "err"}, task'[t] = [task[t] EXCEPT !.reply = r]
        PROVE  CallFits(task'[t], tokens', txns', backups')
    <3>1. task[t] \in Calls /\ CallFits(task[t], tokens, txns, backups)
      BY CallFacts
    <3>2. CallFits(task'[t], tokens, txns, backups)
      BY <2>2, <3>1 DEF Calls, CallFits
    <3>3. task'[t] \in Calls
      BY DEF TypeOK
    <3> QED
      BY <3>2, <3>3, FitsStays, KeepRefl DEF TypeInv, TypeOK
  <2>3. CASE task'[t] = task[t]
    BY <2>3, CallFacts, FitsStays, KeepRefl DEF TypeInv, TypeOK
  <2> QED
    BY <2>1, <2>2, <2>3
<1>2. \A tk \in DOMAIN tokens' : SingleItem(tokens'[tk])
  BY SingleItemStays, KeepRefl
<1>3. Len(tokens') <= MaxTokens
  BY KeepRefl
<1> QED
  BY <1>1, <1>2, <1>3 DEF TypeInv, WellFormed

(* Home Assistant executing a save keeps the type invariant.               *)
LEMMA HaSaveType ==
  ASSUME TypeInv, NEW e \in inflight, HaSave(e)
  PROVE  TypeInv'
<1>1. e \in Saves
  BY DEF TypeInv, TypeOK
<1>2. e.res \in Resources /\ e.new \in Contents
  BY <1>1 DEF Saves, Resources
<1>3. SaveKind(e) \in Writers
  BY DEF SaveKind, Writers
<1>4. /\ content' \in [Resources -> Contents \cup {Absent}]
      /\ writer' \in [Resources -> Writers]
      /\ unsure' \subseteq TokenIds
  <2> DEFINE tk == IF e.heard THEN e.tok ELSE 0
  <2>1. Write(e.res, e.new, SaveKind(e), tk)
    BY DEF HaSave
  <2> HIDE DEF tk
  <2> QED
    BY <1>2, <1>3, <2>1, WriteEffect
<1>5. replaced' \in [TokenIds \X (1..MaxItems) -> Contents \cup {Absent, None}]
  BY <1>2, ReplaceEffect DEF HaSave, TypeInv, TypeOK
<1>6. \A t \in Tasks : \/ \E r \in {"none", "ok", "err"} :
                             task'[t] = [task[t] EXCEPT !.reply = r]
                      \/ task'[t] = task[t]
  BY DEF HaSave, TypeInv, TypeOK
<1>7. task' \in [Tasks -> Calls]
  <2>1. CASE UNCHANGED task
    BY <2>1 DEF TypeInv, TypeOK
  <2>2. CASE task' = [t \in Tasks |-> IF task[t].tok = e.tok
                                     THEN [task[t] EXCEPT !.reply = "ok"]
                                     ELSE task[t]]
    <3>1. ASSUME NEW t \in Tasks
          PROVE  [task[t] EXCEPT !.reply = "ok"] \in Calls /\ task[t] \in Calls
      <4>1. task[t] \in Calls
        BY DEF TypeInv, TypeOK
      <4> QED
        BY <4>1 DEF Calls
    <3> QED
      BY <2>2, <3>1
  <2> QED
    BY <2>1, <2>2 DEF HaSave
<1>8. TypeOK' /\ UNCHANGED <<tokens, txns, backups>>
  BY <1>4, <1>5, <1>7 DEF HaSave, TypeInv, TypeOK, memory, durable
<1> QED
  BY <1>6, <1>8, CallsSettle, KeepRefl

(* A save nobody waits for any longer is a save.                           *)
LEMMA UnheardType ==
  ASSUME TypeInv, NEW tk
  PROVE  Unheard(tk) \subseteq Saves
<1> SUFFICES ASSUME NEW e \in inflight
             PROVE  [e EXCEPT !.heard = FALSE] \in Saves /\ e \in Saves
  BY DEF Unheard
<1>1. e \in Saves
  BY DEF TypeInv, TypeOK
<1> QED
  BY <1>1 DEF Saves

(* A WebSocketError keeps the type invariant.                              *)
LEMMA WsErrorType ==
  ASSUME TypeInv, NEW t \in Tasks, WsError(t)
  PROVE  TypeInv'
<1>1. PICK e \in inflight :
        /\ inflight' \in {inflight \ {e}, Unheard(e.tok)}
        /\ task' = [task EXCEPT ![t].reply = "err"]
        /\ UNCHANGED <<memory, durable, lock, loop, content, writer, replaced, unsure>>
  BY DEF WsError
<1>2. inflight' \subseteq Saves
  BY <1>1, UnheardType DEF TypeInv, TypeOK
<1>3. [task[t] EXCEPT !.reply = "err"] \in Calls
  BY DEF TypeInv, TypeOK, Calls
<1>4. TypeOK' /\ UNCHANGED <<tokens, txns, backups>>
  BY <1>1, <1>2, <1>3 DEF TypeInv, TypeOK, memory, durable
<1>5. \A u \in Tasks : \/ \E r \in {"none", "ok", "err"} :
                             task'[u] = [task[u] EXCEPT !.reply = r]
                      \/ task'[u] = task[u]
  BY <1>1 DEF TypeInv, TypeOK
<1> QED
  BY <1>4, <1>5, CallsSettle, KeepRefl

(* An edit from outside keeps the type invariant.                          *)
LEMMA OutsideEditType ==
  ASSUME TypeInv, NEW r \in Resources, NEW c \in Contents \cup {Absent}, OutsideEdit(r, c)
  PROVE  TypeInv'
<1>1. Write(r, c, "outside", 0)
      /\ UNCHANGED <<tokens, txns, backups, audit, lock, loop, task, inflight, replaced>>
  BY DEF OutsideEdit, memory, durable, sched
<1>2. TypeOK'
  BY <1>1, WriteEffect DEF TypeInv, TypeOK, Writers
<1> QED
  BY <1>1, <1>2, CallsSettle, KeepRefl

(* A cancelled call keeps the type invariant.                              *)
LEMMA CancelType ==
  ASSUME TypeInv, NEW t \in Tasks, Cancel(t)
  PROVE  TypeInv'
<1>1. task' = [task EXCEPT ![t] = Idle] /\ inflight' = Unheard(task[t].tok) /\ Release(t)
      /\ UNCHANGED <<tokens, txns, backups, audit, loop, content, writer, replaced, unsure>>
  BY DEF Cancel, memory, durable
<1>2. TypeOK'
  BY <1>1, IdleFits, UnheardType, ReleaseEffect DEF TypeInv, TypeOK
<1>3. \A u \in Tasks : task'[u] = Idle \/ task'[u] = task[u]
  BY <1>1 DEF TypeInv, TypeOK
<1> QED
  BY <1>1, <1>2, <1>3, CallsSettle, KeepRefl

(* A restart keeps the type invariant.                                     *)
LEMMA RestartType ==
  ASSUME TypeInv, Restart
  PROVE  TypeInv'
<1>1. tokens' \in Seq(Tokens) /\ DOMAIN tokens' = DOMAIN tokens
      /\ Len(tokens') = Len(tokens) /\ TokensKeep(tokens, tokens')
  <2>1. /\ tokens \in [1..Len(tokens) -> Tokens]
        /\ DOMAIN tokens = 1..Len(tokens) /\ Len(tokens) \in Nat
    BY SeqIsFun DEF TypeInv, TypeOK
  <2> DEFINE new(i) == [tokens[i] EXCEPT !.state = IF @ = "live" THEN "gone" ELSE @]
  <2>2. \A i \in 1..Len(tokens) : /\ new(i) \in Tokens
                                 /\ new(i).items = tokens[i].items
                                 /\ new(i).action = tokens[i].action
    BY <2>1 DEF Tokens
  <2>3. tokens' = [i \in 1..Len(tokens) |-> new(i)]
    BY <2>1 DEF Restart
  <2> HIDE DEF new
  <2>4. tokens' \in [1..Len(tokens) -> Tokens]
    BY <2>2, <2>3
  <2>5. tokens' \in Seq(Tokens) /\ Len(tokens') = Len(tokens)
    BY <2>1, <2>4, FunIsSeq
  <2> QED
    BY <2>1, <2>2, <2>3, <2>5 DEF TokensKeep
<1>2. txns' \in Seq(Txns) /\ TxnsKeep(txns, txns')
  <2>1. /\ txns \in [1..Len(txns) -> Txns]
        /\ DOMAIN txns = 1..Len(txns) /\ Len(txns) \in Nat
    BY SeqIsFun DEF TypeInv, TypeOK
  <2> DEFINE new(i) == [txns[i] EXCEPT !.state = "gone"]
  <2>2. \A i \in 1..Len(txns) : new(i) \in Txns /\ new(i).saves = txns[i].saves
    BY <2>1 DEF Txns
  <2>3. txns' = [i \in 1..Len(txns) |-> new(i)]
    BY <2>1 DEF Restart
  <2> HIDE DEF new
  <2>4. txns' \in [1..Len(txns) -> Txns]
    BY <2>2, <2>3
  <2>5. txns' \in Seq(Txns)
    BY <2>1, <2>4, FunIsSeq
  <2>6. \A i \in DOMAIN txns : Len(txns[i].saves) \in Nat
    BY KeepRefl, SavepointsOf
  <2> QED
    BY <2>1, <2>2, <2>3, <2>5, <2>6 DEF TxnsKeep
<1>3. inflight' \subseteq Saves
  <2>1. \A e \in inflight : [e EXCEPT !.heard = FALSE] \in Saves
    BY DEF TypeInv, TypeOK, Saves
  <2> QED
    BY <2>1 DEF Restart
<1>4. /\ task' = [t \in Tasks |-> Idle] /\ loop' = None
      /\ lock' = [d \in Dashboards |-> None]
      /\ UNCHANGED <<backups, audit, content, writer, replaced, unsure>>
  BY DEF Restart, durable
<1>5. task' \in [Tasks -> Calls] /\ \A t \in Tasks : task'[t] = Idle
  BY <1>4, IdleFits
<1>6. TypeOK'
  BY <1>1, <1>2, <1>3, <1>4, <1>5 DEF TypeInv, TypeOK
<1>7. \A tk \in DOMAIN tokens' : SingleItem(tokens'[tk])
  BY <1>1, SingleItemStays
<1>8. \A t \in Tasks : CallFits(task'[t], tokens', txns', backups')
  BY <1>5, IdleFits
<1>9. Len(tokens') <= MaxTokens
  BY <1>1, KeepRefl
<1> QED
  BY <1>6, <1>7, <1>8, <1>9 DEF TypeInv, WellFormed

-----------------------------------------------------------------------------
(* Type correctness.                                                       *)

(* The initial states satisfy the type invariant.                          *)
LEMMA InitTypeInv == Init => TypeInv
<1> SUFFICES ASSUME Init PROVE TypeInv
  OBVIOUS
<1>1. TypeOK
  <2>1. content \in [Resources -> Contents \cup {Absent}]
    BY ContextAssumption DEF Init
  <2>2. tokens \in Seq(Tokens) /\ txns \in Seq(Txns) /\ backups \in Seq(BackupEntries)
        /\ audit \in Seq(AuditEntries)
    BY DEF Init
  <2>3. task \in [Tasks -> Calls]
    BY IdleFits DEF Init
  <2> QED
    BY <2>1, <2>2, <2>3 DEF Init, TypeOK, Writers
<1>2. WellFormed
  <2>1. \A t \in Tasks : CallFits(task[t], tokens, txns, backups)
    BY IdleFits DEF Init
  <2> QED
    BY <2>1, ContextAssumption DEF Init, WellFormed
<1> QED
  BY <1>1, <1>2 DEF TypeInv

(* Every preview keeps the type invariant.                                 *)
LEMMA PreviewType == ASSUME TypeInv, Preview PROVE TypeInv'
<1>1. Texts \subseteq Contents
  BY ContextAssumption
<1>2. CASE \E n \in 1..MaxItems :
             \E rs \in [1..n -> Resources], cs \in [1..n -> Texts] : BatchPreview(rs, cs)
  <2>1. PICK n \in 1..MaxItems :
          \E rs \in [1..n -> Resources], cs \in [1..n -> Texts] : BatchPreview(rs, cs)
    BY <1>2
  <2>2. PICK rs \in [1..n -> Resources], cs \in [1..n -> Texts] : BatchPreview(rs, cs)
    BY <2>1
  <2>3. cs \in [1..n -> Contents]
    BY <1>1
  <2> QED
    BY <2>2, <2>3, BatchPreviewType
<1> QED
  BY <1>1, <1>2, ConfigPatchType, DashboardPreviewType, RollbackPreviewType,
     RevertPreviewType, PruneType DEF Preview

(* So does a step that changes nothing.                                    *)
LEMMA StutterType == ASSUME TypeInv, UNCHANGED vars PROVE TypeInv'
<1>1. UNCHANGED <<tokens, txns, backups, audit, lock, loop, task,
                 content, inflight, writer, replaced, unsure>>
  BY DEF vars, memory, durable, sched, world
<1>2. TypeOK'
  BY <1>1 DEF TypeInv, TypeOK
<1>3. WellFormed'
  BY <1>1 DEF TypeInv, WellFormed
<1> QED
  BY <1>2, <1>3 DEF TypeInv

(* Every step keeps the type invariant.                                    *)
LEMMA NextType == ASSUME TypeInv, [Next]_vars PROVE TypeInv'
<1>1. ASSUME NEW t \in Tasks, Start(t) PROVE TypeInv'
  BY <1>1, ConfigApplyType, DashboardApplyType, BatchApplyType, RollbackEnterType,
     RevertConfirmType, RevertMismatchType DEF Start
<1>2. ASSUME NEW t \in Tasks, Step(t) PROVE TypeInv'
  BY <1>2, ConfigStepType, DashboardStepType, RollbackStepType, RevertStepType,
     BatchStepType DEF Step
<1>3. ASSUME NEW t \in Tasks, Answer(t) PROVE TypeInv'
  BY <1>3, HaSaveType, WsErrorType DEF Answer
<1>4. ASSUME Environment PROVE TypeInv'
  <2>1. ASSUME NEW r \in Resources, NEW c \in Texts \cup {Absent}, OutsideEdit(r, c)
        PROVE  TypeInv'
    <3>1. c \in Contents \cup {Absent}
      BY ContextAssumption
    <3> QED
      BY <2>1, <3>1, OutsideEditType
  <2> QED
    BY <1>4, <2>1, HaSaveType, RestartType DEF Environment
<1> QED
  BY <1>1, <1>2, <1>3, <1>4, PreviewType, PruneType, CancelType, StutterType DEF Next

(* Every state of every instance has its type, whatever the sessions, the  *)
(* people and Home Assistant do.                                           *)
THEOREM TypeCorrect == Spec => []TypeOK
<1>1. Init => TypeInv
  BY InitTypeInv
<1>2. TypeInv /\ [Next]_vars => TypeInv'
  BY NextType
<1>3. TypeInv => TypeOK
  BY DEF TypeInv
<1> QED
  BY <1>1, <1>2, <1>3, PTL DEF Spec

-----------------------------------------------------------------------------
(* Safety, on top of type correctness.                                     *)

(* A spent token is spent for good.                                        *)
SpentStays ==
  \A i \in DOMAIN tokens :
    tokens[i].state = "spent" => i \in DOMAIN tokens' /\ tokens'[i].state = "spent"

(* Issuing a token changes no other.                                       *)
LEMMA IssueKeeps ==
  ASSUME TypeInv, NEW act, NEW items, NEW x, CreateToken(act, items, x)
  PROVE  SpentStays /\ TokensKeep(tokens, tokens')
<1> DEFINE new == [action |-> act, items |-> items, txn |-> x, state |-> "live"]
           S   == Tokens \cup {new}
<1>1. tokens \in [1..Len(tokens) -> Tokens] /\ Len(tokens) \in Nat
      /\ DOMAIN tokens = 1..Len(tokens)
  BY SeqIsFun DEF TypeInv, TypeOK
<1>2. tokens \in Seq(S)
  <2>1. tokens \in [1..Len(tokens) -> S]
    BY <1>1
  <2> HIDE DEF S
  <2> QED
    BY <1>1, <2>1, FunIsSeq
<1>3. tokens' = Append(tokens, new) /\ new \in S
  BY DEF CreateToken
<1> HIDE DEF S, new
<1>4. DOMAIN tokens \subseteq DOMAIN tokens' /\ \A i \in DOMAIN tokens : tokens'[i] = tokens[i]
  BY <1>1, <1>2, <1>3, SeqAppend
<1> QED
  BY <1>4 DEF SpentStays, TokensKeep

(* What a preview leaves alone.                                            *)
LEMMA PreviewKeeps ==
  ASSUME TypeInv, Preview
  PROVE  SpentStays /\ TokensKeep(tokens, tokens') /\ UNCHANGED <<audit, task, lock>>
<1>1. UNCHANGED <<durable, sched>> => UNCHANGED <<audit, task, lock>>
  BY DEF durable, sched
<1>2. ASSUME NEW p \in Files, NEW c \in Texts, ConfigPatch(p, c) \/ ConfigCreate(p, c)
      PROVE  SpentStays /\ TokensKeep(tokens, tokens') /\ UNCHANGED <<durable, sched>>
  BY <1>2, IssueKeeps DEF ConfigPatch, ConfigCreate
<1>3. ASSUME NEW d \in Dashboards, NEW c \in Texts, DashboardDiff(d, c) \/ DashboardPatch(d, c)
      PROVE  SpentStays /\ TokensKeep(tokens, tokens') /\ UNCHANGED <<durable, sched>>
  BY <1>3, IssueKeeps DEF DashboardDiff, DashboardPatch
<1>4. ASSUME NEW x \in DOMAIN txns, RollbackPreview(x)
      PROVE  SpentStays /\ TokensKeep(tokens, tokens') /\ UNCHANGED <<durable, sched>>
  BY <1>4, IssueKeeps DEF RollbackPreview
<1>5. ASSUME NEW b \in DOMAIN backups, RevertPreview(b)
      PROVE  SpentStays /\ TokensKeep(tokens, tokens') /\ UNCHANGED <<durable, sched>>
  BY <1>5, IssueKeeps DEF RevertPreview
<1>6. ASSUME PrunePreview
      PROVE  SpentStays /\ TokensKeep(tokens, tokens') /\ UNCHANGED <<durable, sched>>
  BY <1>6, IssueKeeps DEF PrunePreview
<1>7. ASSUME NEW rs, NEW cs, BatchPreview(rs, cs)
      PROVE  SpentStays /\ TokensKeep(tokens, tokens') /\ UNCHANGED <<durable, sched>>
  BY <1>7, IssueKeeps DEF BatchPreview
<1> QED
  BY <1>1, <1>2, <1>3, <1>4, <1>5, <1>6, <1>7 DEF Preview

(* A claim spends a live token and changes no other.                       *)
LEMMA ClaimSpends ==
  ASSUME TypeInv, NEW tk, ClaimToken(tk)
  PROVE  /\ SpentStays /\ tk \in DOMAIN tokens
         /\ tokens[tk].state = "live" /\ tokens'[tk].state = "spent"
<1>1. tokens' = [tokens EXCEPT ![tk] = [tokens[tk] EXCEPT !.state = "spent"]]
      /\ tk \in DOMAIN tokens /\ tokens[tk].state = "live"
  BY DEF ClaimToken, Live
<1>2. tokens[tk] \in Tokens
  BY <1>1, SeqIsFun DEF TypeInv, TypeOK
<1> QED
  BY <1>1, <1>2 DEF SpentStays, Tokens

-----------------------------------------------------------------------------
(* One token, one call.                                                    *)

(* Tokens are counted from 1, so 0 can stand for none.                     *)
LEMMA ZeroIsNoToken ==
  ASSUME TypeInv PROVE 0 \notin DOMAIN tokens
BY SeqIsFun DEF TypeInv, TypeOK

(* No call begins and none reports.                                        *)
LEMMA NoneReports ==
  ASSUME TypeInv, TokenInv, SpentStays, UNCHANGED audit,
         \A u \in Tasks : task'[u].tok \in {0, task[u].tok}
  PROVE  TokenInv'
<1>1. SpentTokens'
  BY DEF TokenInv, SpentTokens, SpentStays
<1>2. TokenDrivesOneCall'
  <2>1. \A u, v \in Tasks : task'[u].tok # 0 /\ task'[u].tok = task'[v].tok => u = v
    BY DEF TokenInv, TokenDrivesOneCall
  <2>2. \A i, j \in DOMAIN audit : audit[i].tok = audit[j].tok => i = j
    BY DEF TokenInv, TokenDrivesOneCall
  <2>3. ASSUME NEW u \in Tasks, NEW i \in DOMAIN audit
        PROVE  task'[u].tok # audit[i].tok
    <3>1. CASE task'[u].tok = task[u].tok
      BY <3>1 DEF TokenInv, TokenDrivesOneCall
    <3>2. CASE task'[u].tok = 0
      BY <3>2, ZeroIsNoToken DEF TokenInv, SpentTokens
    <3> QED
      BY <3>1, <3>2
  <2> QED
    BY <2>1, <2>2, <2>3 DEF TokenDrivesOneCall
<1> QED
  BY <1>1, <1>2 DEF TokenInv

(* The report for the token tk reaches the log.                            *)
LEMMA EntryAdded ==
  ASSUME TypeInv, TokenInv, SpentStays, NEW tk, NEW ok, NEW dirty,
         audit' = Append(audit, [tok |-> tk, ok |-> ok, dirty |-> dirty]),
         tk \in DOMAIN tokens', tokens'[tk].state = "spent",
         \A i \in DOMAIN audit : audit[i].tok # tk,
         \A u \in Tasks : task'[u].tok # tk /\ task'[u].tok \in {0, task[u].tok}
  PROVE  TokenInv'
<1> DEFINE e == [tok |-> tk, ok |-> ok, dirty |-> dirty]
           S == AuditEntries \cup {e}
           n == Len(audit) + 1
<1>1. /\ audit \in [1..Len(audit) -> AuditEntries] /\ Len(audit) \in Nat
      /\ DOMAIN audit = 1..Len(audit)
  BY SeqIsFun DEF TypeInv, TypeOK
<1>2. audit \in Seq(S)
  <2>1. audit \in [1..Len(audit) -> S]
    BY <1>1
  <2> HIDE DEF S
  <2> QED
    BY <1>1, <2>1, FunIsSeq
<1>3. audit' = Append(audit, e) /\ e \in S /\ e.tok = tk
  OBVIOUS
<1> HIDE DEF S, e
<1>4. /\ DOMAIN audit' = 1..n /\ n \notin DOMAIN audit /\ audit'[n].tok = tk
      /\ \A i \in DOMAIN audit : audit'[i] = audit[i]
      /\ \A i \in DOMAIN audit' : i \in DOMAIN audit \/ i = n
  BY <1>1, <1>2, <1>3, SeqAppend
<1> HIDE DEF n
<1>5. SpentTokens'
  <2>1. \A t \in Tasks : task'[t].tok # 0 => /\ task'[t].tok \in DOMAIN tokens'
                                           /\ tokens'[task'[t].tok].state = "spent"
    BY DEF TokenInv, SpentTokens, SpentStays
  <2>2. \A i \in DOMAIN audit' : /\ audit'[i].tok \in DOMAIN tokens'
                                /\ tokens'[audit'[i].tok].state = "spent"
    BY <1>4 DEF TokenInv, SpentTokens, SpentStays
  <2> QED
    BY <2>1, <2>2 DEF SpentTokens
<1>6. TokenDrivesOneCall'
  <2>1. \A u, v \in Tasks : task'[u].tok # 0 /\ task'[u].tok = task'[v].tok => u = v
    BY DEF TokenInv, TokenDrivesOneCall
  <2>2. \A i, j \in DOMAIN audit' : audit'[i].tok = audit'[j].tok => i = j
    BY <1>4 DEF TokenInv, TokenDrivesOneCall
  <2>3. ASSUME NEW u \in Tasks, NEW i \in DOMAIN audit'
        PROVE  task'[u].tok # audit'[i].tok
    <3>1. CASE i = n
      BY <1>4, <3>1
    <3>2. CASE i \in DOMAIN audit
      BY <1>4, <3>2, ZeroIsNoToken DEF TokenInv, TokenDrivesOneCall, SpentTokens
    <3> QED
      BY <1>4, <3>1, <3>2
  <2> QED
    BY <2>1, <2>2, <2>3 DEF TokenDrivesOneCall
<1> QED
  BY <1>5, <1>6 DEF TokenInv

(* A report is made for the token tk, or its entry fails.                  *)
LEMMA ReportAdded ==
  ASSUME TypeInv, TokenInv, SpentStays, NEW tk, NEW ok, NEW dirty,
         LogOperation(tk, ok, dirty),
         tk \in DOMAIN tokens', tokens'[tk].state = "spent",
         \A i \in DOMAIN audit : audit[i].tok # tk,
         \A u \in Tasks : task'[u].tok # tk /\ task'[u].tok \in {0, task[u].tok}
  PROVE  TokenInv'
<1>1. CASE audit' = Append(audit, [tok |-> tk, ok |-> ok, dirty |-> dirty])
  BY <1>1, EntryAdded
<1>2. CASE UNCHANGED audit
  BY <1>2, NoneReports
<1> QED
  BY <1>1, <1>2 DEF LogOperation

(* A call ends with a report.                                              *)
LEMMA CallReports ==
  ASSUME TypeInv, TokenInv, UNCHANGED tokens, NEW t \in Tasks, Finish(t),
         task[t].pc \notin {"idle", "rb_claim"}, NEW ok, NEW dirty,
         LogOperation(task[t].tok, ok, dirty)
  PROVE  TokenInv'
<1> DEFINE tk == task[t].tok
<1>1. tk \in DOMAIN tokens /\ tk # 0
  BY CallFacts, ZeroIsNoToken
<1>2. \A u \in Tasks : task'[u].tok = IF u = t THEN 0 ELSE task[u].tok
  BY DEF Finish, Idle, TypeInv, TypeOK
<1>3. \A u \in Tasks : task'[u].tok # tk
  BY <1>1, <1>2 DEF TokenInv, TokenDrivesOneCall
<1>4. \A i \in DOMAIN audit : audit[i].tok # tk
  BY DEF TokenInv, TokenDrivesOneCall
<1>5. tokens[tk].state = "spent"
  BY <1>1 DEF TokenInv, SpentTokens
<1>6. SpentStays
  BY DEF SpentStays
<1> QED
  BY <1>1, <1>2, <1>3, <1>4, <1>5, <1>6, ReportAdded

(* A token is claimed, and the call t has it or is over.                   *)
LEMMA CallClaims ==
  ASSUME TypeInv, TokenInv, NEW tk, ClaimToken(tk), UNCHANGED audit, NEW t \in Tasks,
         task'[t].tok \in {0, tk, task[t].tok},
         \A u \in Tasks \ {t} : task'[u].tok = task[u].tok
  PROVE  TokenInv'
<1>1. /\ SpentStays /\ tk \in DOMAIN tokens /\ tk # 0 /\ tk \in DOMAIN tokens'
      /\ tokens[tk].state = "live" /\ tokens'[tk].state = "spent"
  BY ClaimSpends, ClaimFacts, ZeroIsNoToken
<1>2. /\ \A u \in Tasks : task[u].tok # tk
      /\ \A i \in DOMAIN audit : audit[i].tok # tk
  BY <1>1 DEF TokenInv, SpentTokens
<1>3. CASE task'[t].tok \in {0, task[t].tok}
  BY <1>1, <1>3, NoneReports
<1>4. CASE task'[t].tok = tk
  <2>1. SpentTokens'
    BY <1>1, <1>4 DEF TokenInv, SpentTokens, SpentStays
  <2>2. \A u, v \in Tasks : task'[u].tok # 0 /\ task'[u].tok = task'[v].tok => u = v
    BY <1>2, <1>4 DEF TokenInv, TokenDrivesOneCall
  <2>3. \A u \in Tasks, i \in DOMAIN audit : task'[u].tok # audit[i].tok
    BY <1>2, <1>4 DEF TokenInv, TokenDrivesOneCall
  <2> QED
    BY <2>1, <2>2, <2>3 DEF TokenInv, TokenDrivesOneCall
<1> QED
  BY <1>3, <1>4

(* A step of the call t that keeps its token.                              *)
LEMMA CallKeepsToken ==
  ASSUME TypeInv, TokenInv, UNCHANGED <<tokens, audit>>, NEW t \in Tasks, NEW c,
         task' = [task EXCEPT ![t] = c], c.tok \in {0, task[t].tok}
  PROVE  TokenInv'
<1>1. \A u \in Tasks : task'[u].tok \in {0, task[u].tok}
  BY DEF TypeInv, TypeOK
<1>2. SpentStays
  BY DEF SpentStays
<1> QED
  BY <1>1, <1>2, NoneReports

(* A call that has claimed its token, or spent one for nothing.            *)
LEMMA StartToken ==
  ASSUME TypeInv, TokenInv, NEW t \in Tasks, NEW tk, ClaimToken(tk), UNCHANGED audit,
         \/ UNCHANGED task
         \/ \E c : task' = [task EXCEPT ![t] = c] /\ c.tok \in {0, tk}
  PROVE  TokenInv'
<1>1. CASE UNCHANGED task
  BY <1>1, CallClaims
<1>2. ASSUME NEW c, task' = [task EXCEPT ![t] = c], c.tok \in {0, tk}
      PROVE  TokenInv'
  <2>1. task'[t] = c /\ \A u \in Tasks \ {t} : task'[u] = task[u]
    BY <1>2 DEF TypeInv, TypeOK
  <2> QED
    BY <1>2, <2>1, CallClaims
<1> QED
  BY <1>1, <1>2

(* A call ends without a report.                                           *)
LEMMA CallEndsQuietly ==
  ASSUME TypeInv, TokenInv, UNCHANGED <<tokens, audit>>, NEW t \in Tasks, Finish(t)
  PROVE  TokenInv'
BY CallKeepsToken DEF Finish, Idle

(* haops_config_apply: its one claim and its one log entry.                *)
LEMMA ConfigToken ==
  ASSUME TypeInv, TokenInv, NEW t \in Tasks,
         ConfigStep(t) \/ \E tk \in DOMAIN tokens : ConfigApply(t, tk)
  PROVE  TokenInv'
<1>0. task[t] \in Calls
  BY CallFacts
<1>1. ASSUME NEW tk \in DOMAIN tokens, ConfigApply(t, tk)
      PROVE  TokenInv'
  <2> DEFINE c == [Idle EXCEPT !.pc = "cfg_backup", !.tok = tk, !.txn = Len(txns) + 1, !.k = 1]
  <2>1. c.tok = tk
    BY DEF Idle
  <2>2. ClaimToken(tk) /\ UNCHANGED audit
        /\ (UNCHANGED task \/ task' = [task EXCEPT ![t] = c])
    BY <1>1 DEF ConfigApply, durable
  <2> HIDE DEF c
  <2> QED
    BY <2>1, <2>2, StartToken
<1>2. CASE ConfigBackup(t) \/ ConfigWrite(t) \/ ConfigWriteFails(t)
  <2>1. /\ UNCHANGED <<tokens, audit>>
        /\ \E c : task' = [task EXCEPT ![t] = c] /\ c.tok \in {0, task[t].tok}
    BY <1>0, <1>2 DEF ConfigBackup, ConfigWrite, ConfigWriteFails, Finish, Idle, Calls,
                      memory, durable
  <2> QED
    BY <2>1, CallKeepsToken
<1>3. CASE ConfigCommit(t)
  BY <1>3, CallReports DEF ConfigCommit, At
<1> QED
  BY <1>1, <1>2, <1>3 DEF ConfigStep

(* haops_dashboard_apply: its one claim and its one log entry.             *)
LEMMA DashboardToken ==
  ASSUME TypeInv, TokenInv, NEW t \in Tasks,
         DashboardStep(t) \/ \E tk \in DOMAIN tokens : DashboardApply(t, tk)
  PROVE  TokenInv'
<1>0. task[t] \in Calls
  BY CallFacts
<1>1. ASSUME NEW tk \in DOMAIN tokens, DashboardApply(t, tk)
      PROVE  TokenInv'
  <2> DEFINE c == [Idle EXCEPT !.pc = "dash_lock", !.tok = tk, !.k = 1]
  <2>1. c.tok = tk
    BY DEF Idle
  <2>2. ClaimToken(tk) /\ UNCHANGED audit
        /\ (UNCHANGED task \/ task' = [task EXCEPT ![t] = c])
    BY <1>1 DEF DashboardApply, durable
  <2> HIDE DEF c
  <2> QED
    BY <2>1, <2>2, StartToken
<1>2. CASE DashboardRecheck(t) \/ DashboardRefuse(t) \/ DashboardSaveFails(t)
  <2>1. /\ UNCHANGED <<tokens, audit>>
        /\ \E c : task' = [task EXCEPT ![t] = c] /\ c.tok \in {0, task[t].tok}
    BY <1>0, <1>2 DEF DashboardRecheck, DashboardRefuse, DashboardSaveFails, Finish, Idle,
                      Calls, memory, durable
  <2> QED
    BY <2>1, CallKeepsToken
<1>3. CASE DashboardSaved(t)
  BY <1>3, CallReports DEF DashboardSaved, At
<1> QED
  BY <1>1, <1>2, <1>3 DEF DashboardStep

(* haops_rollback: the token is claimed after the call has begun.          *)
LEMMA RollbackToken ==
  ASSUME TypeInv, TokenInv, NEW t \in Tasks,
         RollbackStep(t) \/ \E x \in DOMAIN txns : RollbackEnter(t, x)
  PROVE  TokenInv'
<1>0. task[t] \in Calls
  BY CallFacts
<1>1. CASE \E x \in DOMAIN txns : RollbackEnter(t, x)
  <2>1. /\ UNCHANGED <<tokens, audit>>
        /\ \E c : task' = [task EXCEPT ![t] = c] /\ c.tok \in {0, task[t].tok}
    BY <1>1 DEF RollbackEnter, Idle, memory, durable
  <2> QED
    BY <2>1, CallKeepsToken
<1>2. ASSUME NEW tk \in DOMAIN tokens, RollbackClaim(t, tk)
      PROVE  TokenInv'
  <2> DEFINE n == IF ActiveSavepoints(task[t].txn) = {} THEN 0
                  ELSE Len(txns[task[t].txn].saves)
             c == [task[t] EXCEPT !.pc = "rb_undo", !.tok = tk, !.k = n, !.n = n]
  <2>1. ClaimToken(tk) /\ UNCHANGED audit /\ task' = [task EXCEPT ![t] = c]
    BY <1>2 DEF RollbackClaim, durable
  <2>2. c.tok = tk
    <3> HIDE DEF n
    <3> QED
      BY <1>0 DEF Calls
  <2> HIDE DEF c
  <2> QED
    BY <2>1, <2>2, StartToken
<1>3. ASSUME NEW tk \in DOMAIN tokens, RollbackMismatch(t, tk)
      PROVE  TokenInv'
  <2>1. ClaimToken(tk) /\ UNCHANGED audit /\ task' = [task EXCEPT ![t] = Idle]
    BY <1>3 DEF RollbackMismatch, Finish, durable
  <2>2. Idle.tok = 0
    BY DEF Idle
  <2> QED
    BY <2>1, <2>2, StartToken
<1>4. CASE RollbackRefuse(t) \/ RollbackCrashes(t)
  BY <1>4, CallEndsQuietly DEF RollbackRefuse, RollbackCrashes, memory, durable
<1>5. CASE RollbackFile(t)
  <2> DEFINE c == [task[t] EXCEPT !.k = @ - 1]
  <2>1. c.tok = task[t].tok
    BY <1>0 DEF Calls
  <2>2. task' = [task EXCEPT ![t] = c] /\ UNCHANGED <<tokens, audit>>
    BY <1>5 DEF RollbackFile, memory, durable
  <2> HIDE DEF c
  <2> QED
    BY <2>1, <2>2, CallKeepsToken
<1>6. CASE RollbackFileFails(t)
  <2> DEFINE c == [task[t] EXCEPT !.k = @ - 1, !.dirty = TRUE]
  <2>1. c.tok = task[t].tok
    BY <1>0 DEF Calls
  <2>2. task' = [task EXCEPT ![t] = c] /\ UNCHANGED <<tokens, audit>>
    BY <1>6 DEF RollbackFileFails, memory, durable
  <2> HIDE DEF c
  <2> QED
    BY <2>1, <2>2, CallKeepsToken
<1>7. CASE RollbackDashboard(t)
  <2> DEFINE c == [task[t] EXCEPT !.pc = "rb_wait"]
  <2>1. c.tok = task[t].tok
    BY <1>0 DEF Calls
  <2>2. task' = [task EXCEPT ![t] = c] /\ UNCHANGED <<tokens, audit>>
    BY <1>7 DEF RollbackDashboard, memory, durable
  <2> HIDE DEF c
  <2> QED
    BY <2>1, <2>2, CallKeepsToken
<1>8. CASE RollbackAnswered(t)
  <2> DEFINE failed == task[t].dirty \/ task[t].reply = "err"
             c == [task[t] EXCEPT !.pc = "rb_undo", !.k = @ - 1, !.reply = "none",
                                  !.dirty = failed]
  <2>1. c.tok = task[t].tok
    <3> HIDE DEF failed
    <3> QED
      BY <1>0 DEF Calls
  <2>2. task' = [task EXCEPT ![t] = c] /\ UNCHANGED <<tokens, audit>>
    BY <1>8 DEF RollbackAnswered, memory, durable
  <2> HIDE DEF c
  <2> QED
    BY <2>1, <2>2, CallKeepsToken
<1>9. CASE RollbackEnd(t)
  BY <1>9, CallReports DEF RollbackEnd, At, memory
<1> QED
  BY <1>1, <1>2, <1>3, <1>4, <1>5, <1>6, <1>7, <1>8, <1>9 DEF RollbackStep

(* haops_backup_revert: its one claim and its one log entry.               *)
LEMMA RevertToken ==
  ASSUME TypeInv, TokenInv, NEW t \in Tasks,
         \/ RevertStep(t)
         \/ \E tk \in DOMAIN tokens, b \in DOMAIN backups :
               RevertConfirm(t, tk, b) \/ RevertMismatch(t, tk, b)
  PROVE  TokenInv'
<1>0. task[t] \in Calls
  BY CallFacts
<1>1. ASSUME NEW tk \in DOMAIN tokens, NEW b, RevertConfirm(t, tk, b)
      PROVE  TokenInv'
  <2> DEFINE c(pc) == [Idle EXCEPT !.pc = pc, !.tok = tk, !.txn = Len(txns) + 1, !.k = 1]
  <2>1. c("rv_write").tok = tk /\ c("rv_wait").tok = tk
    BY DEF Idle
  <2>2. ClaimToken(tk) /\ UNCHANGED audit
        /\ (task' = [task EXCEPT ![t] = c("rv_write")] \/ task' = [task EXCEPT ![t] = c("rv_wait")])
    BY <1>1 DEF RevertConfirm, durable
  <2> HIDE DEF c
  <2> QED
    BY <2>1, <2>2, StartToken
<1>2. ASSUME NEW tk \in DOMAIN tokens, NEW b, RevertMismatch(t, tk, b)
      PROVE  TokenInv'
  BY <1>2, StartToken DEF RevertMismatch, durable, sched
<1>3. CASE RevertWrite(t) \/ RevertFails(t)
  <2>1. /\ UNCHANGED <<tokens, audit>>
        /\ \E c : task' = [task EXCEPT ![t] = c] /\ c.tok \in {0, task[t].tok}
    BY <1>0, <1>3 DEF RevertWrite, RevertFails, Finish, Idle, Calls, memory, durable
  <2> QED
    BY <2>1, CallKeepsToken
<1>4. CASE RevertCommit(t)
  BY <1>4, CallReports DEF RevertCommit, At
<1> QED
  BY <1>1, <1>2, <1>3, <1>4 DEF RevertStep

(* haops_batch_apply: its one claim and its one log entry.                 *)
LEMMA BatchToken ==
  ASSUME TypeInv, TokenInv, NEW t \in Tasks,
         BatchStep(t) \/ \E tk \in DOMAIN tokens : BatchApply(t, tk)
  PROVE  TokenInv'
<1>0. task[t] \in Calls
  BY CallFacts
<1>1. ASSUME NEW tk \in DOMAIN tokens, BatchApply(t, tk)
      PROVE  TokenInv'
  <2> DEFINE c == [Idle EXCEPT !.pc = "b_item", !.tok = tk, !.txn = Len(txns) + 1, !.k = 1]
  <2>1. c.tok = tk
    BY DEF Idle
  <2>2. ClaimToken(tk) /\ UNCHANGED audit
        /\ (UNCHANGED task \/ task' = [task EXCEPT ![t] = c])
    BY <1>1 DEF BatchApply, durable
  <2> HIDE DEF c
  <2> QED
    BY <2>1, <2>2, StartToken
<1>2. CASE BatchWrite(t)
  <2> DEFINE c == [task[t] EXCEPT !.pc = "b_item", !.k = @ + 1]
  <2>1. c.tok = task[t].tok
    BY <1>0 DEF Calls
  <2>2. task' = [task EXCEPT ![t] = c] /\ UNCHANGED <<tokens, audit>>
    BY <1>2 DEF BatchWrite, memory, durable
  <2> HIDE DEF c
  <2> QED
    BY <2>1, <2>2, CallKeepsToken
<1>3. CASE BatchDashboard(t)
  <2> DEFINE c == [task[t] EXCEPT !.pc = "b_lock"]
  <2>1. c.tok = task[t].tok
    BY <1>0 DEF Calls
  <2>2. task' = [task EXCEPT ![t] = c] /\ UNCHANGED <<tokens, audit>>
    BY <1>3 DEF BatchDashboard, memory, durable
  <2> HIDE DEF c
  <2> QED
    BY <2>1, <2>2, CallKeepsToken
<1>4. CASE BatchFile(t) \/ BatchRecheck(t)
  <2>1. ASSUME NEW pc, NEW b,
               task' = [task EXCEPT ![t].pc = pc, ![t].baks = Append(@, b)]
        PROVE  \E c : task' = [task EXCEPT ![t] = c] /\ c.tok \in {0, task[t].tok}
    <3> DEFINE bs == Append(task[t].baks, b)
               c == [task[t] EXCEPT !.pc = pc, !.baks = bs]
    <3>1. task' = [task EXCEPT ![t] = c]
      BY <2>1
    <3>2. c.tok = task[t].tok
      <4> HIDE DEF bs
      <4> QED
        BY <1>0 DEF Calls
    <3> HIDE DEF c
    <3> QED
      BY <3>1, <3>2
  <2>2. UNCHANGED <<tokens, audit>>
    BY <1>4 DEF BatchFile, BatchRecheck, memory
  <2>3. \E pc, b : task' = [task EXCEPT ![t].pc = pc, ![t].baks = Append(@, b)]
    BY <1>4 DEF BatchFile, BatchRecheck
  <2> QED
    BY <2>1, <2>2, <2>3, CallKeepsToken
<1>5. CASE BatchFileFails(t) \/ BatchRefuse(t) \/ BatchSaveFails(t)
  <2> DEFINE c == [task[t] EXCEPT !.pc = "b_undo", !.reply = "none", !.k = @ - 1,
                                  !.n = task[t].k - 1]
  <2>1. c.tok = task[t].tok
    BY <1>0 DEF Calls
  <2>2. task' = [task EXCEPT ![t] = c] /\ UNCHANGED <<tokens, audit>>
    BY <1>5 DEF BatchFileFails, BatchRefuse, BatchSaveFails, Abort, memory, durable
  <2> HIDE DEF c
  <2> QED
    BY <2>1, <2>2, CallKeepsToken
<1>6. CASE BatchSaved(t)
  <2> DEFINE c == [task[t] EXCEPT !.pc = "b_item", !.k = @ + 1, !.reply = "none"]
  <2>1. c.tok = task[t].tok
    BY <1>0 DEF Calls
  <2>2. task' = [task EXCEPT ![t] = c] /\ UNCHANGED <<tokens, audit>>
    BY <1>6 DEF BatchSaved, memory, durable
  <2> HIDE DEF c
  <2> QED
    BY <2>1, <2>2, CallKeepsToken
<1>7. CASE BatchUndoFile(t)
  <2> DEFINE c == [task[t] EXCEPT !.k = @ - 1]
  <2>1. c.tok = task[t].tok
    BY <1>0 DEF Calls
  <2>2. task' = [task EXCEPT ![t] = c] /\ UNCHANGED <<tokens, audit>>
    BY <1>7 DEF BatchUndoFile, memory, durable
  <2> HIDE DEF c
  <2> QED
    BY <2>1, <2>2, CallKeepsToken
<1>8. CASE BatchUndoFileFails(t)
  <2> DEFINE c == [task[t] EXCEPT !.k = @ - 1, !.dirty = TRUE]
  <2>1. c.tok = task[t].tok
    BY <1>0 DEF Calls
  <2>2. task' = [task EXCEPT ![t] = c] /\ UNCHANGED <<tokens, audit>>
    BY <1>8 DEF BatchUndoFileFails, memory, durable
  <2> HIDE DEF c
  <2> QED
    BY <2>1, <2>2, CallKeepsToken
<1>9. CASE BatchUndoDashboard(t)
  <2> DEFINE c == [task[t] EXCEPT !.pc = "b_uwait"]
  <2>1. c.tok = task[t].tok
    BY <1>0 DEF Calls
  <2>2. task' = [task EXCEPT ![t] = c] /\ UNCHANGED <<tokens, audit>>
    BY <1>9 DEF BatchUndoDashboard, memory, durable
  <2> HIDE DEF c
  <2> QED
    BY <2>1, <2>2, CallKeepsToken
<1>10. CASE BatchUndone(t)
  <2> DEFINE failed == task[t].dirty \/ task[t].reply = "err"
             c == [task[t] EXCEPT !.pc = "b_undo", !.k = @ - 1, !.reply = "none",
                                  !.dirty = failed]
  <2>1. c.tok = task[t].tok
    <3> HIDE DEF failed
    <3> QED
      BY <1>0 DEF Calls
  <2>2. task' = [task EXCEPT ![t] = c] /\ UNCHANGED <<tokens, audit>>
    BY <1>10 DEF BatchUndone, memory, durable
  <2> HIDE DEF c
  <2> QED
    BY <2>1, <2>2, CallKeepsToken
<1>11. CASE BatchUndoCrashes(t)
  BY <1>11, CallEndsQuietly DEF BatchUndoCrashes, memory, durable
<1>12. CASE BatchCommit(t) \/ BatchFailed(t)
  BY <1>12, CallReports DEF BatchCommit, BatchFailed, At
<1> QED
  BY <1>1, <1>2, <1>3, <1>4, <1>5, <1>6, <1>7, <1>8, <1>9, <1>10, <1>11, <1>12 DEF BatchStep

(* Answers and the world outside claim no token and log nothing.           *)
LEMMA AnswerToken ==
  ASSUME TypeInv, TokenInv,
         \/ \E e \in inflight : HaSave(e)
         \/ \E t \in Tasks : WsError(t) \/ Cancel(t)
         \/ \E r, c : OutsideEdit(r, c)
         \/ Restart
  PROVE  TokenInv'
<1>1. UNCHANGED audit
  BY DEF HaSave, WsError, Cancel, OutsideEdit, Restart, durable
<1>2. \A u \in Tasks : task'[u].tok \in {0, task[u].tok}
  <2>0. \A u \in Tasks : task[u] \in Calls /\ task \in [Tasks -> Calls]
    BY DEF TypeInv, TypeOK
  <2>1. ASSUME NEW e \in inflight, HaSave(e)
        PROVE  \A u \in Tasks : task'[u].tok \in {0, task[u].tok}
    <3>1. \A u \in Tasks : [task[u] EXCEPT !.reply = "ok"].tok = task[u].tok
      BY <2>0 DEF Calls
    <3>2. \A u \in Tasks : task'[u] \in {task[u], [task[u] EXCEPT !.reply = "ok"]}
      BY <2>1 DEF HaSave
    <3> QED
      BY <3>1, <3>2
  <2>4. ASSUME NEW t \in Tasks, WsError(t)
        PROVE  \A u \in Tasks : task'[u].tok \in {0, task[u].tok}
    <3>1. [task[t] EXCEPT !.reply = "err"].tok = task[t].tok
      BY <2>0 DEF Calls
    <3>2. task' = [task EXCEPT ![t] = [task[t] EXCEPT !.reply = "err"]]
      BY <2>4 DEF WsError
    <3> QED
      BY <2>0, <3>1, <3>2
  <2>2. CASE (\E t \in Tasks : Cancel(t)) \/ Restart
    BY <2>0, <2>2 DEF Cancel, Restart, Idle
  <2>3. CASE \E r, c : OutsideEdit(r, c)
    BY <2>3 DEF OutsideEdit, sched
  <2> QED
    BY <2>1, <2>2, <2>3, <2>4
<1>3. SpentStays
  <2>1. CASE Restart
    <3>1. \A i \in DOMAIN tokens : tokens[i] \in Tokens
      BY SeqIsFun DEF TypeInv, TypeOK
    <3> QED
      BY <2>1, <3>1 DEF Restart, SpentStays, Tokens
  <2>2. CASE UNCHANGED tokens
    BY <2>2 DEF SpentStays
  <2> QED
    BY <2>1, <2>2 DEF HaSave, WsError, Cancel, OutsideEdit, memory
<1> QED
  BY <1>1, <1>2, <1>3, NoneReports

(* haops_backup_prune claims and logs in one step.                         *)
LEMMA PruneToken ==
  ASSUME TypeInv, TokenInv, NEW tk \in DOMAIN tokens, PruneConfirm(tk)
  PROVE  TokenInv'
<1>1. ClaimToken(tk) /\ LogOperation(tk, TRUE, FALSE) /\ UNCHANGED task
  BY DEF PruneConfirm, sched
<1>2. /\ SpentStays /\ tk \in DOMAIN tokens'
      /\ tokens[tk].state = "live" /\ tokens'[tk].state = "spent"
  BY <1>1, ClaimSpends, ClaimFacts
<1>3. /\ \A i \in DOMAIN audit : audit[i].tok # tk
      /\ \A u \in Tasks : task'[u].tok # tk
  BY <1>1, <1>2, ZeroIsNoToken DEF TokenInv, SpentTokens
<1> QED
  BY <1>1, <1>2, <1>3, ReportAdded

LEMMA TokensAreSpent == Spec => [](TypeInv /\ TokenInv)
<1>1. Init => TypeInv /\ TokenInv
  <2>1. Init => TokenInv
    BY DEF Init, TokenInv, SpentTokens, TokenDrivesOneCall, Idle
  <2> QED
    BY <2>1, InitTypeInv
<1>2. TypeInv /\ TokenInv /\ [Next]_vars => (TypeInv /\ TokenInv)'
  <2> SUFFICES ASSUME TypeInv, TokenInv, [Next]_vars
               PROVE  (TypeInv /\ TokenInv)'
    OBVIOUS
  <2>1. TypeInv'
    BY NextType
  <2>2. ASSUME Preview PROVE TokenInv'
    <3>1. \A u \in Tasks : task'[u].tok \in {0, task[u].tok}
      BY <2>2, PreviewKeeps
    <3> QED
      BY <2>2, <3>1, PreviewKeeps, NoneReports
  <2>3. ASSUME NEW t \in Tasks, Start(t) \/ Step(t) PROVE TokenInv'
    BY <2>3, ConfigToken, DashboardToken, RollbackToken, RevertToken, BatchToken
       DEF Start, Step
  <2>4. ASSUME NEW t \in Tasks, Answer(t) \/ Cancel(t) PROVE TokenInv'
    BY <2>4, AnswerToken DEF Answer
  <2>5. ASSUME Environment PROVE TokenInv'
    BY <2>5, AnswerToken DEF Environment
  <2>6. ASSUME UNCHANGED vars PROVE TokenInv'
    BY <2>6 DEF vars, memory, durable, sched, TokenInv, SpentTokens, TokenDrivesOneCall
  <2> QED
    BY <2>1, <2>2, <2>3, <2>4, <2>5, <2>6, PruneToken DEF Next
<1> QED
  BY <1>1, <1>2, PTL DEF Spec

(* A token drives at most one call and one report, in every instance.      *)
THEOREM OneCallPerToken == Spec => []TokenDrivesOneCall
<1>1. TokenInv => TokenDrivesOneCall
  BY DEF TokenInv
<1> QED
  BY <1>1, TokensAreSpent, PTL

-----------------------------------------------------------------------------
(* A lock is held by the call that waits for its save, and by no other.    *)

(* A lock that a call holds is not free.                                   *)
LEMMA HolderIsTask ==
  ASSUME TypeInv, NEW t \in Tasks
  PROVE  t # None
BY ContextAssumption

(* t goes on as c, and neither had nor has a save under way.               *)
LEMMA LockStays ==
  ASSUME TypeInv, LockInv, TokensKeep(tokens, tokens'), UNCHANGED lock,
         NEW t \in Tasks, NEW c, task' = [task EXCEPT ![t] = c],
         task[t].pc \notin Holding, c.pc \notin Holding
  PROVE  LockInv'
<1>1. /\ task'[t] = c /\ \A u \in Tasks \ {t} : task'[u] = task[u]
  BY DEF TypeInv, TypeOK
<1>2. LocksHeld'
  BY <1>1 DEF LockInv, LocksHeld
<1>3. LockCoversSave'
  <2> SUFFICES ASSUME NEW u \in Tasks, task'[u].pc \in {"dash_wait", "b_wait"}
               PROVE  lock[tokens'[task'[u].tok].items[task'[u].k].res] = u
    BY DEF LockCoversSave, Item, Token
  <2>1. u # t /\ task'[u] = task[u]
    BY <1>1 DEF Holding
  <2>2. task[u].tok \in DOMAIN tokens
    BY <2>1, CallFacts
  <2>3. tokens'[task[u].tok].items = tokens[task[u].tok].items
    BY <2>2 DEF TokensKeep
  <2> QED
    BY <2>1, <2>3 DEF LockInv, LockCoversSave, Item, Token
<1> QED
  BY <1>2, <1>3 DEF LockInv

(* t goes on as c and has released what it held.                           *)
LEMMA LockReleased ==
  ASSUME TypeInv, LockInv, UNCHANGED tokens, NEW t \in Tasks, Release(t), NEW c,
         task' = [task EXCEPT ![t] = c], c.pc \notin Holding
  PROVE  LockInv'
<1>1. /\ task'[t] = c /\ \A u \in Tasks \ {t} : task'[u] = task[u]
  BY DEF TypeInv, TypeOK
<1>2. LocksHeld'
  BY <1>1, HolderIsTask DEF LockInv, LocksHeld, Release
<1>3. LockCoversSave'
  <2> SUFFICES ASSUME NEW u \in Tasks, task'[u].pc \in {"dash_wait", "b_wait"}
               PROVE  lock'[tokens[task'[u].tok].items[task'[u].k].res] = u
    BY DEF LockCoversSave, Item, Token
  <2> DEFINE r == tokens[task[u].tok].items[task[u].k].res
  <2>1. u # t /\ task'[u] = task[u]
    BY <1>1 DEF Holding
  <2>2. r \in Dashboards /\ lock[r] = u
    BY <2>1, CallFacts DEF CallFits, AtDashboard, LockInv, LockCoversSave, Item, Token
  <2> QED
    BY <2>1, <2>2 DEF Release
<1> QED
  BY <1>2, <1>3 DEF LockInv

(* t takes the free lock of its item and goes on as c, to wait.            *)
LEMMA LockTaken ==
  ASSUME TypeInv, LockInv, UNCHANGED tokens, NEW t \in Tasks, NEW c,
         task' = [task EXCEPT ![t] = c],
         task[t].pc \in {"dash_lock", "b_lock"}, c.pc \in Holding,
         c.tok = task[t].tok, c.k = task[t].k,
         lock[Item(t).res] = None, lock' = [lock EXCEPT ![Item(t).res] = t]
  PROVE  LockInv'
<1>1. /\ task'[t] = c /\ \A u \in Tasks \ {t} : task'[u] = task[u]
  BY DEF TypeInv, TypeOK
<1>2. Item(t).res \in Dashboards
  BY CallFacts DEF CallFits, AtDashboard, Item, Token
<1>3. LocksHeld'
  BY <1>1 DEF LockInv, LocksHeld, Holding
<1>4. LockCoversSave'
  <2> SUFFICES ASSUME NEW u \in Tasks, task'[u].pc \in {"dash_wait", "b_wait"}
               PROVE  lock'[tokens[task'[u].tok].items[task'[u].k].res] = u
    BY DEF LockCoversSave, Item, Token
  <2>1. CASE u = t
    BY <1>1, <1>2, <2>1 DEF Item, Token, TypeInv, TypeOK
  <2>2. CASE u # t
    <3>1. lock[Item(u).res] = u /\ task'[u] = task[u]
      BY <1>1, <2>2 DEF LockInv, LockCoversSave
    <3>2. Item(u).res # Item(t).res
      BY <3>1, HolderIsTask
    <3>3. lock'[Item(u).res] = u
      BY <1>2, <3>1, <3>2 DEF TypeInv, TypeOK
    <3> QED
      BY <3>1, <3>3 DEF Item, Token
  <2> QED
    BY <2>1, <2>2
<1> QED
  BY <1>3, <1>4 DEF LockInv

(* A token is claimed by a call that holds nothing.                        *)
LEMMA LockStart ==
  ASSUME TypeInv, LockInv, NEW t \in Tasks, NEW tk, ClaimToken(tk), UNCHANGED lock,
         \/ UNCHANGED task
         \/ \E c : /\ task' = [task EXCEPT ![t] = c]
                  /\ task[t].pc \notin Holding /\ c.pc \notin Holding
  PROVE  LockInv'
<1>1. TokensKeep(tokens, tokens')
  BY ClaimFacts
<1>2. CASE UNCHANGED task
  <2>1. LocksHeld'
    BY <1>2 DEF LockInv, LocksHeld
  <2>2. ASSUME NEW u \in Tasks, task[u].pc \in {"dash_wait", "b_wait"}
        PROVE  lock[tokens'[task[u].tok].items[task[u].k].res] = u
    <3>1. task[u].tok \in DOMAIN tokens
      BY <2>2, CallFacts
    <3>2. tokens'[task[u].tok].items = tokens[task[u].tok].items
      BY <1>1, <3>1 DEF TokensKeep
    <3> QED
      BY <2>2, <3>2 DEF LockInv, LockCoversSave, Item, Token
  <2> QED
    BY <1>2, <2>1, <2>2 DEF LockInv, LockCoversSave, Item, Token
<1> QED
  BY <1>1, <1>2, LockStays

(* haops_config_apply leaves the dashboard locks alone.                    *)
LEMMA ConfigLock ==
  ASSUME TypeInv, LockInv, NEW t \in Tasks,
         ConfigStep(t) \/ \E tk \in DOMAIN tokens : ConfigApply(t, tk)
  PROVE  LockInv'
<1>0. task[t] \in Calls
  BY CallFacts
<1>1. ASSUME NEW tk \in DOMAIN tokens, ConfigApply(t, tk)
      PROVE  LockInv'
  <2> DEFINE c == [Idle EXCEPT !.pc = "cfg_backup", !.tok = tk, !.txn = Len(txns) + 1, !.k = 1]
  <2>1. c.pc \notin Holding /\ task[t].pc \notin Holding
    BY <1>1 DEF Idle, Holding, ConfigApply, MayStart
  <2>2. ClaimToken(tk) /\ UNCHANGED lock
        /\ (UNCHANGED task \/ task' = [task EXCEPT ![t] = c])
    BY <1>1 DEF ConfigApply
  <2> HIDE DEF c
  <2> QED
    BY <2>1, <2>2, LockStart
<1>2. CASE ConfigBackup(t)
  <2> DEFINE c == [task[t] EXCEPT !.pc = "cfg_write"]
  <2>1. task[t].pc \notin Holding /\ c.pc \notin Holding
    BY <1>0, <1>2 DEF ConfigBackup, At, Calls, Holding
  <2>2. task' = [task EXCEPT ![t] = c] /\ UNCHANGED <<tokens, lock>>
    BY <1>2 DEF ConfigBackup, memory
  <2> HIDE DEF c
  <2> QED
    BY <2>1, <2>2, LockStays, KeepRefl
<1>3. CASE ConfigWrite(t)
  <2> DEFINE c == [task[t] EXCEPT !.pc = "cfg_commit"]
  <2>1. task[t].pc \notin Holding /\ c.pc \notin Holding
    BY <1>0, <1>3 DEF ConfigWrite, At, Calls, Holding
  <2>2. task' = [task EXCEPT ![t] = c] /\ UNCHANGED <<tokens, lock>>
    BY <1>3 DEF ConfigWrite, memory
  <2> HIDE DEF c
  <2> QED
    BY <2>1, <2>2, LockStays, KeepRefl
<1>4. CASE ConfigWriteFails(t) \/ ConfigCommit(t)
  <2>1. task[t].pc \notin Holding /\ Idle.pc \notin Holding
    BY <1>4 DEF ConfigWriteFails, ConfigCommit, At, Idle, Holding
  <2>2. task' = [task EXCEPT ![t] = Idle] /\ UNCHANGED <<tokens, lock>>
    BY <1>4 DEF ConfigWriteFails, ConfigCommit, Finish, memory
  <2> QED
    BY <2>1, <2>2, LockStays, KeepRefl
<1> QED
  BY <1>1, <1>2, <1>3, <1>4 DEF ConfigStep

(* haops_dashboard_apply takes the lock before it sends its save and       *)
(* releases it with the reply.                                             *)
LEMMA DashboardLock ==
  ASSUME TypeInv, LockInv, NEW t \in Tasks,
         DashboardStep(t) \/ \E tk \in DOMAIN tokens : DashboardApply(t, tk)
  PROVE  LockInv'
<1>0. task[t] \in Calls
  BY CallFacts
<1>1. ASSUME NEW tk \in DOMAIN tokens, DashboardApply(t, tk)
      PROVE  LockInv'
  <2> DEFINE c == [Idle EXCEPT !.pc = "dash_lock", !.tok = tk, !.k = 1]
  <2>1. c.pc \notin Holding /\ task[t].pc \notin Holding
    BY <1>1 DEF Idle, Holding, DashboardApply, MayStart
  <2>2. ClaimToken(tk) /\ UNCHANGED lock
        /\ (UNCHANGED task \/ task' = [task EXCEPT ![t] = c])
    BY <1>1 DEF DashboardApply
  <2> HIDE DEF c
  <2> QED
    BY <2>1, <2>2, LockStart
<1>2. CASE DashboardRecheck(t)
  <2> DEFINE c == [task[t] EXCEPT !.pc = "dash_wait", !.txn = Len(txns) + 1]
  <2>1. task[t].pc = "dash_lock" /\ c.pc \in Holding
        /\ c.tok = task[t].tok /\ c.k = task[t].k
    BY <1>0, <1>2 DEF DashboardRecheck, At, Calls, Holding
  <2>2. /\ task' = [task EXCEPT ![t] = c] /\ UNCHANGED tokens
        /\ lock[Item(t).res] = None /\ lock' = [lock EXCEPT ![Item(t).res] = t]
    BY <1>2 DEF DashboardRecheck, Acquire
  <2> HIDE DEF c
  <2> QED
    BY <2>1, <2>2, LockTaken
<1>3. CASE DashboardRefuse(t)
  <2>1. task[t].pc \notin Holding /\ Idle.pc \notin Holding
    BY <1>3 DEF DashboardRefuse, At, Idle, Holding
  <2>2. task' = [task EXCEPT ![t] = Idle] /\ UNCHANGED <<tokens, lock>>
    BY <1>3 DEF DashboardRefuse, Finish, memory
  <2> QED
    BY <2>1, <2>2, LockStays, KeepRefl
<1>4. CASE DashboardSaved(t) \/ DashboardSaveFails(t)
  <2>1. Idle.pc \notin Holding
    BY DEF Idle, Holding
  <2>2. task' = [task EXCEPT ![t] = Idle] /\ Release(t) /\ UNCHANGED tokens
    BY <1>4 DEF DashboardSaved, DashboardSaveFails, Finish, memory
  <2> QED
    BY <2>1, <2>2, LockReleased
<1> QED
  BY <1>1, <1>2, <1>3, <1>4 DEF DashboardStep

(* haops_rollback leaves the dashboard locks alone.                        *)
LEMMA RollbackLock ==
  ASSUME TypeInv, LockInv, NEW t \in Tasks,
         RollbackStep(t) \/ \E x \in DOMAIN txns : RollbackEnter(t, x)
  PROVE  LockInv'
<1>0. task[t] \in Calls
  BY CallFacts
<1>1. ASSUME NEW x \in DOMAIN txns, RollbackEnter(t, x)
      PROVE  LockInv'
  <2> DEFINE c == [Idle EXCEPT !.pc = "rb_claim", !.txn = x]
  <2>1. c.pc \notin Holding /\ task[t].pc \notin Holding
    BY <1>1 DEF Idle, Holding, RollbackEnter, MayStart
  <2>2. task' = [task EXCEPT ![t] = c] /\ UNCHANGED <<tokens, lock>>
    BY <1>1 DEF RollbackEnter, memory
  <2> HIDE DEF c
  <2> QED
    BY <2>1, <2>2, LockStays, KeepRefl
<1>2. ASSUME NEW tk \in DOMAIN tokens, RollbackClaim(t, tk)
      PROVE  LockInv'
  <2> DEFINE n == IF ActiveSavepoints(task[t].txn) = {} THEN 0
                  ELSE Len(txns[task[t].txn].saves)
             c == [task[t] EXCEPT !.pc = "rb_undo", !.tok = tk, !.k = n, !.n = n]
  <2>1. ClaimToken(tk) /\ UNCHANGED lock /\ task' = [task EXCEPT ![t] = c]
    BY <1>2 DEF RollbackClaim
  <2>2. c.pc \notin Holding /\ task[t].pc \notin Holding
    <3> HIDE DEF n
    <3> QED
      BY <1>0, <1>2 DEF Calls, RollbackClaim, At, Holding
  <2> HIDE DEF c
  <2> QED
    BY <2>1, <2>2, LockStart
<1>3. ASSUME NEW tk \in DOMAIN tokens, RollbackMismatch(t, tk)
      PROVE  LockInv'
  <2>1. task[t].pc \notin Holding /\ Idle.pc \notin Holding
    BY <1>3 DEF RollbackMismatch, At, Idle, Holding
  <2>2. ClaimToken(tk) /\ UNCHANGED lock /\ task' = [task EXCEPT ![t] = Idle]
    BY <1>3 DEF RollbackMismatch, Finish
  <2> QED
    BY <2>1, <2>2, LockStart
<1>4. CASE RollbackRefuse(t) \/ RollbackCrashes(t) \/ RollbackEnd(t)
  <2>1. task[t].pc \notin Holding /\ Idle.pc \notin Holding
    BY <1>4 DEF RollbackRefuse, RollbackCrashes, RollbackEnd, At, Idle, Holding
  <2>2. task' = [task EXCEPT ![t] = Idle] /\ UNCHANGED <<tokens, lock>>
    BY <1>4 DEF RollbackRefuse, RollbackCrashes, RollbackEnd, Finish, memory
  <2> QED
    BY <2>1, <2>2, LockStays, KeepRefl
<1>5. CASE RollbackFile(t)
  <2> DEFINE c == [task[t] EXCEPT !.k = @ - 1]
  <2>1. task[t].pc \notin Holding /\ c.pc \notin Holding
    BY <1>0, <1>5 DEF RollbackFile, At, Calls, Holding
  <2>2. task' = [task EXCEPT ![t] = c] /\ UNCHANGED <<tokens, lock>>
    BY <1>5 DEF RollbackFile, memory
  <2> HIDE DEF c
  <2> QED
    BY <2>1, <2>2, LockStays, KeepRefl
<1>6. CASE RollbackFileFails(t)
  <2> DEFINE c == [task[t] EXCEPT !.k = @ - 1, !.dirty = TRUE]
  <2>1. task[t].pc \notin Holding /\ c.pc \notin Holding
    BY <1>0, <1>6 DEF RollbackFileFails, At, Calls, Holding
  <2>2. task' = [task EXCEPT ![t] = c] /\ UNCHANGED <<tokens, lock>>
    BY <1>6 DEF RollbackFileFails, memory
  <2> HIDE DEF c
  <2> QED
    BY <2>1, <2>2, LockStays, KeepRefl
<1>7. CASE RollbackDashboard(t)
  <2> DEFINE c == [task[t] EXCEPT !.pc = "rb_wait"]
  <2>1. task[t].pc \notin Holding /\ c.pc \notin Holding
    BY <1>0, <1>7 DEF RollbackDashboard, At, Calls, Holding
  <2>2. task' = [task EXCEPT ![t] = c] /\ UNCHANGED <<tokens, lock>>
    BY <1>7 DEF RollbackDashboard, memory
  <2> HIDE DEF c
  <2> QED
    BY <2>1, <2>2, LockStays, KeepRefl
<1>8. CASE RollbackAnswered(t)
  <2> DEFINE failed == task[t].dirty \/ task[t].reply = "err"
             c == [task[t] EXCEPT !.pc = "rb_undo", !.k = @ - 1, !.reply = "none",
                                  !.dirty = failed]
  <2>1. task[t].pc \notin Holding /\ c.pc \notin Holding
    <3> HIDE DEF failed
    <3> QED
      BY <1>0, <1>8 DEF RollbackAnswered, At, Calls, Holding
  <2>2. task' = [task EXCEPT ![t] = c] /\ UNCHANGED <<tokens, lock>>
    BY <1>8 DEF RollbackAnswered, memory
  <2> HIDE DEF c
  <2> QED
    BY <2>1, <2>2, LockStays, KeepRefl
<1> QED
  BY <1>1, <1>2, <1>3, <1>4, <1>5, <1>6, <1>7, <1>8 DEF RollbackStep

(* haops_backup_revert leaves the dashboard locks alone.                   *)
LEMMA RevertLock ==
  ASSUME TypeInv, LockInv, NEW t \in Tasks,
         \/ RevertStep(t)
         \/ \E tk \in DOMAIN tokens, b \in DOMAIN backups :
               RevertConfirm(t, tk, b) \/ RevertMismatch(t, tk, b)
  PROVE  LockInv'
<1>0. task[t] \in Calls
  BY CallFacts
<1>1. ASSUME NEW tk \in DOMAIN tokens, NEW b, RevertConfirm(t, tk, b)
      PROVE  LockInv'
  <2> DEFINE c(pc) == [Idle EXCEPT !.pc = pc, !.tok = tk, !.txn = Len(txns) + 1, !.k = 1]
  <2>1. /\ c("rv_write").pc \notin Holding /\ c("rv_wait").pc \notin Holding
        /\ task[t].pc \notin Holding
    BY <1>1 DEF Idle, Holding, RevertConfirm, MayStart
  <2>2. ClaimToken(tk) /\ UNCHANGED lock
        /\ (task' = [task EXCEPT ![t] = c("rv_write")] \/ task' = [task EXCEPT ![t] = c("rv_wait")])
    BY <1>1 DEF RevertConfirm
  <2> HIDE DEF c
  <2> QED
    BY <2>1, <2>2, LockStart
<1>2. ASSUME NEW tk \in DOMAIN tokens, NEW b, RevertMismatch(t, tk, b)
      PROVE  LockInv'
  BY <1>2, LockStart DEF RevertMismatch, sched
<1>3. CASE RevertWrite(t)
  <2> DEFINE c == [task[t] EXCEPT !.pc = "rv_commit"]
  <2>1. task[t].pc \notin Holding /\ c.pc \notin Holding
    BY <1>0, <1>3 DEF RevertWrite, At, Calls, Holding
  <2>2. task' = [task EXCEPT ![t] = c] /\ UNCHANGED <<tokens, lock>>
    BY <1>3 DEF RevertWrite, memory
  <2> HIDE DEF c
  <2> QED
    BY <2>1, <2>2, LockStays, KeepRefl
<1>4. CASE RevertCommit(t) \/ RevertFails(t)
  <2>1. task[t].pc \notin Holding /\ Idle.pc \notin Holding
    BY <1>4 DEF RevertCommit, RevertFails, At, Idle, Holding
  <2>2. task' = [task EXCEPT ![t] = Idle] /\ UNCHANGED <<tokens, lock>>
    BY <1>4 DEF RevertCommit, RevertFails, Finish, memory
  <2> QED
    BY <2>1, <2>2, LockStays, KeepRefl
<1> QED
  BY <1>1, <1>2, <1>3, <1>4 DEF RevertStep

(* haops_batch_apply takes the lock of a dashboard item before it sends    *)
(* the save and releases it with the reply; restoring takes none.          *)
LEMMA BatchLock ==
  ASSUME TypeInv, LockInv, NEW t \in Tasks,
         BatchStep(t) \/ \E tk \in DOMAIN tokens : BatchApply(t, tk)
  PROVE  LockInv'
<1>0. task[t] \in Calls
  BY CallFacts
<1>1. ASSUME NEW tk \in DOMAIN tokens, BatchApply(t, tk)
      PROVE  LockInv'
  <2> DEFINE c == [Idle EXCEPT !.pc = "b_item", !.tok = tk, !.txn = Len(txns) + 1, !.k = 1]
  <2>1. c.pc \notin Holding /\ task[t].pc \notin Holding
    BY <1>1 DEF Idle, Holding, BatchApply, MayStart
  <2>2. ClaimToken(tk) /\ UNCHANGED lock
        /\ (UNCHANGED task \/ task' = [task EXCEPT ![t] = c])
    BY <1>1 DEF BatchApply
  <2> HIDE DEF c
  <2> QED
    BY <2>1, <2>2, LockStart
<1>2. CASE BatchWrite(t)
  <2> DEFINE c == [task[t] EXCEPT !.pc = "b_item", !.k = @ + 1]
  <2>1. task[t].pc \notin Holding /\ c.pc \notin Holding
    BY <1>0, <1>2 DEF BatchWrite, At, Calls, Holding
  <2>2. task' = [task EXCEPT ![t] = c] /\ UNCHANGED <<tokens, lock>>
    BY <1>2 DEF BatchWrite
  <2> HIDE DEF c
  <2> QED
    BY <2>1, <2>2, LockStays, KeepRefl
<1>3. CASE BatchDashboard(t)
  <2> DEFINE c == [task[t] EXCEPT !.pc = "b_lock"]
  <2>1. task[t].pc \notin Holding /\ c.pc \notin Holding
    BY <1>0, <1>3 DEF BatchDashboard, At, Calls, Holding
  <2>2. task' = [task EXCEPT ![t] = c] /\ UNCHANGED <<tokens, lock>>
    BY <1>3 DEF BatchDashboard, memory
  <2> HIDE DEF c
  <2> QED
    BY <2>1, <2>2, LockStays, KeepRefl
<1>4. CASE BatchFile(t)
  <2> DEFINE b == IF BackupOnWrite /\ ~Item(t).create THEN Len(backups) + 1 ELSE 0
             bs == Append(task[t].baks, b)
             c == [task[t] EXCEPT !.pc = "b_write", !.baks = bs]
  <2>1. task' = [task EXCEPT ![t] = c] /\ UNCHANGED <<tokens, lock>>
    BY <1>4 DEF BatchFile, memory
  <2>2. task[t].pc \notin Holding /\ c.pc \notin Holding
    <3> HIDE DEF bs
    <3> QED
      BY <1>0, <1>4 DEF BatchFile, At, Calls, Holding
  <2> HIDE DEF c
  <2> QED
    BY <2>1, <2>2, LockStays, KeepRefl
<1>5. CASE BatchRecheck(t)
  <2> DEFINE b == IF BackupOnWrite /\ Item(t).old # Empty THEN Len(backups) + 1 ELSE 0
             bs == Append(task[t].baks, b)
             c == [task[t] EXCEPT !.pc = "b_wait", !.baks = bs]
  <2>1. /\ task' = [task EXCEPT ![t] = c] /\ UNCHANGED tokens
        /\ lock[Item(t).res] = None /\ lock' = [lock EXCEPT ![Item(t).res] = t]
    BY <1>5 DEF BatchRecheck, Acquire, memory
  <2>2. task[t].pc = "b_lock" /\ c.pc \in Holding
        /\ c.tok = task[t].tok /\ c.k = task[t].k
    <3> HIDE DEF bs
    <3> QED
      BY <1>0, <1>5 DEF BatchRecheck, At, Calls, Holding
  <2> HIDE DEF c
  <2> QED
    BY <2>1, <2>2, LockTaken
<1>6. CASE BatchFileFails(t) \/ BatchRefuse(t) \/ BatchSaveFails(t)
  <2> DEFINE c == [task[t] EXCEPT !.pc = "b_undo", !.reply = "none", !.k = @ - 1,
                                  !.n = task[t].k - 1]
  <2>1. c.pc \notin Holding
    BY <1>0 DEF Calls, Holding
  <2>2. /\ task' = [task EXCEPT ![t] = c] /\ UNCHANGED tokens
        /\ \/ UNCHANGED lock /\ task[t].pc \notin Holding
           \/ Release(t)
    BY <1>6 DEF BatchFileFails, BatchRefuse, BatchSaveFails, Abort, At, Holding, memory
  <2> HIDE DEF c
  <2> QED
    BY <2>1, <2>2, LockStays, LockReleased, KeepRefl
<1>7. CASE BatchSaved(t)
  <2> DEFINE c == [task[t] EXCEPT !.pc = "b_item", !.k = @ + 1, !.reply = "none"]
  <2>1. c.pc \notin Holding
    BY <1>0 DEF Calls, Holding
  <2>2. task' = [task EXCEPT ![t] = c] /\ UNCHANGED tokens /\ Release(t)
    BY <1>7 DEF BatchSaved
  <2> HIDE DEF c
  <2> QED
    BY <2>1, <2>2, LockReleased
<1>8. CASE BatchUndoFile(t)
  <2> DEFINE c == [task[t] EXCEPT !.k = @ - 1]
  <2>1. task[t].pc \notin Holding /\ c.pc \notin Holding
    BY <1>0, <1>8 DEF BatchUndoFile, At, Calls, Holding
  <2>2. task' = [task EXCEPT ![t] = c] /\ UNCHANGED <<tokens, lock>>
    BY <1>8 DEF BatchUndoFile, memory
  <2> HIDE DEF c
  <2> QED
    BY <2>1, <2>2, LockStays, KeepRefl
<1>9. CASE BatchUndoFileFails(t)
  <2> DEFINE c == [task[t] EXCEPT !.k = @ - 1, !.dirty = TRUE]
  <2>1. task[t].pc \notin Holding /\ c.pc \notin Holding
    BY <1>0, <1>9 DEF BatchUndoFileFails, At, Calls, Holding
  <2>2. task' = [task EXCEPT ![t] = c] /\ UNCHANGED <<tokens, lock>>
    BY <1>9 DEF BatchUndoFileFails, memory
  <2> HIDE DEF c
  <2> QED
    BY <2>1, <2>2, LockStays, KeepRefl
<1>10. CASE BatchUndoDashboard(t)
  <2> DEFINE c == [task[t] EXCEPT !.pc = "b_uwait"]
  <2>1. task[t].pc \notin Holding /\ c.pc \notin Holding
    BY <1>0, <1>10 DEF BatchUndoDashboard, At, Calls, Holding
  <2>2. task' = [task EXCEPT ![t] = c] /\ UNCHANGED <<tokens, lock>>
    BY <1>10 DEF BatchUndoDashboard, memory
  <2> HIDE DEF c
  <2> QED
    BY <2>1, <2>2, LockStays, KeepRefl
<1>11. CASE BatchUndone(t)
  <2> DEFINE failed == task[t].dirty \/ task[t].reply = "err"
             c == [task[t] EXCEPT !.pc = "b_undo", !.k = @ - 1, !.reply = "none",
                                  !.dirty = failed]
  <2>1. task[t].pc \notin Holding /\ c.pc \notin Holding
    <3> HIDE DEF failed
    <3> QED
      BY <1>0, <1>11 DEF BatchUndone, At, Calls, Holding
  <2>2. task' = [task EXCEPT ![t] = c] /\ UNCHANGED <<tokens, lock>>
    BY <1>11 DEF BatchUndone, memory
  <2> HIDE DEF c
  <2> QED
    BY <2>1, <2>2, LockStays, KeepRefl
<1>12. CASE BatchUndoCrashes(t) \/ BatchCommit(t) \/ BatchFailed(t)
  <2>1. task[t].pc \notin Holding /\ Idle.pc \notin Holding
    BY <1>12 DEF BatchUndoCrashes, BatchCommit, BatchFailed, At, Idle, Holding
  <2>2. task' = [task EXCEPT ![t] = Idle] /\ UNCHANGED <<tokens, lock>>
    BY <1>12 DEF BatchUndoCrashes, BatchCommit, BatchFailed, Finish, memory
  <2> QED
    BY <2>1, <2>2, LockStays, KeepRefl
<1> QED
  BY <1>1, <1>2, <1>3, <1>4, <1>5, <1>6, <1>7, <1>8, <1>9, <1>10, <1>11, <1>12 DEF BatchStep

(* Answers and edits move no call and no lock.                             *)
LEMMA AnswerLock ==
  ASSUME TypeInv, LockInv,
         \/ \E e \in inflight : HaSave(e)
         \/ \E t \in Tasks : WsError(t)
         \/ \E r, c : OutsideEdit(r, c)
  PROVE  LockInv'
<1>1. UNCHANGED <<tokens, lock>>
  BY DEF HaSave, WsError, OutsideEdit, memory, sched
<1>2. \A u \in Tasks : /\ task'[u].pc = task[u].pc
                      /\ task'[u].tok = task[u].tok /\ task'[u].k = task[u].k
  <2>0. \A u \in Tasks : task[u] \in Calls
    BY DEF TypeInv, TypeOK
  <2>1. ASSUME NEW u \in Tasks, NEW r, task'[u] = [task[u] EXCEPT !.reply = r]
        PROVE  /\ task'[u].pc = task[u].pc
               /\ task'[u].tok = task[u].tok /\ task'[u].k = task[u].k
    BY <2>0, <2>1 DEF Calls
  <2>2. ASSUME NEW e \in inflight, HaSave(e), NEW u \in Tasks
        PROVE  task'[u] \in {task[u], [task[u] EXCEPT !.reply = "ok"]}
    BY <2>2 DEF HaSave
  <2>3. ASSUME NEW t \in Tasks, WsError(t), NEW u \in Tasks
        PROVE  task'[u] \in {task[u], [task[u] EXCEPT !.reply = "err"]}
    BY <2>3 DEF WsError, TypeInv, TypeOK
  <2>4. ASSUME NEW r, NEW c, OutsideEdit(r, c) PROVE UNCHANGED task
    BY <2>4 DEF OutsideEdit, sched
  <2> TAKE u \in Tasks
  <2>5. \/ task'[u] = task[u]
        \/ task'[u] = [task[u] EXCEPT !.reply = "ok"]
        \/ task'[u] = [task[u] EXCEPT !.reply = "err"]
    BY <2>2, <2>3, <2>4
  <2> QED
    BY <2>1, <2>5
<1> QED
  BY <1>1, <1>2 DEF LockInv, LocksHeld, LockCoversSave, Item, Token

(* A cancelled call gives up what it held; a restart frees everything.     *)
LEMMA CancelLock ==
  ASSUME TypeInv, LockInv, (\E t \in Tasks : Cancel(t)) \/ Restart
  PROVE  LockInv'
<1>1. ASSUME NEW t \in Tasks, Cancel(t) PROVE LockInv'
  <2>1. Idle.pc \notin Holding
    BY DEF Idle, Holding
  <2>2. task' = [task EXCEPT ![t] = Idle] /\ Release(t) /\ UNCHANGED tokens
    BY <1>1 DEF Cancel, memory
  <2> QED
    BY <2>1, <2>2, LockReleased
<1>2. CASE Restart
  <2>1. /\ \A r \in Dashboards : lock'[r] = None
        /\ \A t \in Tasks : task'[t].pc = "idle"
    BY <1>2 DEF Restart, Idle
  <2> QED
    BY <2>1, HolderIsTask DEF LockInv, LocksHeld, LockCoversSave
<1> QED
  BY <1>1, <1>2

(* Every step keeps locks and waiting calls together.                      *)
LEMMA LocksStep == ASSUME TypeInv, LockInv, [Next]_vars PROVE LockInv'
<1>1. ASSUME UNCHANGED <<task, lock>>, TokensKeep(tokens, tokens') PROVE LockInv'
  <2>1. ASSUME NEW u \in Tasks, task[u].pc \in {"dash_wait", "b_wait"}
        PROVE  lock[tokens'[task[u].tok].items[task[u].k].res] = u
    <3>1. task[u].tok \in DOMAIN tokens
      BY <2>1, CallFacts
    <3>2. tokens'[task[u].tok].items = tokens[task[u].tok].items
      BY <1>1, <3>1 DEF TokensKeep
    <3> QED
      BY <2>1, <3>2 DEF LockInv, LockCoversSave, Item, Token
  <2> QED
    BY <1>1, <2>1 DEF LockInv, LocksHeld, LockCoversSave, Item, Token
<1>2. ASSUME Preview PROVE LockInv'
  BY <1>1, <1>2, PreviewKeeps
<1>3. ASSUME NEW tk \in DOMAIN tokens, PruneConfirm(tk) PROVE LockInv'
  BY <1>1, <1>3, ClaimFacts DEF PruneConfirm, sched
<1>4. ASSUME NEW t \in Tasks, Start(t) \/ Step(t) PROVE LockInv'
  BY <1>4, ConfigLock, DashboardLock, RollbackLock, RevertLock, BatchLock DEF Start, Step
<1>5. ASSUME NEW t \in Tasks, Answer(t) \/ Cancel(t) PROVE LockInv'
  BY <1>5, AnswerLock, CancelLock DEF Answer
<1>6. ASSUME Environment PROVE LockInv'
  BY <1>6, AnswerLock, CancelLock DEF Environment
<1>7. ASSUME UNCHANGED vars PROVE LockInv'
  BY <1>1, <1>7, KeepRefl DEF vars, memory, sched
<1> QED
  BY <1>2, <1>3, <1>4, <1>5, <1>6, <1>7 DEF Next

(* The lock invariant holds in every state.                                *)
LEMMA LockInvariant == Spec => []LockInv
<1>1. Init => TypeInv /\ LockInv
  <2>1. Init => LockInv
    BY ContextAssumption DEF Init, LockInv, LocksHeld, LockCoversSave, Idle
  <2> QED
    BY <2>1, InitTypeInv
<1>2. TypeInv /\ LockInv /\ [Next]_vars => (TypeInv /\ LockInv)'
  BY NextType, LocksStep
<1>3. TypeInv /\ LockInv => LockInv
  OBVIOUS
<1> QED
  BY <1>1, <1>2, <1>3, PTL DEF Spec

(* A call that waits for the reply to a guarded save holds the lock of its *)
(* dashboard, in every instance.                                           *)
THEOREM SavesAreCovered == Spec => []LockCoversSave
<1>1. LockInv => LockCoversSave
  BY DEF LockInv
<1> QED
  BY <1>1, LockInvariant, PTL

(* A call that waits for a lock holds none, in every instance.             *)
THEOREM WaitersAreFree == Spec => []WaitersHoldNoLock
<1>1. LockInv => WaitersHoldNoLock
  BY DEF LockInv, LocksHeld, WaitersHoldNoLock, Holding
<1> QED
  BY <1>1, LockInvariant, PTL

-----------------------------------------------------------------------------
(* What an apply overwrites is what its preview showed.                    *)

(* What every step of t has in common: it has the event loop or finds it   *)
(* free, and leaves the other calls and what the tokens hold alone.        *)
Acts(t) ==
  /\ loop \in {None, t}
  /\ \A u \in Tasks \ {t} : task'[u] = task[u]
  /\ TokensKeep(tokens, tokens') /\ DOMAIN tokens' = DOMAIN tokens

(* The call c is about to write a file it may write.                       *)
MayWrite(c) ==
  LET it == tokens[c.tok].items[c.k]
  IN  /\ c.tok \in DOMAIN tokens /\ c.k \in DOMAIN tokens[c.tok].items
      /\ it.res \in Files
      /\ c.pc \in Rechecked /\ writer[it.res] # "outside"
           => OrEmpty(content[it.res]) = it.old

InPlace(t, c) ==
  /\ c.pc \in Batching => c.tok \in DOMAIN tokens /\ tokens[c.tok].action = "batch_apply"
  /\ c.pc = "b_item" => loop' = t
  /\ c.pc = "dash_lock" => c.k = 1

DashboardsStay ==
  \A d \in Dashboards : content'[d] = content[d] /\ writer'[d] = writer[d]

(* Claims and edits leave the items of the tokens as they are.             *)
LEMMA ShapesStay ==
  ASSUME TokensShaped, TokensKeep(tokens, tokens'), DOMAIN tokens' = DOMAIN tokens
  PROVE  TokensShaped'
<1> SUFFICES ASSUME NEW tk \in DOMAIN tokens', NEW k \in DOMAIN tokens'[tk].items
             PROVE  LET it == tokens'[tk].items[k]
                    IN  /\ tokens'[tk].action = "config_apply" => it.res \in Files
                        /\ tokens'[tk].action = "batch_apply" /\ it.create => it.old = Empty
  BY DEF TokensShaped
<1>1. tk \in DOMAIN tokens /\ tokens'[tk].items = tokens[tk].items
      /\ tokens'[tk].action = tokens[tk].action
  BY DEF TokensKeep
<1> QED
  BY <1>1 DEF TokensShaped

(* While t acts nobody else is about to write a file.                      *)
LEMMA RecheckStep ==
  ASSUME TypeInv, RecheckHolds, NEW t \in Tasks, Acts(t), NEW c, task'[t] = c,
         c.pc \notin Waiting => c.reply = "none", InPlace(t, c),
         c.pc \in AtFile => loop' = t /\ MayWrite(c) /\ UNCHANGED <<content, writer>>
  PROVE  RecheckHolds'
<1>1. ASSUME NEW u \in Tasks \ {t} PROVE task[u].pc \notin AtFile \cup {"b_item"} /\ task'[u] = task[u]
  BY <1>1, ContextAssumption DEF Acts, RecheckHolds, KeepsPlace
<1>4. \A u \in Tasks :
        /\ task'[u].pc \in Batching => tokens'[task'[u].tok].action = "batch_apply"
        /\ task'[u].pc = "b_item" => loop' = u
        /\ task'[u].pc = "dash_lock" => task'[u].k = 1
  <2>1. \A u \in Tasks : task[u].pc \in Batching => task[u].tok \in DOMAIN tokens
    BY CallFacts DEF Batching
  <2>2. ASSUME NEW u \in Tasks \ {t}
        PROVE  /\ task[u].pc \in Batching => tokens'[task[u].tok].action = "batch_apply"
               /\ task[u].pc # "b_item"
               /\ task[u].pc = "dash_lock" => task[u].k = 1
    BY <1>1, <2>1 DEF Acts, TokensKeep, RecheckHolds, KeepsPlace, Token
  <2>3. /\ c.pc \in Batching => tokens'[c.tok].action = "batch_apply"
        /\ c.pc = "b_item" => loop' = t
        /\ c.pc = "dash_lock" => c.k = 1
    BY DEF InPlace, Acts, TokensKeep
  <2> QED
    BY <1>1, <2>2, <2>3
<1>2. ASSUME c.pc \in AtFile
      PROVE  /\ loop' = t /\ tokens'[c.tok].items[c.k].res \in Files
             /\ c.pc \in Rechecked /\ writer'[tokens'[c.tok].items[c.k].res] # "outside"
                  => OrEmpty(content'[tokens'[c.tok].items[c.k].res]) = tokens'[c.tok].items[c.k].old
  <2>1. tokens'[c.tok].items = tokens[c.tok].items
    BY <1>2 DEF MayWrite, Acts, TokensKeep
  <2> QED
    BY <1>2, <2>1 DEF MayWrite
<1>3. Rechecked \subseteq AtFile
  BY DEF AtFile
<1>5. ASSUME NEW u \in Tasks \ {t} PROVE KeepsPlace(u)'
  <2>1. task[u].pc \notin Waiting => task[u].reply = "none"
    BY DEF RecheckHolds, KeepsPlace
  <2> QED
    BY <1>1, <1>3, <1>4, <2>1 DEF KeepsPlace, Token
<1>6. KeepsPlace(t)'
  BY <1>2, <1>3, <1>4 DEF KeepsPlace, Item, Token
<1> QED
  BY <1>5, <1>6 DEF RecheckHolds

(* The item a call waits about stays its item.                             *)
LEMMA AwaitedItem ==
  ASSUME TypeInv, TokensKeep(tokens, tokens'), NEW u \in Tasks, task[u].pc \in Waiting,
         task'[u] = task[u]
  PROVE  /\ Item(u)' = Item(u)
         /\ tokens'[task[u].tok].action = tokens[task[u].tok].action
<1>1. task[u].tok \in DOMAIN tokens
  BY CallFacts DEF Waiting
<1>2. tokens'[task[u].tok].items = tokens[task[u].tok].items
      /\ tokens'[task[u].tok].action = tokens[task[u].tok].action
  BY <1>1 DEF TokensKeep
<1> QED
  BY <1>2 DEF Item, Token

(* A call that is left alone goes on waiting for its save.                 *)
LEMMA AwaitedStep ==
  ASSUME TypeInv, TokensKeep(tokens, tokens'), NEW u \in Tasks, task'[u] = task[u],
         NEW e, AwaitedBy(e, u)
  PROVE  AwaitedBy(e, u)'
<1>1. /\ Item(u)' = Item(u)
      /\ tokens'[e.tok].action = tokens[e.tok].action
  BY AwaitedItem DEF AwaitedBy
<1> QED
  BY <1>1 DEF AwaitedBy

(* The token of a save somebody waits for is known.                        *)
LEMMA HeardToken ==
  ASSUME TypeInv, SavesAwaited, NEW e \in inflight, e.heard
  PROVE  e.tok \in DOMAIN tokens
<1>1. PICK u \in Tasks : AwaitedBy(e, u)
  BY DEF SavesAwaited
<1> QED
  BY <1>1, CallFacts DEF AwaitedBy, Waiting

(* A checked save stays fresh while nobody writes to a dashboard.          *)
LEMMA FreshStep ==
  ASSUME TypeInv, SavesAwaited, SavesFresh, TokensKeep(tokens, tokens'), DashboardsStay,
         \A e \in inflight' : e.heard => e \in inflight
  PROVE  SavesFresh'
<1> SUFFICES ASSUME NEW e \in inflight', e.heard, e.checked, writer'[e.res] = "apply"
             PROVE  content'[e.res] = tokens'[e.tok].items[e.k].old
  BY DEF SavesFresh
<1>1. e \in inflight /\ e.tok \in DOMAIN tokens
  BY HeardToken
<1>2. e.res \in Dashboards
  BY <1>1 DEF TypeInv, TypeOK, Saves
<1>3. tokens'[e.tok].items = tokens[e.tok].items
  BY <1>1 DEF TokensKeep
<1> QED
  BY <1>1, <1>2, <1>3 DEF SavesFresh, DashboardsStay

(* t goes on as c and neither had nor has a save under way.                *)
LEMMA ClobberQuiet ==
  ASSUME TypeInv, ClobberInv, NEW t \in Tasks, Acts(t), UNCHANGED inflight, DashboardsStay,
         task[t].pc \in Waiting => task[t].reply # "none",
         NEW c, task'[t] = c, c.pc \notin Waiting, c.reply = "none", InPlace(t, c),
         c.pc \in AtFile => loop' = t /\ MayWrite(c) /\ UNCHANGED <<content, writer>>
  PROVE  ClobberInv'
<1>1. TokensShaped'
  BY ShapesStay DEF ClobberInv, Acts
<1>2. RecheckHolds'
  BY RecheckStep DEF ClobberInv
<1>3. SavesAwaited'
  <2>1. ASSUME NEW e \in inflight, e.heard
        PROVE  \E u \in Tasks : AwaitedBy(e, u)'
    <3>1. PICK u \in Tasks : AwaitedBy(e, u)
      BY <2>1 DEF ClobberInv, SavesAwaited
    <3>2. task'[u] = task[u]
      BY <3>1 DEF Acts, AwaitedBy
    <3> QED
      BY <3>1, <3>2, AwaitedStep DEF Acts
  <2> QED
    BY <2>1 DEF ClobberInv, SavesAwaited
<1>4. SavesFresh'
  BY FreshStep DEF ClobberInv, Acts
<1> QED
  BY <1>1, <1>2, <1>3, <1>4 DEF ClobberInv

(* t, under the token tk of nobody else, sends a save and waits.           *)
LEMMA ClobberSend ==
  ASSUME TypeInv, ClobberInv, NEW t \in Tasks, Acts(t), UNCHANGED <<content, writer>>,
         task[t].pc \notin Waiting,
         NEW c, task'[t] = c, c.pc \in Waiting, c.reply = "none", c.tok \in DOMAIN tokens, InPlace(t, c),
         \A u \in Tasks \ {t} : task[u].tok # c.tok,
         NEW k, NEW dir, NEW r, NEW v, NEW checked, Send(c.tok, k, dir, r, v, checked),
         checked \/ (dir = "do" /\ tokens[c.tok].action # "backup_revert") =>
           /\ c.pc \in Holding
           /\ r = tokens[c.tok].items[c.k].res /\ k = c.k,
         checked /\ writer[r] = "apply" => content[r] = tokens[c.tok].items[k].old
  PROVE  ClobberInv'
<1>1. PICK new : new = [tok |-> c.tok, k |-> k, dir |-> dir, res |-> r,
                        new |-> v, heard |-> TRUE, checked |-> checked]
  OBVIOUS
<1>2. /\ inflight' = inflight \cup {new} /\ new.tok = c.tok /\ new.k = k /\ new.dir = dir
      /\ new.res = r /\ new.heard /\ new.checked = checked
  BY <1>1 DEF Send
<1>3. tokens'[c.tok].items = tokens[c.tok].items /\ tokens'[c.tok].action = tokens[c.tok].action
  BY DEF Acts, TokensKeep
<1>4. TokensShaped'
  BY ShapesStay DEF ClobberInv, Acts
<1>5. RecheckHolds'
  BY RecheckStep DEF ClobberInv, AtFile, Rechecked, Waiting
<1>6. ASSUME NEW e \in inflight, e.heard
      PROVE  e.tok # c.tok /\ \E u \in Tasks : AwaitedBy(e, u)'
  <2>1. PICK u \in Tasks : AwaitedBy(e, u)
    BY <1>6 DEF ClobberInv, SavesAwaited
  <2>2. u # t
    BY <2>1 DEF AwaitedBy
  <2>3. task'[u] = task[u]
    BY <2>2 DEF Acts
  <2> QED
    BY <2>1, <2>2, <2>3, AwaitedStep DEF Acts, AwaitedBy
<1>7. AwaitedBy(new, t)'
  BY <1>2, <1>3 DEF AwaitedBy, Item, Token
<1>8. SavesAwaited'
  BY <1>2, <1>6, <1>7 DEF ClobberInv, SavesAwaited
<1>9. SavesFresh'
  <2> SUFFICES ASSUME NEW e \in inflight', e.heard, e.checked, writer[e.res] = "apply"
               PROVE  content[e.res] = tokens'[e.tok].items[e.k].old
    BY DEF SavesFresh
  <2>1. CASE e = new
    BY <1>2, <1>3, <2>1
  <2>2. CASE e \in inflight
    <3>1. e.tok \in DOMAIN tokens
      BY <2>2, HeardToken DEF ClobberInv
    <3>2. tokens'[e.tok].items = tokens[e.tok].items
      BY <3>1 DEF Acts, TokensKeep
    <3> QED
      BY <2>2, <3>2 DEF ClobberInv, SavesFresh
  <2> QED
    BY <1>2, <2>1, <2>2
<1> QED
  BY <1>4, <1>5, <1>8, <1>9 DEF ClobberInv

(* Nothing happens but to the tokens.                                      *)
LEMMA ClobberStill ==
  ASSUME TypeInv, ClobberInv, UNCHANGED <<content, writer, inflight, task, loop>>,
         TokensKeep(tokens, tokens'), TokensShaped'
  PROVE  ClobberInv'
<1>1. RecheckHolds'
  <2>1. ASSUME NEW u \in Tasks, task[u].pc \in AtFile PROVE Item(u)' = Item(u)
    <3>1. task[u].tok \in DOMAIN tokens
      BY <2>1, CallFacts DEF AtFile, Rechecked
    <3>2. tokens'[task[u].tok].items = tokens[task[u].tok].items
      BY <3>1 DEF TokensKeep
    <3> QED
      BY <3>2 DEF Item, Token
  <2>2. Rechecked \subseteq AtFile
    BY DEF AtFile
  <2>3. ASSUME NEW u \in Tasks, task[u].pc \in Batching PROVE Token(u)'.action = Token(u).action
    <3>1. task[u].tok \in DOMAIN tokens
      BY <2>3, CallFacts DEF Batching
    <3> QED
      BY <3>1 DEF TokensKeep, Token
  <2> QED
    BY <2>1, <2>2, <2>3 DEF ClobberInv, RecheckHolds, KeepsPlace
<1>2. SavesAwaited'
  <2>1. ASSUME NEW e \in inflight, NEW u \in Tasks, AwaitedBy(e, u) PROVE AwaitedBy(e, u)'
    BY <2>1, AwaitedStep
  <2> QED
    BY <2>1 DEF ClobberInv, SavesAwaited
<1>3. SavesFresh'
  BY FreshStep DEF ClobberInv, DashboardsStay
<1> QED
  BY <1>1, <1>2, <1>3 DEF ClobberInv

-----------------------------------------------------------------------------
(* What happens beside the calls.                                          *)

(* Of exclusive arms, the last is taken when none of the others is.        *)
LEMMA OneKind ==
  ASSUME NEW a \in BOOLEAN, NEW b \in BOOLEAN, NEW c \in BOOLEAN,
         ~(a /\ b), ~(a /\ c), ~(b /\ c),
         NEW s, s = CASE a -> "late" [] b -> "undo" [] c -> "revert" [] OTHER -> "apply"
  PROVE  s = "apply" => ~a /\ ~b /\ ~c
<1>1. CASE a
  BY <1>1, Zenon
<1>2. CASE b
  BY <1>2, Zenon
<1>3. CASE c
  BY <1>3, Zenon
<1> QED
  BY <1>1, <1>2, <1>3

(* A save counts as an apply when it is heard and neither undoes nor       *)
(* reverts.                                                                *)
LEMMA ApplyKind ==
  ASSUME NEW e, SaveKind(e) = "apply"
  PROVE  e.heard /\ e.dir # "undo" /\ ~(e.dir = "do" /\ tokens[e.tok].action = "backup_revert")
<1>1. PICK a \in BOOLEAN : a = ~e.heard
  OBVIOUS
<1>2. PICK b \in BOOLEAN : b = (e.heard /\ e.dir = "undo")
  OBVIOUS
<1>3. PICK c \in BOOLEAN : c = (e.heard /\ e.dir = "do" /\ tokens[e.tok].action = "backup_revert")
  OBVIOUS
<1>4. SaveKind(e) = CASE a -> "late" [] b -> "undo" [] c -> "revert" [] OTHER -> "apply"
  BY <1>1, <1>2, <1>3, Zenon DEF SaveKind
<1>5. ~(a /\ b) /\ ~(a /\ c) /\ ~(b /\ c)
  BY <1>1, <1>2, <1>3
<1>6. ~a /\ ~b /\ ~c
  BY <1>4, <1>5, OneKind, Zenon
<1> QED
  BY <1>1, <1>2, <1>3, <1>6

(* Home Assistant executes a save: no other checked save of that dashboard *)
(* is awaited, or two calls would hold its lock.                           *)
LEMMA ClobberSave ==
  ASSUME TypeInv, TokenInv, LockInv, ClobberInv, NEW e0 \in inflight, HaSave(e0)
  PROVE  ClobberInv'
<1>0. e0.res \in Dashboards /\ e0.tok \in TokenIds /\ e0.dir \in {"do", "undo"} /\ e0.heard \in BOOLEAN
  BY DEF TypeInv, TypeOK, Saves
<1>1. /\ content' = [content EXCEPT ![e0.res] = e0.new]
      /\ writer' = [writer EXCEPT ![e0.res] = SaveKind(e0)]
      /\ inflight' = inflight \ {e0}
      /\ UNCHANGED <<tokens, loop, lock>>
  BY DEF HaSave, Write, memory
<1>2. /\ \A r \in Resources \ {e0.res} : content'[r] = content[r] /\ writer'[r] = writer[r]
      /\ writer'[e0.res] = SaveKind(e0)
  BY <1>0, <1>1 DEF TypeInv, TypeOK, Resources
<1>3. \A u \in Tasks : /\ task'[u].pc = task[u].pc
                      /\ task'[u].tok = task[u].tok /\ task'[u].k = task[u].k
                      /\ \/ task'[u].reply = task[u].reply
                         \/ e0.heard /\ task[u].tok = e0.tok
  <2> TAKE u \in Tasks
  <2>1. task[u] \in Calls
    BY CallFacts
  <2>2. \/ task'[u] = task[u]
        \/ e0.heard /\ task[u].tok = e0.tok /\ task'[u] = [task[u] EXCEPT !.reply = "ok"]
    BY DEF HaSave
  <2> QED
    BY <2>1, <2>2 DEF Calls
<1>4. \A u \in Tasks : e0.heard /\ task[u].tok = e0.tok => task[u].pc \in Waiting
  <2> SUFFICES ASSUME NEW u \in Tasks, e0.heard, task[u].tok = e0.tok PROVE task[u].pc \in Waiting
    OBVIOUS
  <2>1. PICK v \in Tasks : AwaitedBy(e0, v)
    BY DEF ClobberInv, SavesAwaited
  <2>2. e0.tok # 0
    BY <1>0, ContextAssumption DEF TokenIds
  <2>3. u = v
    BY <2>1, <2>2 DEF AwaitedBy, TokenInv, TokenDrivesOneCall
  <2> QED
    BY <2>1, <2>3 DEF AwaitedBy
<1>5. TokensShaped'
  BY <1>1 DEF ClobberInv, TokensShaped
<1>6. RecheckHolds'
  <2>1. ASSUME NEW u \in Tasks, task[u].pc \in AtFile PROVE Item(u).res \in Resources \ {e0.res}
    BY <1>0, <2>1, ContextAssumption DEF ClobberInv, RecheckHolds, KeepsPlace, Resources
  <2>2. Rechecked \subseteq AtFile
    BY DEF AtFile
  <2>3. \A u \in Tasks : Item(u)' = Item(u) /\ Token(u)' = Token(u)
    BY <1>1, <1>3 DEF Item, Token
  <2> QED
    BY <1>1, <1>2, <1>3, <1>4, <2>1, <2>2, <2>3 DEF ClobberInv, RecheckHolds, KeepsPlace
<1>7. \A e \in inflight, u \in Tasks :
        e # e0 /\ e.heard /\ AwaitedBy(e, u) => AwaitedBy(e, u)'
  <2> SUFFICES ASSUME NEW e \in inflight, NEW u \in Tasks, e # e0, e.heard, AwaitedBy(e, u)
               PROVE  AwaitedBy(e, u)'
    OBVIOUS
  <2>1. ~(e0.heard /\ task[u].tok = e0.tok)
    BY DEF ClobberInv, SavesAwaited, AwaitedBy
  <2>2. Item(u)' = Item(u)
    BY <1>1, <1>3 DEF Item, Token
  <2> QED
    BY <1>1, <1>3, <2>1, <2>2 DEF AwaitedBy
<1>8. SavesAwaited'
  BY <1>1, <1>7 DEF ClobberInv, SavesAwaited
<1>9. SavesFresh'
  <2> SUFFICES ASSUME NEW e \in inflight, e # e0, e.heard, e.checked, writer'[e.res] = "apply"
               PROVE  content'[e.res] = tokens[e.tok].items[e.k].old
    BY <1>1 DEF SavesFresh
  <2>1. e.res \in Resources
    BY DEF TypeInv, TypeOK, Saves, Resources
  <2>2. CASE e.res # e0.res
    BY <1>2, <2>1, <2>2 DEF ClobberInv, SavesFresh
  <2>3. ASSUME e.res = e0.res PROVE FALSE
    <3>1. e0.heard /\ e0.dir = "do" /\ tokens[e0.tok].action # "backup_revert"
      BY <1>0, <1>2, <2>3, ApplyKind
    <3>2. PICK u0 \in Tasks : AwaitedBy(e0, u0)
      BY <3>1 DEF ClobberInv, SavesAwaited
    <3>3. PICK u \in Tasks : AwaitedBy(e, u)
      BY DEF ClobberInv, SavesAwaited
    <3>4. lock[e0.res] = u0 /\ lock[e.res] = u
      BY <3>1, <3>2, <3>3 DEF AwaitedBy, Holding, LockInv, LockCoversSave
    <3>5. e.tok = e0.tok
      BY <2>3, <3>2, <3>3, <3>4 DEF AwaitedBy
    <3> QED
      BY <3>1, <3>5 DEF ClobberInv, SavesAwaited
  <2> QED
    BY <2>2, <2>3
<1> QED
  BY <1>5, <1>6, <1>8, <1>9 DEF ClobberInv

(* Nobody waits any more for the save of t, if it had one.                 *)
LEMMA ClobberLoses ==
  ASSUME TypeInv, ClobberInv, UNCHANGED <<tokens, content, writer, loop>>,
         NEW t \in Tasks, \A u \in Tasks \ {t} : task'[u] = task[u],
         task'[t].pc \notin AtFile,
         task'[t].pc \in Batching \cup {"dash_lock"} =>
           /\ task[t].pc = task'[t].pc
           /\ task'[t].tok = task[t].tok /\ task'[t].k = task[t].k,
         task'[t].pc \notin Waiting => task'[t].reply = "none",
         \A e \in inflight' : e.heard => e \in inflight /\ e.tok # task[t].tok
  PROVE  ClobberInv'
<1>1. TokensShaped'
  BY DEF ClobberInv, TokensShaped
<1>2. RecheckHolds'
  <2>1. Rechecked \subseteq AtFile
    BY DEF AtFile
  <2>2. /\ task'[t].pc \in Batching => tokens[task'[t].tok].action = "batch_apply"
        /\ task'[t].pc = "b_item" => loop' = t
        /\ task'[t].pc = "dash_lock" => task'[t].k = 1
    BY DEF ClobberInv, RecheckHolds, KeepsPlace, Token, Batching
  <2>3. task'[t].pc \notin AtFile /\ (task'[t].pc \notin Waiting => task'[t].reply = "none")
    OBVIOUS
  <2>4. ASSUME NEW u \in Tasks \ {t} PROVE KeepsPlace(u)'
    <3>1. KeepsPlace(u) /\ task'[u] = task[u]
      BY DEF ClobberInv, RecheckHolds
    <3> QED
      BY <3>1 DEF KeepsPlace, Item, Token
  <2>5. KeepsPlace(t)'
    BY <2>1, <2>2, <2>3 DEF KeepsPlace, Token
  <2> QED
    BY <2>4, <2>5 DEF RecheckHolds
<1>3. SavesAwaited'
  <2>1. ASSUME NEW e \in inflight', e.heard PROVE \E u \in Tasks : AwaitedBy(e, u)'
    <3>1. e \in inflight /\ e.tok # task[t].tok
      BY <2>1
    <3>2. PICK u \in Tasks : AwaitedBy(e, u)
      BY <2>1, <3>1 DEF ClobberInv, SavesAwaited
    <3>3. task'[u] = task[u]
      BY <3>1, <3>2 DEF AwaitedBy
    <3> QED
      BY <3>2, <3>3 DEF AwaitedBy, Item, Token
  <2> QED
    BY <2>1 DEF ClobberInv, SavesAwaited
<1>4. SavesFresh'
  BY DEF ClobberInv, SavesFresh
<1> QED
  BY <1>1, <1>2, <1>3, <1>4 DEF ClobberInv

(* What is unheard is heard no more.                                       *)
LEMMA UnheardIs ==
  ASSUME TypeInv, NEW tk, NEW e \in Unheard(tk), e.heard
  PROVE  e \in inflight /\ e.tok # tk
<1>1. PICK f \in inflight : e = IF f.tok = tk THEN [f EXCEPT !.heard = FALSE] ELSE f
  BY DEF Unheard
<1>2. f \in Saves
  BY DEF TypeInv, TypeOK
<1>3. f.tok # tk
  BY <1>1, <1>2 DEF Saves
<1> QED
  BY <1>1, <1>3

(* The reply is lost or an error.                                          *)
LEMMA ClobberError ==
  ASSUME TypeInv, TokenInv, ClobberInv, NEW t \in Tasks, WsError(t)
  PROVE  ClobberInv'
<1>1. PICK e0 \in inflight :
        /\ e0.heard /\ e0.tok = task[t].tok
        /\ inflight' \in {inflight \ {e0}, Unheard(e0.tok)}
        /\ task' = [task EXCEPT ![t].reply = "err"]
        /\ UNCHANGED <<tokens, content, writer, loop>>
  BY DEF WsError, memory
<1>2. /\ \A u \in Tasks \ {t} : task'[u] = task[u]
      /\ task'[t].pc = task[t].pc /\ task'[t].tok = task[t].tok /\ task'[t].k = task[t].k
  <2>1. task[t] \in Calls /\ task \in [Tasks -> Calls]
    BY CallFacts DEF TypeInv, TypeOK
  <2> QED
    BY <1>1, <2>1 DEF Calls
<1>3. task[t].pc \in Waiting
  <2>1. PICK v \in Tasks : AwaitedBy(e0, v)
    BY <1>1 DEF ClobberInv, SavesAwaited
  <2>2. e0.tok # 0
    BY ContextAssumption DEF TypeInv, TypeOK, Saves, TokenIds
  <2>3. v = t
    BY <1>1, <2>1, <2>2 DEF AwaitedBy, TokenInv, TokenDrivesOneCall
  <2> QED
    BY <2>1, <2>3 DEF AwaitedBy
<1>4. \A e \in inflight' : e.heard => e \in inflight /\ e.tok # task[t].tok
  BY <1>1, UnheardIs DEF ClobberInv, SavesAwaited
<1>5. Waiting \cap AtFile = {}
  BY DEF Waiting, AtFile, Rechecked
<1> QED
  BY <1>1, <1>2, <1>3, <1>4, <1>5, ClobberLoses

(* A cancelled call leaves a save behind that nobody hears.                *)
LEMMA ClobberCancel ==
  ASSUME TypeInv, ClobberInv, NEW t \in Tasks, Cancel(t)
  PROVE  ClobberInv'
<1>1. /\ UNCHANGED <<tokens, content, writer, loop>>
      /\ inflight' = Unheard(task[t].tok) /\ task' = [task EXCEPT ![t] = Idle]
  BY DEF Cancel, memory
<1>2. /\ \A u \in Tasks \ {t} : task'[u] = task[u]
      /\ task'[t] = Idle
  BY <1>1 DEF TypeInv, TypeOK
<1>3. Idle.pc \notin AtFile /\ Idle.pc \notin Batching \cup {"dash_lock"} /\ Idle.reply = "none"
  BY DEF Idle, AtFile, Rechecked, Batching
<1> QED
  BY <1>1, <1>2, <1>3, UnheardIs, ClobberLoses

(* After a restart nobody waits and nobody is about to write.              *)
LEMMA ClobberRestart ==
  ASSUME TypeInv, ClobberInv, Restart
  PROVE  ClobberInv'
<1>1. /\ \A t \in Tasks : task'[t] = Idle
      /\ TokensKeep(tokens, tokens') /\ DOMAIN tokens' = DOMAIN tokens
  <2>1. \A i \in DOMAIN tokens : tokens[i] \in Tokens
    BY SeqIsFun DEF TypeInv, TypeOK
  <2> QED
    BY <2>1 DEF Restart, TokensKeep, Tokens
<1>2. \A e \in inflight' : ~e.heard
  <2>1. \A e \in inflight : e \in Saves
    BY DEF TypeInv, TypeOK
  <2> QED
    BY <2>1 DEF Restart, Saves
<1>3. /\ Idle.pc \notin AtFile /\ Idle.pc \notin Rechecked /\ Idle.reply = "none"
      /\ Idle.pc \notin Batching /\ Idle.pc \notin {"b_item", "dash_lock"}
  BY DEF Idle, AtFile, Rechecked, Batching
<1>4. TokensShaped'
  BY <1>1, ShapesStay DEF ClobberInv
<1>5. RecheckHolds' /\ SavesAwaited' /\ SavesFresh'
  BY <1>1, <1>2, <1>3 DEF RecheckHolds, KeepsPlace, SavesAwaited, SavesFresh
<1> QED
  BY <1>4, <1>5 DEF ClobberInv

(* What people write is written by "outside".                              *)
LEMMA ClobberEdit ==
  ASSUME TypeInv, ClobberInv, NEW r, NEW c, OutsideEdit(r, c)
  PROVE  ClobberInv'
<1>1. /\ content' = [content EXCEPT ![r] = c]
      /\ writer' = [writer EXCEPT ![r] = "outside"]
      /\ UNCHANGED <<tokens, loop, task, inflight>>
  BY DEF OutsideEdit, Write, memory, sched
<1>2. \A s \in Resources : writer'[s] # "outside" => content'[s] = content[s] /\ writer'[s] = writer[s]
  BY <1>1 DEF TypeInv, TypeOK
<1>3. TokensShaped' /\ SavesAwaited'
  BY <1>1 DEF ClobberInv, TokensShaped, SavesAwaited, AwaitedBy, Item, Token
<1>4. RecheckHolds'
  <2>1. \A u \in Tasks : task[u].pc \in AtFile => Item(u).res \in Resources
    BY DEF ClobberInv, RecheckHolds, KeepsPlace, Resources
  <2>2. Rechecked \subseteq AtFile
    BY DEF AtFile
  <2>3. \A u \in Tasks : Item(u)' = Item(u) /\ Token(u)' = Token(u)
    BY <1>1 DEF Item, Token
  <2> QED
    BY <1>1, <1>2, <2>1, <2>2, <2>3 DEF ClobberInv, RecheckHolds, KeepsPlace
<1>5. SavesFresh'
  <2>1. \A e \in inflight : e.res \in Resources
    BY DEF TypeInv, TypeOK, Saves, Resources
  <2>2. \A e \in inflight : writer'[e.res] = "apply" => content'[e.res] = content[e.res] /\ writer[e.res] = "apply"
    BY <1>2, <2>1
  <2> QED
    BY <1>1, <2>2 DEF ClobberInv, SavesFresh
<1> QED
  BY <1>3, <1>4, <1>5 DEF ClobberInv

-----------------------------------------------------------------------------
(* What the calls do, tool by tool.                                        *)

(* A task that runs claims at most a token and goes on as c.               *)
LEMMA ActsNow ==
  ASSUME TypeInv, NEW t \in Tasks, MayRun(t), NEW c, task' = [task EXCEPT ![t] = c],
         UNCHANGED tokens \/ \E tk : ClaimToken(tk)
  PROVE  Acts(t) /\ task'[t] = c
<1>1. TokensKeep(tokens, tokens') /\ DOMAIN tokens' = DOMAIN tokens
  BY ClaimFacts, KeepRefl
<1> QED
  BY <1>1 DEF Acts, MayRun, TypeInv, TypeOK

(* The write of a file is no write of a dashboard.                         *)
LEMMA FileWritten ==
  ASSUME TypeInv, NEW r \in Files, NEW c, NEW who, NEW tk, Write(r, c, who, tk)
  PROVE  DashboardsStay
BY ContextAssumption DEF Write, DashboardsStay, TypeInv, TypeOK, Resources

(* t goes on as c and is not about to write.                               *)
LEMMA ClobberGoes ==
  ASSUME TypeInv, ClobberInv, NEW t \in Tasks, MayRun(t), DashboardsStay, UNCHANGED inflight,
         UNCHANGED tokens \/ \E tk : ClaimToken(tk),
         task[t].pc \in Waiting => task[t].reply # "none",
         NEW c, task' = [task EXCEPT ![t] = c],
         c.pc \notin Waiting \cup AtFile, c.reply = "none", InPlace(t, c)
  PROVE  ClobberInv'
<1>1. Acts(t) /\ task'[t] = c
  BY ActsNow
<1> QED
  BY <1>1, ClobberQuiet

(* A token is spent for nothing.                                           *)
LEMMA ClobberSpends ==
  ASSUME TypeInv, ClobberInv, NEW tk, ClaimToken(tk),
         UNCHANGED <<content, writer, inflight, task, loop>>
  PROVE  ClobberInv'
<1>1. TokensKeep(tokens, tokens') /\ DOMAIN tokens' = DOMAIN tokens
  BY ClaimFacts
<1>2. TokensShaped'
  BY <1>1, ShapesStay DEF ClobberInv
<1> QED
  BY <1>1, <1>2, ClobberStill

(* The tokens of the single-item tools have a first item.                  *)
LEMMA FirstItem ==
  ASSUME TypeInv, NEW tk, ClaimToken(tk),
         tokens[tk].action \in {"config_apply", "dashboard_apply", "backup_revert"}
  PROVE  tk \in DOMAIN tokens /\ 1 \in DOMAIN tokens[tk].items
         /\ tokens[tk].items[1] \in Items
<1>1. /\ tk \in DOMAIN tokens /\ tokens[tk].items \in Seq(Items)
      /\ SingleItem(tokens[tk])
  BY ClaimFacts
<1>2. Len(tokens[tk].items) = 1
  BY <1>1 DEF SingleItem
<1>3. PICK its \in Seq(Items) : its = tokens[tk].items
  BY <1>1
<1>4. its \in [1..1 -> Items] /\ DOMAIN its = 1..1
  BY <1>2, <1>3, SeqIsFun
<1> QED
  BY <1>1, <1>3, <1>4

(* What a call about to write a file is known to have.                     *)
LEMMA AtFileFacts ==
  ASSUME TypeInv, ClobberInv, NEW t \in Tasks, task[t].pc \in AtFile
  PROVE  /\ task[t].tok \in DOMAIN tokens /\ task[t].k \in DOMAIN Token(t).items
         /\ Item(t).res \in Files /\ loop = t
         /\ task[t].pc \in Rechecked /\ writer[Item(t).res] # "outside"
              => OrEmpty(content[Item(t).res]) = Item(t).old
<1>1. task[t].pc \in AtItem /\ task[t].pc \notin {"idle", "rb_claim"}
  BY DEF AtFile, Rechecked, AtItem
<1> QED
  BY <1>1, CallFacts DEF ClobberInv, RecheckHolds, KeepsPlace

(* A call that does not wait has no reply.                                 *)
LEMMA NoReplyYet ==
  ASSUME ClobberInv, NEW t \in Tasks, task[t].pc \notin Waiting
  PROVE  task[t].reply = "none"
BY DEF ClobberInv, RecheckHolds, KeepsPlace

(* A call that has ended is about to do nothing.                           *)
LEMMA IdleIsQuiet ==
  ASSUME NEW t
  PROVE  Idle.pc \notin Waiting \cup AtFile /\ Idle.reply = "none" /\ InPlace(t, Idle)
BY DEF Idle, Waiting, AtFile, Rechecked, InPlace, Batching

(* haops_config_apply.                                                     *)
LEMMA ConfigClobber ==
  ASSUME TypeInv, ClobberInv, NEW t \in Tasks,
         ConfigStep(t) \/ \E tk \in DOMAIN tokens : ConfigApply(t, tk)
  PROVE  ClobberInv'
<1>0. task[t] \in Calls
  BY CallFacts
<1>1. ASSUME NEW tk \in DOMAIN tokens, ConfigApply(t, tk)
      PROVE  ClobberInv'
  <2> DEFINE c == [Idle EXCEPT !.pc = "cfg_backup", !.tok = tk, !.txn = Len(txns) + 1, !.k = 1]
  <2>1. /\ ClaimToken(tk) /\ MayRun(t) /\ task[t].pc = "idle"
        /\ UNCHANGED <<content, writer, inflight>>
    BY <1>1 DEF ConfigApply, MayStart, MayRun, world
  <2>2. CASE UNCHANGED <<loop, task>>
    BY <2>1, <2>2, ClobberSpends
  <2>3. CASE /\ tokens[tk].action = "config_apply"
             /\ ConfigFresh(tokens[tk].items[1])
             /\ task' = [task EXCEPT ![t] = c] /\ loop' = t
    <3>1. c.pc = "cfg_backup" /\ c.tok = tk /\ c.k = 1 /\ c.reply = "none"
      BY DEF Idle
    <3> HIDE DEF c
    <3>2. Acts(t) /\ task'[t] = c
      BY <2>1, <2>3, ActsNow
    <3>3. MayWrite(c)
      BY <2>1, <2>3, <3>1, FirstItem DEF MayWrite, ConfigFresh, ClobberInv, TokensShaped
    <3>4. c.pc \notin Waiting /\ InPlace(t, c) /\ task[t].pc \notin Waiting
      BY <2>1, <3>1 DEF Waiting, InPlace, Batching
    <3> QED
      BY <2>1, <2>3, <3>1, <3>2, <3>3, <3>4, ClobberQuiet DEF DashboardsStay
  <2> HIDE DEF c
  <2> QED
    BY <1>1, <2>2, <2>3 DEF ConfigApply, c
<1>2. CASE ConfigBackup(t)
  <2> DEFINE c == [task[t] EXCEPT !.pc = "cfg_write"]
  <2>1. task[t].pc = "cfg_backup" /\ MayRun(t)
    BY <1>2 DEF ConfigBackup, At
  <2>2. /\ c.pc = "cfg_write" /\ c.tok = task[t].tok /\ c.k = task[t].k
        /\ c.reply = task[t].reply
    BY <1>0 DEF Calls
  <2>3. /\ task' = [task EXCEPT ![t] = c]
        /\ UNCHANGED <<tokens, content, writer, inflight, loop>>
    BY <1>2 DEF ConfigBackup, memory, world
  <2> HIDE DEF c
  <2>4. Acts(t) /\ task'[t] = c
    BY <2>1, <2>3, ActsNow
  <2>5. task[t].pc \in Rechecked /\ task[t].pc \notin Waiting
    BY <2>1 DEF Rechecked, Waiting
  <2>6. MayWrite(c) /\ loop = t
    BY <2>2, <2>5, AtFileFacts DEF MayWrite, AtFile, Item, Token
  <2>7. c.pc \notin Waiting /\ InPlace(t, c) /\ c.reply = "none"
    BY <2>2, <2>5, NoReplyYet DEF Waiting, InPlace, Batching
  <2> QED
    BY <2>3, <2>4, <2>5, <2>6, <2>7, ClobberQuiet DEF DashboardsStay
<1>3. CASE ConfigWrite(t)
  <2> DEFINE c == [task[t] EXCEPT !.pc = "cfg_commit"]
  <2>1. task[t].pc = "cfg_write" /\ MayRun(t)
    BY <1>3 DEF ConfigWrite, At
  <2>2. c.pc = "cfg_commit" /\ c.reply = task[t].reply
    BY <1>0 DEF Calls
  <2>3. task' = [task EXCEPT ![t] = c] /\ UNCHANGED <<tokens, inflight>>
    BY <1>3 DEF ConfigWrite, memory
  <2>4. task[t].pc \in AtFile /\ task[t].pc \notin Waiting
    BY <2>1 DEF AtFile, Rechecked, Waiting
  <2>5. DashboardsStay
    BY <1>3, <2>4, AtFileFacts, FileWritten DEF ConfigWrite
  <2>6. c.pc \notin Waiting \cup AtFile /\ InPlace(t, c) /\ c.reply = "none"
    BY <2>2, <2>4, NoReplyYet DEF Waiting, AtFile, Rechecked, InPlace, Batching
  <2> HIDE DEF c
  <2> QED
    BY <2>1, <2>3, <2>4, <2>5, <2>6, ClobberGoes
<1>4. CASE ConfigWriteFails(t) \/ ConfigCommit(t)
  <2>1. task[t].pc \notin Waiting /\ MayRun(t)
    BY <1>4 DEF ConfigWriteFails, ConfigCommit, At, Waiting
  <2>2. task' = [task EXCEPT ![t] = Idle] /\ UNCHANGED <<tokens, content, writer, inflight>>
    BY <1>4 DEF ConfigWriteFails, ConfigCommit, Finish, memory, world
  <2> QED
    BY <2>1, <2>2, IdleIsQuiet, ClobberGoes DEF DashboardsStay
<1> QED
  BY <1>1, <1>2, <1>3, <1>4 DEF ConfigStep

(* The token a call works under is no other call's.                        *)
LEMMA OwnToken ==
  ASSUME TypeInv, TokenInv, NEW t \in Tasks, task[t].pc \notin {"idle", "rb_claim"}
  PROVE  task[t].tok \in DOMAIN tokens /\ \A u \in Tasks \ {t} : task[u].tok # task[t].tok
<1>1. task[t].tok \in DOMAIN tokens /\ task[t].tok # 0
  BY CallFacts, ZeroIsNoToken
<1> QED
  BY <1>1 DEF TokenInv, TokenDrivesOneCall

(* haops_dashboard_apply.                                                  *)
LEMMA DashboardClobber ==
  ASSUME TypeInv, TokenInv, ClobberInv, NEW t \in Tasks,
         DashboardStep(t) \/ \E tk \in DOMAIN tokens : DashboardApply(t, tk)
  PROVE  ClobberInv'
<1>0. task[t] \in Calls
  BY CallFacts
<1>1. ASSUME NEW tk \in DOMAIN tokens, DashboardApply(t, tk)
      PROVE  ClobberInv'
  <2> DEFINE c == [Idle EXCEPT !.pc = "dash_lock", !.tok = tk, !.k = 1]
  <2>1. /\ ClaimToken(tk) /\ MayRun(t) /\ task[t].pc \notin Waiting
        /\ UNCHANGED <<content, writer, inflight, loop>>
        /\ (UNCHANGED task \/ task' = [task EXCEPT ![t] = c])
    BY <1>1 DEF DashboardApply, MayStart, MayRun, world, Waiting
  <2>2. c.pc = "dash_lock" /\ c.k = 1 /\ c.reply = "none"
    BY DEF Idle
  <2> HIDE DEF c
  <2>3. c.pc \notin Waiting \cup AtFile /\ InPlace(t, c)
    BY <2>2 DEF Waiting, AtFile, Rechecked, InPlace, Batching
  <2>4. DashboardsStay
    BY <2>1 DEF DashboardsStay
  <2> QED
    BY <2>1, <2>2, <2>3, <2>4, ClobberSpends, ClobberGoes
<1>2. CASE DashboardRecheck(t)
  <2> DEFINE c == [task[t] EXCEPT !.pc = "dash_wait", !.txn = Len(txns) + 1]
  <2>1. task[t].pc = "dash_lock" /\ MayRun(t)
    BY <1>2 DEF DashboardRecheck, At
  <2>2. /\ c.pc = "dash_wait" /\ c.tok = task[t].tok /\ c.k = task[t].k
        /\ c.reply = task[t].reply
    BY <1>0 DEF Calls
  <2>3. /\ task' = [task EXCEPT ![t] = c] /\ UNCHANGED <<tokens, content, writer>>
        /\ \E got \in Readings(Item(t).res) :
             /\ NotDrifted(got, Item(t).old)
             /\ Send(task[t].tok, 1, "do", Item(t).res, Item(t).new, got # None)
    BY <1>2 DEF DashboardRecheck
  <2> HIDE DEF c
  <2>4. Acts(t) /\ task'[t] = c
    BY <2>1, <2>3, ActsNow
  <2>5. /\ task[t].pc \notin Waiting /\ c.pc \in Waiting /\ c.pc \in Holding
        /\ InPlace(t, c)
    BY <2>1, <2>2 DEF Waiting, Holding, InPlace, Batching
  <2>6. c.reply = "none" /\ c.k = 1
    BY <2>1, <2>2, <2>5, NoReplyYet DEF ClobberInv, RecheckHolds, KeepsPlace
  <2>7. c.tok \in DOMAIN tokens /\ \A u \in Tasks \ {t} : task[u].tok # c.tok
    BY <2>1, <2>2, OwnToken
  <2>8. Item(t) = tokens[c.tok].items[1]
    BY <2>2, <2>6 DEF Item, Token
  <2>9. PICK got \in Readings(Item(t).res) :
          /\ NotDrifted(got, Item(t).old)
          /\ Send(c.tok, 1, "do", Item(t).res, Item(t).new, got # None)
    BY <2>2, <2>3
  <2>10. got # None => content[Item(t).res] = tokens[c.tok].items[1].old
    BY <2>8, <2>9 DEF Readings, NotDrifted
  <2> QED
    BY <2>3, <2>4, <2>5, <2>6, <2>7, <2>8, <2>9, <2>10, ClobberSend
<1>3. CASE DashboardRefuse(t)
  <2>1. task[t].pc \notin Waiting /\ MayRun(t)
    BY <1>3 DEF DashboardRefuse, At, Waiting
  <2>2. task' = [task EXCEPT ![t] = Idle] /\ UNCHANGED <<tokens, content, writer, inflight>>
    BY <1>3 DEF DashboardRefuse, Finish, memory, world
  <2> QED
    BY <2>1, <2>2, IdleIsQuiet, ClobberGoes DEF DashboardsStay
<1>4. CASE DashboardSaved(t) \/ DashboardSaveFails(t)
  <2>1. task[t].reply # "none" /\ MayRun(t)
    BY <1>4 DEF DashboardSaved, DashboardSaveFails, At
  <2>2. task' = [task EXCEPT ![t] = Idle] /\ UNCHANGED <<tokens, content, writer, inflight>>
    BY <1>4 DEF DashboardSaved, DashboardSaveFails, Finish, memory, world
  <2> QED
    BY <2>1, <2>2, IdleIsQuiet, ClobberGoes DEF DashboardsStay
<1> QED
  BY <1>1, <1>2, <1>3, <1>4 DEF DashboardStep

(* A rollback goes on restoring.                                           *)
UndoingOn(t, c) == c.pc = "rb_undo" /\ c.reply = "none" /\ task[t].pc \notin Waiting

(* A rollback between two savepoints is about to do nothing else.          *)
LEMMA UndoingIsQuiet ==
  ASSUME NEW t, NEW c, UndoingOn(t, c)
  PROVE  /\ c.pc \notin Waiting \cup AtFile /\ c.reply = "none" /\ InPlace(t, c)
         /\ task[t].pc \notin Waiting
BY DEF UndoingOn, Waiting, AtFile, Rechecked, InPlace, Batching

(* haops_rollback saves under the token of the rollback and unchecked.     *)
LEMMA RollbackClobber ==
  ASSUME TypeInv, TokenInv, ClobberInv, NEW t \in Tasks,
         RollbackStep(t) \/ \E x \in DOMAIN txns : RollbackEnter(t, x)
  PROVE  ClobberInv'
<1>0. task[t] \in Calls
  BY CallFacts
<1>1. ASSUME NEW x \in DOMAIN txns, RollbackEnter(t, x)
      PROVE  ClobberInv'
  <2> DEFINE c == [Idle EXCEPT !.pc = "rb_claim", !.txn = x]
  <2>1. /\ MayRun(t) /\ task[t].pc \notin Waiting
        /\ UNCHANGED <<tokens, content, writer, inflight>>
        /\ task' = [task EXCEPT ![t] = c]
    BY <1>1 DEF RollbackEnter, MayStart, MayRun, memory, world, Waiting
  <2>2. c.pc = "rb_claim" /\ c.reply = "none"
    BY DEF Idle
  <2> HIDE DEF c
  <2>3. c.pc \notin Waiting \cup AtFile /\ InPlace(t, c)
    BY <2>2 DEF Waiting, AtFile, Rechecked, InPlace, Batching
  <2> QED
    BY <2>1, <2>2, <2>3, ClobberGoes DEF DashboardsStay
<1>2. ASSUME NEW tk \in DOMAIN tokens, RollbackClaim(t, tk)
      PROVE  ClobberInv'
  <2> DEFINE n == IF ActiveSavepoints(task[t].txn) = {} THEN 0
                  ELSE Len(txns[task[t].txn].saves)
             c == [task[t] EXCEPT !.pc = "rb_undo", !.tok = tk, !.k = n, !.n = n]
  <2>1. /\ ClaimToken(tk) /\ MayRun(t) /\ task[t].pc \notin Waiting
        /\ UNCHANGED <<content, writer, inflight>> /\ task' = [task EXCEPT ![t] = c]
    BY <1>2 DEF RollbackClaim, At, world, Waiting
  <2>2. c.pc = "rb_undo" /\ c.reply = task[t].reply
    <3> HIDE DEF n
    <3> QED
      BY <1>0 DEF Calls
  <2> HIDE DEF c
  <2>3. c.pc \notin Waiting \cup AtFile /\ InPlace(t, c) /\ c.reply = "none"
    BY <2>1, <2>2, NoReplyYet DEF Waiting, AtFile, Rechecked, InPlace, Batching
  <2> QED
    BY <2>1, <2>3, ClobberGoes DEF DashboardsStay
<1>3. ASSUME NEW tk \in DOMAIN tokens, RollbackMismatch(t, tk)
      PROVE  ClobberInv'
  <2>1. /\ ClaimToken(tk) /\ MayRun(t) /\ task[t].pc \notin Waiting
        /\ UNCHANGED <<content, writer, inflight>> /\ task' = [task EXCEPT ![t] = Idle]
    BY <1>3 DEF RollbackMismatch, At, Finish, world, Waiting
  <2> QED
    BY <2>1, IdleIsQuiet, ClobberGoes DEF DashboardsStay
<1>4. CASE RollbackRefuse(t) \/ RollbackCrashes(t) \/ RollbackEnd(t)
  <2>1. task[t].pc \notin Waiting /\ MayRun(t)
    BY <1>4 DEF RollbackRefuse, RollbackCrashes, RollbackEnd, At, Waiting
  <2>2. task' = [task EXCEPT ![t] = Idle] /\ UNCHANGED <<tokens, content, writer, inflight>>
    BY <1>4 DEF RollbackRefuse, RollbackCrashes, RollbackEnd, Finish, memory, world
  <2> QED
    BY <2>1, <2>2, IdleIsQuiet, ClobberGoes DEF DashboardsStay
<1>5. CASE RollbackFile(t)
  <2> DEFINE c == [task[t] EXCEPT !.k = @ - 1]
  <2>1. /\ task[t].pc = "rb_undo" /\ MayRun(t)
        /\ task' = [task EXCEPT ![t] = c] /\ UNCHANGED <<tokens, inflight>>
    BY <1>5 DEF RollbackFile, At, memory
  <2>2. c.pc = task[t].pc /\ c.reply = task[t].reply
    BY <1>0 DEF Calls
  <2> HIDE DEF c
  <2>3. DashboardsStay
    BY <1>5, FileWritten DEF RollbackFile
  <2>4. UndoingOn(t, c)
    BY <2>1, <2>2, NoReplyYet DEF UndoingOn, Waiting
  <2> QED
    BY <2>1, <2>3, <2>4, UndoingIsQuiet, ClobberGoes
<1>6. CASE RollbackFileFails(t)
  <2> DEFINE c == [task[t] EXCEPT !.k = @ - 1, !.dirty = TRUE]
  <2>1. /\ task[t].pc = "rb_undo" /\ MayRun(t) /\ UNCHANGED <<content, writer>>
        /\ task' = [task EXCEPT ![t] = c] /\ UNCHANGED <<tokens, inflight>>
    BY <1>6 DEF RollbackFileFails, At, memory, world
  <2>2. c.pc = task[t].pc /\ c.reply = task[t].reply
    BY <1>0 DEF Calls
  <2> HIDE DEF c
  <2>3. DashboardsStay
    BY <2>1 DEF DashboardsStay
  <2>4. UndoingOn(t, c)
    BY <2>1, <2>2, NoReplyYet DEF UndoingOn, Waiting
  <2> QED
    BY <2>1, <2>3, <2>4, UndoingIsQuiet, ClobberGoes
<1>7. CASE RollbackDashboard(t)
  <2> DEFINE c == [task[t] EXCEPT !.pc = "rb_wait"]
  <2>1. /\ task[t].pc = "rb_undo" /\ MayRun(t) /\ UNCHANGED <<content, writer, tokens>>
        /\ task' = [task EXCEPT ![t] = c]
        /\ Send(task[t].tok, task[t].k, "undo", Undoing(t).res, Undoing(t).content, FALSE)
    BY <1>7 DEF RollbackDashboard, At, memory
  <2>2. c.pc = "rb_wait" /\ c.reply = task[t].reply /\ c.tok = task[t].tok
    BY <1>0 DEF Calls
  <2> HIDE DEF c
  <2>3. Acts(t) /\ task'[t] = c
    BY <2>1, ActsNow
  <2>4. /\ task[t].pc \notin Waiting /\ c.pc \in Waiting /\ InPlace(t, c)
        /\ c.reply = "none"
    BY <2>1, <2>2, NoReplyYet DEF Waiting, InPlace, Batching
  <2>5. c.tok \in DOMAIN tokens /\ \A u \in Tasks \ {t} : task[u].tok # c.tok
    BY <2>1, <2>2, OwnToken
  <2> QED
    BY <2>1, <2>2, <2>3, <2>4, <2>5, ClobberSend
<1>8. CASE RollbackAnswered(t)
  <2> DEFINE failed == task[t].dirty \/ task[t].reply = "err"
             c == [task[t] EXCEPT !.pc = "rb_undo", !.k = @ - 1, !.reply = "none",
                                  !.dirty = failed]
  <2>1. /\ task[t].reply # "none" /\ MayRun(t) /\ UNCHANGED <<content, writer>>
        /\ task' = [task EXCEPT ![t] = c] /\ UNCHANGED <<tokens, inflight>>
    BY <1>8 DEF RollbackAnswered, At, memory, world
  <2>2. c.pc = "rb_undo" /\ c.reply = "none"
    <3> HIDE DEF failed
    <3> QED
      BY <1>0 DEF Calls
  <2> HIDE DEF c
  <2>3. c.pc \notin Waiting \cup AtFile /\ InPlace(t, c)
    BY <2>2 DEF Waiting, AtFile, Rechecked, InPlace, Batching
  <2> QED
    BY <2>1, <2>2, <2>3, ClobberGoes DEF DashboardsStay
<1> QED
  BY <1>1, <1>2, <1>3, <1>4, <1>5, <1>6, <1>7, <1>8 DEF RollbackStep

(* A token that can be claimed is nobody's.                                *)
LEMMA LiveIsNobodys ==
  ASSUME TypeInv, TokenInv, NEW tk, ClaimToken(tk)
  PROVE  tk \in DOMAIN tokens /\ \A u \in Tasks : task[u].tok # tk
<1>1. tk \in DOMAIN tokens /\ tokens[tk].state = "live" /\ tk # 0
  BY ClaimSpends, ZeroIsNoToken
<1> QED
  BY <1>1 DEF TokenInv, SpentTokens

(* haops_backup_revert looks at nothing, and its saves are unchecked.      *)
LEMMA RevertClobber ==
  ASSUME TypeInv, TokenInv, ClobberInv, NEW t \in Tasks,
         \/ RevertStep(t)
         \/ \E tk \in DOMAIN tokens, b \in DOMAIN backups :
               RevertConfirm(t, tk, b) \/ RevertMismatch(t, tk, b)
  PROVE  ClobberInv'
<1>0. task[t] \in Calls
  BY CallFacts
<1>1. ASSUME NEW tk \in DOMAIN tokens, NEW b, RevertConfirm(t, tk, b)
      PROVE  ClobberInv'
  <2> DEFINE c(pc) == [Idle EXCEPT !.pc = pc, !.tok = tk, !.txn = Len(txns) + 1, !.k = 1]
             it == tokens[tk].items[1]
  <2>1. /\ ClaimToken(tk) /\ MayRun(t) /\ task[t].pc \notin Waiting
        /\ tokens[tk].action = "backup_revert" /\ UNCHANGED <<content, writer>>
        /\ \/ /\ it.res \in Files /\ task' = [task EXCEPT ![t] = c("rv_write")]
              /\ loop' = t /\ UNCHANGED inflight
           \/ /\ task' = [task EXCEPT ![t] = c("rv_wait")]
              /\ Send(tk, 1, "do", it.res, it.new, FALSE)
    BY <1>1 DEF RevertConfirm, MayStart, MayRun, Waiting
  <2>2. \A pc : c(pc).pc = pc /\ c(pc).tok = tk /\ c(pc).k = 1 /\ c(pc).reply = "none"
    BY DEF Idle
  <2> HIDE DEF c
  <2>3. 1 \in DOMAIN tokens[tk].items /\ tk \in DOMAIN tokens
        /\ \A u \in Tasks : task[u].tok # tk
    BY <2>1, FirstItem, LiveIsNobodys
  <2>4. ASSUME it.res \in Files, task' = [task EXCEPT ![t] = c("rv_write")],
               loop' = t, UNCHANGED inflight
        PROVE  ClobberInv'
    <3>1. Acts(t) /\ task'[t] = c("rv_write")
      BY <2>1, <2>4, ActsNow
    <3>2. MayWrite(c("rv_write"))
      BY <2>2, <2>3, <2>4 DEF MayWrite, Rechecked
    <3>3. c("rv_write").pc \notin Waiting /\ InPlace(t, c("rv_write"))
      BY <2>2 DEF Waiting, InPlace, Batching
    <3> QED
      BY <2>1, <2>2, <2>4, <3>1, <3>2, <3>3, ClobberQuiet DEF DashboardsStay
  <2>5. ASSUME task' = [task EXCEPT ![t] = c("rv_wait")],
               Send(tk, 1, "do", it.res, it.new, FALSE)
        PROVE  ClobberInv'
    <3>1. Acts(t) /\ task'[t] = c("rv_wait")
      BY <2>1, <2>5, ActsNow
    <3>2. c("rv_wait").pc \in Waiting /\ InPlace(t, c("rv_wait"))
      BY <2>2 DEF Waiting, InPlace, Batching
    <3>3. PICK d : d = c("rv_wait")
      OBVIOUS
    <3>4. /\ d.tok = tk /\ d.reply = "none" /\ Send(d.tok, 1, "do", it.res, it.new, FALSE)
          /\ tokens[d.tok].action = "backup_revert"
      BY <2>1, <2>2, <2>5, <3>3
    <3> QED
      BY <2>1, <2>3, <3>1, <3>2, <3>3, <3>4, ClobberSend
  <2> QED
    BY <2>1, <2>4, <2>5
<1>2. ASSUME NEW tk \in DOMAIN tokens, NEW b, RevertMismatch(t, tk, b)
      PROVE  ClobberInv'
  <2>1. ClaimToken(tk) /\ UNCHANGED <<content, writer, inflight, task, loop>>
    BY <1>2 DEF RevertMismatch, sched, world
  <2> QED
    BY <2>1, ClobberSpends
<1>3. CASE RevertWrite(t)
  <2> DEFINE c == [task[t] EXCEPT !.pc = "rv_commit"]
  <2>1. /\ task[t].pc = "rv_write" /\ MayRun(t)
        /\ task' = [task EXCEPT ![t] = c] /\ UNCHANGED <<tokens, inflight>>
    BY <1>3 DEF RevertWrite, At, memory
  <2>2. c.pc = "rv_commit" /\ c.reply = task[t].reply
    BY <1>0 DEF Calls
  <2>3. task[t].pc \in AtFile /\ task[t].pc \notin Waiting
    BY <2>1 DEF AtFile, Waiting
  <2>4. DashboardsStay
    BY <1>3, <2>3, AtFileFacts, FileWritten DEF RevertWrite
  <2>5. c.pc \notin Waiting \cup AtFile /\ InPlace(t, c) /\ c.reply = "none"
    BY <2>2, <2>3, NoReplyYet DEF Waiting, AtFile, Rechecked, InPlace, Batching
  <2> HIDE DEF c
  <2> QED
    BY <2>1, <2>3, <2>4, <2>5, ClobberGoes
<1>4. CASE RevertCommit(t) \/ RevertFails(t)
  <2>1. (task[t].pc \in Waiting => task[t].reply # "none") /\ MayRun(t)
    BY <1>4 DEF RevertCommit, RevertFails, At, Waiting
  <2>2. task' = [task EXCEPT ![t] = Idle] /\ UNCHANGED <<tokens, content, writer, inflight>>
    BY <1>4 DEF RevertCommit, RevertFails, Finish, memory, world
  <2> QED
    BY <2>1, <2>2, IdleIsQuiet, ClobberGoes DEF DashboardsStay
<1> QED
  BY <1>1, <1>2, <1>3, <1>4 DEF RevertStep

(* A batch goes on with the next item, or with restoring one.              *)
BatchOn(t, c) ==
  /\ c.pc \in {"b_item", "b_lock", "b_undo"} /\ c.reply = "none" /\ c.tok = task[t].tok
  /\ c.pc = "b_item" => loop' = t

(* A batch between two items is about to do nothing else.                  *)
LEMMA BatchIsQuiet ==
  ASSUME TypeInv, ClobberInv, NEW t \in Tasks, task[t].pc \in Batching, NEW c, BatchOn(t, c)
  PROVE  c.pc \notin Waiting \cup AtFile /\ c.reply = "none" /\ InPlace(t, c)
<1>1. task[t].tok \in DOMAIN tokens /\ Token(t).action = "batch_apply"
  BY CallFacts DEF Batching, ClobberInv, RecheckHolds, KeepsPlace
<1> QED
  BY <1>1 DEF BatchOn, Waiting, AtFile, Rechecked, InPlace, Batching, Token

(* haops_batch_apply.                                                      *)
LEMMA BatchClobber ==
  ASSUME TypeInv, TokenInv, ClobberInv, NEW t \in Tasks,
         BatchStep(t) \/ \E tk \in DOMAIN tokens : BatchApply(t, tk)
  PROVE  ClobberInv'
<1>0. task[t] \in Calls
  BY CallFacts
<1>1. ASSUME NEW tk \in DOMAIN tokens, BatchApply(t, tk)
      PROVE  ClobberInv'
  <2> DEFINE c == [Idle EXCEPT !.pc = "b_item", !.tok = tk, !.txn = Len(txns) + 1, !.k = 1]
  <2>1. /\ ClaimToken(tk) /\ MayRun(t) /\ task[t].pc \notin Waiting
        /\ UNCHANGED <<content, writer, inflight>>
        /\ \/ UNCHANGED <<loop, task>>
           \/ /\ tokens[tk].action = "batch_apply" /\ loop' = t
              /\ task' = [task EXCEPT ![t] = c]
    BY <1>1 DEF BatchApply, MayStart, MayRun, world, Waiting
  <2>2. c.pc = "b_item" /\ c.reply = "none" /\ c.tok = tk
    BY DEF Idle
  <2> HIDE DEF c
  <2>3. /\ c.pc \notin Waiting \cup AtFile
        /\ tokens[tk].action = "batch_apply" /\ loop' = t => InPlace(t, c)
    BY <2>2 DEF Waiting, AtFile, Rechecked, InPlace, Batching
  <2> QED
    BY <2>1, <2>2, <2>3, ClobberSpends, ClobberGoes DEF DashboardsStay
<1>2. CASE BatchWrite(t)
  <2> DEFINE c == [task[t] EXCEPT !.pc = "b_item", !.k = @ + 1]
  <2>1. /\ task[t].pc = "b_write" /\ MayRun(t)
        /\ task' = [task EXCEPT ![t] = c] /\ UNCHANGED <<tokens, inflight, loop>>
    BY <1>2 DEF BatchWrite, At
  <2>2. c.pc = "b_item" /\ c.reply = task[t].reply /\ c.tok = task[t].tok
    BY <1>0 DEF Calls
  <2>3. task[t].pc \in AtFile /\ task[t].pc \notin Waiting /\ task[t].pc \in Batching
    BY <2>1 DEF AtFile, Rechecked, Waiting, Batching
  <2>4. DashboardsStay
    BY <1>2, <2>3, AtFileFacts, FileWritten DEF BatchWrite
  <2>5. BatchOn(t, c)
    BY <2>1, <2>2, <2>3, NoReplyYet, AtFileFacts DEF BatchOn
  <2> HIDE DEF c
  <2> QED
    BY <2>1, <2>3, <2>4, <2>5, BatchIsQuiet, ClobberGoes
<1>3. CASE BatchDashboard(t)
  <2> DEFINE c == [task[t] EXCEPT !.pc = "b_lock"]
  <2>1. /\ task[t].pc = "b_item" /\ MayRun(t) /\ UNCHANGED <<content, writer>>
        /\ task' = [task EXCEPT ![t] = c] /\ UNCHANGED <<tokens, inflight>>
    BY <1>3 DEF BatchDashboard, At, memory, world
  <2>2. c.pc = "b_lock" /\ c.reply = task[t].reply /\ c.tok = task[t].tok
    BY <1>0 DEF Calls
  <2>3. task[t].pc \notin Waiting /\ task[t].pc \in Batching
    BY <2>1 DEF Waiting, Batching
  <2>4. BatchOn(t, c)
    BY <2>2, <2>3, NoReplyYet DEF BatchOn
  <2> HIDE DEF c
  <2> QED
    BY <2>1, <2>3, <2>4, BatchIsQuiet, ClobberGoes DEF DashboardsStay
<1>4. CASE BatchFile(t)
  <2> DEFINE b == IF BackupOnWrite /\ ~Item(t).create THEN Len(backups) + 1 ELSE 0
             bs == Append(task[t].baks, b)
             c == [task[t] EXCEPT !.pc = "b_write", !.baks = bs]
  <2>1. /\ task[t].pc = "b_item" /\ MayRun(t) /\ MoreItems(t)
        /\ Item(t).res \in Files /\ BatchFresh(Item(t))
        /\ task' = [task EXCEPT ![t] = c]
        /\ UNCHANGED <<tokens, content, writer, inflight, loop>>
    BY <1>4 DEF BatchFile, At, memory, world
  <2>2. /\ c.pc = "b_write" /\ c.reply = task[t].reply
        /\ c.tok = task[t].tok /\ c.k = task[t].k
    <3> HIDE DEF bs
    <3> QED
      BY <1>0 DEF Calls
  <2> HIDE DEF c
  <2>3. task[t].pc \notin Waiting /\ task[t].pc \in Batching
    BY <2>1 DEF Waiting, Batching
  <2>4. /\ task[t].tok \in DOMAIN tokens /\ Token(t) \in Tokens
        /\ Token(t).action = "batch_apply" /\ task[t].k \in DOMAIN Token(t).items
    BY <2>1, <2>3, CallFacts DEF ClobberInv, RecheckHolds, KeepsPlace, MoreItems
  <2>5. OrEmpty(content[Item(t).res]) = Item(t).old
    <3>1. Item(t).create => Item(t).old = Empty
      BY <2>4 DEF ClobberInv, TokensShaped, Item, Token
    <3>2. Item(t).old # Absent
      <4>1. PICK its : its = Token(t).items
        OBVIOUS
      <4>2. its \in Seq(Items)
        BY <2>4, <4>1 DEF Tokens
      <4>3. its[task[t].k] \in Items
        BY <2>4, <4>1, <4>2, SeqIsFun
      <4> QED
        BY <4>1, <4>3, ContextAssumption DEF Items, Item
    <3> QED
      BY <2>1, <3>1, <3>2 DEF BatchFresh, OrEmpty
  <2>6. MayWrite(c)
    BY <2>1, <2>2, <2>4, <2>5 DEF MayWrite, Item, Token
  <2>7. loop \in {None, t} /\ Acts(t) /\ task'[t] = c
    BY <2>1, ActsNow DEF MayRun
  <2>8. loop = t
    BY <2>1 DEF ClobberInv, RecheckHolds, KeepsPlace
  <2>9. c.pc \notin Waiting /\ c.reply = "none" /\ InPlace(t, c)
    BY <2>2, <2>3, <2>4, NoReplyYet DEF Waiting, InPlace, Batching, Token
  <2> QED
    BY <2>1, <2>3, <2>6, <2>7, <2>8, <2>9, ClobberQuiet DEF DashboardsStay
<1>5. CASE BatchRecheck(t)
  <2> DEFINE b == IF BackupOnWrite /\ Item(t).old # Empty THEN Len(backups) + 1 ELSE 0
             bs == Append(task[t].baks, b)
             c == [task[t] EXCEPT !.pc = "b_wait", !.baks = bs]
  <2>1. /\ task[t].pc = "b_lock" /\ MayRun(t) /\ task' = [task EXCEPT ![t] = c]
        /\ UNCHANGED <<tokens, content, writer>>
        /\ \E got \in Readings(Item(t).res) :
             /\ NotDrifted(got, Item(t).old)
             /\ Send(task[t].tok, task[t].k, "do", Item(t).res, Item(t).new, got # None)
    BY <1>5 DEF BatchRecheck, At, memory
  <2>2. /\ c.pc = "b_wait" /\ c.tok = task[t].tok /\ c.k = task[t].k
        /\ c.reply = task[t].reply
    <3> HIDE DEF bs
    <3> QED
      BY <1>0 DEF Calls
  <2> HIDE DEF c
  <2>3. Acts(t) /\ task'[t] = c
    BY <2>1, ActsNow
  <2>4. /\ task[t].pc \notin Waiting /\ task[t].pc \in Batching
        /\ c.pc \in Waiting /\ c.pc \in Holding /\ c.pc \notin {"b_item", "dash_lock"}
    BY <2>1, <2>2 DEF Waiting, Holding, Batching
  <2>5. c.reply = "none"
    BY <2>2, <2>4, NoReplyYet
  <2>6. c.tok \in DOMAIN tokens /\ \A u \in Tasks \ {t} : task[u].tok # c.tok
    BY <2>1, <2>2, OwnToken
  <2>7. InPlace(t, c)
    BY <2>2, <2>4, <2>6 DEF InPlace, ClobberInv, RecheckHolds, KeepsPlace, Token
  <2>8. Item(t) = tokens[c.tok].items[c.k]
    BY <2>2 DEF Item, Token
  <2>9. PICK got \in Readings(Item(t).res) :
          /\ NotDrifted(got, Item(t).old)
          /\ Send(c.tok, c.k, "do", Item(t).res, Item(t).new, got # None)
    BY <2>1, <2>2
  <2>10. got # None => content[Item(t).res] = tokens[c.tok].items[c.k].old
    BY <2>8, <2>9 DEF Readings, NotDrifted
  <2> QED
    BY <2>1, <2>3, <2>4, <2>5, <2>6, <2>7, <2>8, <2>9, <2>10, ClobberSend
<1>6. CASE BatchFileFails(t) \/ BatchRefuse(t) \/ BatchSaveFails(t)
  <2> DEFINE c == [task[t] EXCEPT !.pc = "b_undo", !.reply = "none", !.k = @ - 1,
                                  !.n = task[t].k - 1]
  <2>1. /\ task' = [task EXCEPT ![t] = c] /\ MayRun(t)
        /\ UNCHANGED <<tokens, content, writer, inflight>>
        /\ task[t].pc \in {"b_item", "b_write", "b_lock", "b_wait"}
        /\ task[t].pc = "b_wait" => task[t].reply # "none"
    BY <1>6 DEF BatchFileFails, BatchRefuse, BatchSaveFails, Abort, At, memory, world
  <2>2. c.pc = "b_undo" /\ c.reply = "none" /\ c.tok = task[t].tok
    BY <1>0 DEF Calls
  <2> HIDE DEF c
  <2>3. task[t].pc \in Batching /\ (task[t].pc \in Waiting => task[t].reply # "none")
    BY <2>1 DEF Batching, Waiting
  <2>4. BatchOn(t, c)
    BY <2>2 DEF BatchOn
  <2> QED
    BY <2>1, <2>3, <2>4, BatchIsQuiet, ClobberGoes DEF DashboardsStay
<1>7. CASE BatchSaved(t)
  <2> DEFINE c == [task[t] EXCEPT !.pc = "b_item", !.k = @ + 1, !.reply = "none"]
  <2>1. /\ task' = [task EXCEPT ![t] = c] /\ MayRun(t) /\ loop' = t
        /\ UNCHANGED <<tokens, content, writer, inflight>>
        /\ task[t].pc = "b_wait" /\ task[t].reply = "ok"
    BY <1>7 DEF BatchSaved, At, world
  <2>2. c.pc = "b_item" /\ c.reply = "none" /\ c.tok = task[t].tok
    BY <1>0 DEF Calls
  <2> HIDE DEF c
  <2>3. task[t].pc \in Batching
    BY <2>1 DEF Batching
  <2>4. BatchOn(t, c)
    BY <2>1, <2>2 DEF BatchOn
  <2> QED
    BY <2>1, <2>3, <2>4, BatchIsQuiet, ClobberGoes DEF DashboardsStay
<1>8. CASE BatchUndoFile(t)
  <2> DEFINE c == [task[t] EXCEPT !.k = @ - 1]
  <2>1. /\ task' = [task EXCEPT ![t] = c] /\ MayRun(t) /\ UNCHANGED <<tokens, inflight>>
        /\ task[t].pc = "b_undo"
    BY <1>8 DEF BatchUndoFile, At, memory
  <2>2. c.pc = task[t].pc /\ c.reply = task[t].reply /\ c.tok = task[t].tok
    BY <1>0 DEF Calls
  <2> HIDE DEF c
  <2>3. task[t].pc \in Batching /\ task[t].pc \notin Waiting
    BY <2>1 DEF Batching, Waiting
  <2>4. DashboardsStay
    BY <1>8, FileWritten DEF BatchUndoFile
  <2>5. BatchOn(t, c)
    BY <2>1, <2>2, <2>3, NoReplyYet DEF BatchOn
  <2> QED
    BY <2>1, <2>3, <2>4, <2>5, BatchIsQuiet, ClobberGoes
<1>9. CASE BatchUndoFileFails(t)
  <2> DEFINE c == [task[t] EXCEPT !.k = @ - 1, !.dirty = TRUE]
  <2>1. /\ task' = [task EXCEPT ![t] = c] /\ MayRun(t)
        /\ UNCHANGED <<tokens, content, writer, inflight>>
        /\ task[t].pc = "b_undo"
    BY <1>9 DEF BatchUndoFileFails, At, memory, world
  <2>2. c.pc = task[t].pc /\ c.reply = task[t].reply /\ c.tok = task[t].tok
    BY <1>0 DEF Calls
  <2> HIDE DEF c
  <2>3. task[t].pc \in Batching /\ task[t].pc \notin Waiting
    BY <2>1 DEF Batching, Waiting
  <2>4. BatchOn(t, c)
    BY <2>1, <2>2, <2>3, NoReplyYet DEF BatchOn
  <2> QED
    BY <2>1, <2>3, <2>4, BatchIsQuiet, ClobberGoes DEF DashboardsStay
<1>10. CASE BatchUndoDashboard(t)
  <2> DEFINE c == [task[t] EXCEPT !.pc = "b_uwait"]
  <2>1. /\ task[t].pc = "b_undo" /\ MayRun(t) /\ UNCHANGED <<content, writer, tokens>>
        /\ task' = [task EXCEPT ![t] = c]
        /\ Send(task[t].tok, task[t].k, "undo", Item(t).res, Item(t).old, FALSE)
    BY <1>10 DEF BatchUndoDashboard, At, memory
  <2>2. c.pc = "b_uwait" /\ c.reply = task[t].reply /\ c.tok = task[t].tok
    BY <1>0 DEF Calls
  <2> HIDE DEF c
  <2>3. Acts(t) /\ task'[t] = c
    BY <2>1, ActsNow
  <2>4. /\ task[t].pc \notin Waiting /\ task[t].pc \in Batching
        /\ c.pc \in Waiting /\ c.pc \notin {"b_item", "dash_lock"}
    BY <2>1, <2>2 DEF Waiting, Batching
  <2>5. c.tok \in DOMAIN tokens /\ \A u \in Tasks \ {t} : task[u].tok # c.tok
    BY <2>1, <2>2, OwnToken
  <2>6. InPlace(t, c) /\ c.reply = "none"
    BY <2>2, <2>4, <2>5, NoReplyYet DEF InPlace, ClobberInv, RecheckHolds, KeepsPlace, Token
  <2> QED
    BY <2>1, <2>2, <2>3, <2>4, <2>5, <2>6, ClobberSend
<1>11. CASE BatchUndone(t)
  <2> DEFINE failed == task[t].dirty \/ task[t].reply = "err"
             c == [task[t] EXCEPT !.pc = "b_undo", !.k = @ - 1, !.reply = "none",
                                  !.dirty = failed]
  <2>1. /\ task' = [task EXCEPT ![t] = c] /\ MayRun(t)
        /\ UNCHANGED <<tokens, content, writer, inflight>>
        /\ task[t].pc = "b_uwait" /\ task[t].reply # "none"
    BY <1>11 DEF BatchUndone, At, memory, world
  <2>2. c.pc = "b_undo" /\ c.reply = "none" /\ c.tok = task[t].tok
    <3> HIDE DEF failed
    <3> QED
      BY <1>0 DEF Calls
  <2> HIDE DEF c
  <2>3. task[t].pc \in Batching
    BY <2>1 DEF Batching
  <2>4. BatchOn(t, c)
    BY <2>2 DEF BatchOn
  <2> QED
    BY <2>1, <2>3, <2>4, BatchIsQuiet, ClobberGoes DEF DashboardsStay
<1>12. CASE BatchUndoCrashes(t) \/ BatchCommit(t) \/ BatchFailed(t)
  <2>1. task[t].pc \notin Waiting /\ MayRun(t)
    BY <1>12 DEF BatchUndoCrashes, BatchCommit, BatchFailed, At, Waiting
  <2>2. task' = [task EXCEPT ![t] = Idle] /\ UNCHANGED <<tokens, content, writer, inflight>>
    BY <1>12 DEF BatchUndoCrashes, BatchCommit, BatchFailed, Finish, memory, world
  <2> QED
    BY <2>1, <2>2, IdleIsQuiet, ClobberGoes DEF DashboardsStay
<1> QED
  BY <1>1, <1>2, <1>3, <1>4, <1>5, <1>6, <1>7, <1>8, <1>9, <1>10, <1>11, <1>12 DEF BatchStep

-----------------------------------------------------------------------------
(* Previews only add a token.                                              *)

Shaped(act, items) ==
  \A k \in DOMAIN items :
    /\ act = "config_apply" => items[k].res \in Files
    /\ act = "batch_apply" /\ items[k].create => items[k].old = Empty

(* A token of the right shape is issued.                                   *)
LEMMA ClobberIssue ==
  ASSUME TypeInv, ClobberInv, NEW act, NEW items, NEW x, CreateToken(act, items, x),
         Shaped(act, items), UNCHANGED <<content, writer, inflight, task, loop>>
  PROVE  ClobberInv'
<1> DEFINE new == [action |-> act, items |-> items, txn |-> x, state |-> "live"]
           S   == Tokens \cup {new}
<1>1. tokens \in Seq(S)
  <2>1. tokens \in [1..Len(tokens) -> Tokens] /\ Len(tokens) \in Nat
    BY SeqIsFun DEF TypeInv, TypeOK
  <2>2. tokens \in [1..Len(tokens) -> S]
    BY <2>1
  <2> HIDE DEF S
  <2> QED
    BY <2>1, <2>2, FunIsSeq
<1>2. tokens' = Append(tokens, new) /\ new \in S
  BY DEF CreateToken
<1>3. new.action = act /\ new.items = items
  OBVIOUS
<1> HIDE DEF S, new
<1>4. /\ DOMAIN tokens' = DOMAIN tokens \cup {Len(tokens) + 1}
      /\ \A i \in DOMAIN tokens : tokens'[i] = tokens[i]
      /\ tokens'[Len(tokens) + 1] = new
  BY <1>1, <1>2, SeqAppend
<1>5. TokensShaped'
  BY <1>3, <1>4 DEF ClobberInv, TokensShaped, Shaped
<1>6. TokensKeep(tokens, tokens')
  BY IssueKeeps
<1> QED
  BY <1>5, <1>6, ClobberStill

(* No preview disturbs what is under way.                                  *)
LEMMA ClobberPreview == ASSUME TypeInv, ClobberInv, Preview PROVE ClobberInv'
<1> DEFINE Rest == UNCHANGED <<txns, durable, sched, world>>
<1>0. Rest => UNCHANGED <<content, writer, inflight, task, loop>>
  BY DEF sched, world
<1> HIDE DEF Rest
<1>1. ASSUME NEW act, act \notin {"config_apply", "batch_apply"}, NEW items, NEW x,
             CreateToken(act, items, x), Rest
      PROVE  ClobberInv'
  BY <1>0, <1>1, ClobberIssue DEF Shaped
<1>2. ASSUME NEW p \in Files, NEW old, NEW c,
             CreateToken("config_apply", <<ConfigItem(p, old, c)>>, 0), Rest
      PROVE  ClobberInv'
  BY <1>0, <1>2, ClobberIssue DEF Shaped, ConfigItem
<1>3. ASSUME NEW rs, NEW cs, NEW n \in Nat, rs \in [1..n -> Resources], cs \in [1..n -> Texts],
             BatchPreview(rs, cs)
      PROVE  ClobberInv'
  <2> DEFINE items == [k \in DOMAIN rs |-> PreparedItem(rs, cs, k)]
  <2>1. CreateToken("batch_apply", items, 0) /\ Rest
    BY <1>3 DEF BatchPreview, Rest
  <2>2. Shaped("batch_apply", items)
    <3>1. \A k \in DOMAIN rs : PreparedItem(rs, cs, k).create => PreparedItem(rs, cs, k).old = Empty
      BY DEF PreparedItem, OrEmpty
    <3> QED
      BY <3>1 DEF Shaped
  <2> HIDE DEF items
  <2> QED
    BY <1>0, <2>1, <2>2, ClobberIssue
<1>4. ASSUME NEW p \in Files, NEW c, ConfigPatch(p, c) \/ ConfigCreate(p, c) PROVE ClobberInv'
  BY <1>2, <1>4 DEF ConfigPatch, ConfigCreate, Rest
<1>5. ASSUME NEW d, NEW c, DashboardDiff(d, c) \/ DashboardPatch(d, c) PROVE ClobberInv'
  BY <1>1, <1>5 DEF DashboardDiff, DashboardPatch, Rest
<1>6. ASSUME NEW x, RollbackPreview(x) PROVE ClobberInv'
  BY <1>1, <1>6 DEF RollbackPreview, Rest
<1>7. ASSUME (\E b : RevertPreview(b)) \/ PrunePreview PROVE ClobberInv'
  BY <1>1, <1>7 DEF RevertPreview, PrunePreview, Rest
<1>8. 1..MaxItems \subseteq Nat
  BY ContextAssumption
<1> QED
  BY <1>3, <1>4, <1>5, <1>6, <1>7, <1>8 DEF Preview

-----------------------------------------------------------------------------
(* Every step.                                                             *)

(* Every step keeps what an apply relies on.                               *)
LEMMA ClobberStep ==
  ASSUME TypeInv, TokenInv, LockInv, ClobberInv, [Next]_vars
  PROVE  ClobberInv'
<1>1. ASSUME NEW tk \in DOMAIN tokens, PruneConfirm(tk) PROVE ClobberInv'
  BY <1>1, ClobberSpends DEF PruneConfirm, sched, world
<1>2. ASSUME NEW t \in Tasks, Start(t) \/ Step(t) PROVE ClobberInv'
  BY <1>2, ConfigClobber, DashboardClobber, RollbackClobber, RevertClobber, BatchClobber
  DEF Start, Step
<1>3. ASSUME NEW t \in Tasks, Answer(t) \/ Cancel(t) PROVE ClobberInv'
  BY <1>3, ClobberSave, ClobberError, ClobberCancel DEF Answer
<1>4. ASSUME Environment PROVE ClobberInv'
  BY <1>4, ClobberEdit, ClobberSave, ClobberRestart DEF Environment
<1>5. ASSUME UNCHANGED vars PROVE ClobberInv'
  <2>1. UNCHANGED <<content, writer, inflight, task, loop, tokens>>
    BY <1>5 DEF vars, memory, sched, world
  <2>2. TokensShaped'
    BY <2>1 DEF ClobberInv, TokensShaped
  <2> QED
    BY <2>1, <2>2, KeepRefl, ClobberStill
<1> QED
  BY <1>1, <1>2, <1>3, <1>4, <1>5, ClobberPreview DEF Next

(* Nothing is under way at the start.                                      *)
LEMMA InitClobber == Init => ClobberInv
<1> SUFFICES ASSUME Init PROVE ClobberInv
  OBVIOUS
<1>1. /\ DOMAIN tokens = {} /\ inflight = {}
      /\ \A t \in Tasks : task[t] = Idle
  BY DEF Init
<1>2. /\ Idle.pc \notin AtFile /\ Idle.pc \notin Rechecked /\ Idle.reply = "none"
      /\ Idle.pc \notin Batching /\ Idle.pc \notin {"b_item", "dash_lock"}
  BY DEF Idle, AtFile, Rechecked, Batching
<1> QED
  BY <1>1, <1>2
  DEF ClobberInv, TokensShaped, RecheckHolds, KeepsPlace, SavesAwaited, SavesFresh

(* What an apply relies on holds in every state.                           *)
LEMMA ClobberInvariant == Spec => []ClobberInv
<1>1. TypeInv /\ TokenInv /\ LockInv /\ ClobberInv /\ [Next]_vars => ClobberInv'
  BY ClobberStep
<1> QED
  BY <1>1, InitClobber, TokensAreSpent, LockInvariant, PTL DEF Spec

(* What an apply overwrites is what its preview showed, unless a person or *)
(* Home Assistant wrote in between: never the write of another apply, in   *)
(* any instance and whatever was cancelled, lost or restarted.             *)
THEOREM RechecksStillHold == Spec => []AppliesDoNotClobberApplies
<1>1. ClobberInv => AppliesDoNotClobberApplies
  <2>1. Saving \subseteq Rechecked
    BY DEF Saving, Rechecked
  <2> QED
    BY <2>1
    DEF ClobberInv, RecheckHolds, KeepsPlace, SavesFresh, AppliesDoNotClobberApplies
<1> QED
  BY <1>1, ClobberInvariant, PTL
=============================================================================
