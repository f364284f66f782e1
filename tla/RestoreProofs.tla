---------------------------- MODULE RestoreProofs ----------------------------
(***************************************************************************)
(* The second half of the way back: haops_batch_apply keeps RecoveryInv,   *)
(* in which an item that was written is recorded before the next one, and  *)
(* a call that gives up puts back every item it recorded; then every step  *)
(* of the pipeline keeps it, and a batch is done as a whole or not at all, *)
(* and a rollback restores.                                                *)
(***************************************************************************)
EXTENDS RecoveryProofs

-----------------------------------------------------------------------------
(* haops_batch_apply.                                                      *)

(* A batch goes on, or back, to what was promised.                         *)
LEMMA BatchRecoversOn ==
  ASSUME NEW c, FindsAsShown(c)', CountsItems(c)',
         \/ c.pc \in Forward /\ RecordsDone(c)' /\ LeavesTexts(c)'
         \/ c.pc \in Backward /\ BringsBack(c)'
  PROVE  Recovers(c)'
<1>1. c.pc \notin Restoring
  BY DEF Forward, Backward, Restoring
<1>2. RestoresSaves(c)'
  BY <1>1 DEF RestoresSaves
<1>3. c.pc \in Forward => BringsBack(c)'
  BY DEF Forward, Backward, BringsBack
<1>4. c.pc \in Backward => RecordsDone(c)' /\ LeavesTexts(c)'
  BY DEF Forward, Backward, RecordsDone, LeavesTexts
<1> QED
  BY <1>2, <1>3, <1>4 DEF Recovers

(* Where a batch stands.                                                   *)
LEMMA BatchIs ==
  ASSUME KnownInv, RecoveryInv, NEW t \in Tasks, NEW s, s = task[t], s.pc \in Batching,
         NEW tk, tk = s.tok, NEW items, items = tokens[tk].items
  PROVE  /\ s \in Calls /\ s.k \in Nat /\ s.n \in Nat
         /\ tk \in DOMAIN tokens /\ tk \in TokenIds /\ tokens[tk].action = "batch_apply"
         /\ items \in Seq(Items) /\ Len(items) \in Nat /\ DOMAIN items = 1..Len(items)
         /\ DOMAIN items \subseteq 1..MaxItems
         /\ FindsAsShown(s) /\ CountsItems(s) /\ RecordsDone(s) /\ LeavesTexts(s) /\ BringsBack(s)
         /\ s.txn \in DOMAIN txns /\ s.pc \in Transacting
         /\ Item(t) = items[s.k]
<1>1. s \in Calls /\ TypeInv /\ tk \in DOMAIN tokens /\ tk \in TokenIds /\ tokens[tk] \in Tokens
  BY CallFacts DEF KnownInv, Batching, Token
<1>2. s.k \in Nat /\ s.n \in Nat
  BY <1>1 DEF Calls
<1>3. tokens[tk].action = "batch_apply"
  BY DEF KnownInv, ClobberInv, RecheckHolds, KeepsPlace, Token
<1>4. items \in Seq(Items)
  BY <1>1 DEF Tokens
<1>5. Len(items) \in Nat /\ DOMAIN items = 1..Len(items)
  BY <1>4, SeqIsFun
<1>6. DOMAIN items \subseteq 1..MaxItems
  BY <1>1, <1>3, ItemBound DEF KnownInv, Remembered, Applies
<1>8. Recovers(s)
  BY DEF RecoveryInv
<1>10. s.pc \in Transacting
  BY DEF Batching, Transacting
<1>11. s.txn \in DOMAIN txns
  BY <1>10, TransactionIsOwn
<1>12. Item(t) = items[s.k]
  BY DEF Item, Token
<1> QED
  BY <1>1, <1>2, <1>3, <1>4, <1>5, <1>6, <1>8, <1>10, <1>11, <1>12 DEF Recovers

(* The items of a batch.                                                   *)
LEMMA BatchItemIs ==
  ASSUME KnownInv, RecoveryInv, NEW t \in Tasks, task[t].pc \in Batching,
         NEW j \in DOMAIN tokens[task[t].tok].items, NEW it, it = tokens[task[t].tok].items[j]
  PROVE  it \in Items /\ (it.create => it.res \in Files /\ it.old = Empty)
<1>1. PICK tk : tk = task[t].tok
  OBVIOUS
<1>2. TypeInv /\ tk \in DOMAIN tokens /\ tokens[tk] \in Tokens
  BY <1>1, CallFacts DEF KnownInv, Batching, Token
<1>3. tokens[tk].action = "batch_apply"
  BY <1>1 DEF KnownInv, ClobberInv, RecheckHolds, KeepsPlace, Token
<1>4. tokens[tk].items \in Seq(Items)
  BY <1>2 DEF Tokens
<1>5. it \in Items
  BY <1>1, <1>4, SeqIsFun
<1>6. it.create => it.old = Empty
  BY <1>1, <1>2, <1>3 DEF KnownInv, ClobberInv, TokensShaped
<1>7. TokenFits(tk)
  BY <1>2 DEF RecoveryInv
<1>8. it.create => it.res \in Files
  BY <1>1, <1>3, <1>7 DEF TokenFits
<1> QED
  BY <1>5, <1>6, <1>8

(* How many copies a batch has noted.                                      *)
LEMMA BatchCounts ==
  ASSUME KnownInv, RecoveryInv, NEW t \in Tasks, NEW s, s = task[t], s.pc \in Batching
  PROVE  /\ s.baks \in Seq(Nat) /\ Len(s.baks) \in Nat /\ DOMAIN s.baks = 1..Len(s.baks)
         /\ Len(s.baks) <= Len(tokens[s.tok].items)
         /\ s.pc \in {"b_item", "b_lock"} => Len(s.baks) = s.k - 1
         /\ s.pc \in {"b_write", "b_wait"} => Len(s.baks) = s.k
         /\ s.pc \in Backward => s.k <= s.n /\ s.n <= Len(s.baks)
         /\ s.pc = "b_item" => s.k >= 1
         /\ s.pc \in {"b_lock", "b_write", "b_wait", "b_uwait"} => s.k \in DOMAIN tokens[s.tok].items
         /\ s.pc \in {"b_lock", "b_wait"} => tokens[s.tok].items[s.k].res \in Dashboards
         /\ \A j \in DOMAIN s.baks : s.baks[j] # 0 => s.baks[j] \in DOMAIN backups
<1>1. s \in Calls /\ CallFits(s, tokens, txns, backups)
  BY CallFacts DEF KnownInv
<1>2. s.baks \in Seq(Nat) /\ Len(s.baks) \in Nat /\ DOMAIN s.baks = 1..Len(s.baks)
      /\ \A j \in DOMAIN s.baks : s.baks[j] \in Nat
  <2>1. s.baks \in Seq(Nat)
    BY <1>1 DEF Calls
  <2> QED
    BY <2>1, SeqIsFun
<1>3. CountsItems(s)
  BY DEF RecoveryInv, Recovers
<1>4. /\ s.pc \in {"b_item", "b_lock"} => Len(s.baks) = s.k - 1
      /\ s.pc \in {"b_write", "b_wait"} => Len(s.baks) = s.k
      /\ s.pc = "b_item" => s.k >= 1
      /\ s.pc \in {"b_lock", "b_write", "b_wait", "b_uwait"} => s.k \in DOMAIN tokens[s.tok].items
      /\ s.pc \in {"b_lock", "b_wait"} => tokens[s.tok].items[s.k].res \in Dashboards
  BY <1>1 DEF CallFits, AtItem, AtDashboard
<1>5. ASSUME NEW j \in DOMAIN s.baks, s.baks[j] # 0 PROVE s.baks[j] \in DOMAIN backups
  <2>1. s.baks[j] <= Len(backups) /\ s.baks[j] \in Nat
    BY <1>1, <1>2 DEF CallFits
  <2>2. backups \in Seq(BackupEntries)
    BY DEF KnownInv, TypeInv, TypeOK
  <2>3. DOMAIN backups = 1..Len(backups) /\ Len(backups) \in Nat
    BY <2>2, SeqIsFun
  <2> QED
    BY <1>5, <2>1, <2>3
<1> QED
  BY <1>2, <1>3, <1>4, <1>5 DEF CountsItems

(* Which items a batch has executed.                                       *)
LEMMA BatchDone ==
  ASSUME NEW c, c.k \in Nat, c.n \in Nat, NEW j \in Nat
  PROVE  /\ c.pc \in {"b_item", "b_write", "b_lock"} => (Done(c, j) <=> j \in 1..(c.k - 1))
         /\ c.pc = "b_wait" /\ c.reply # "ok" => (Done(c, j) <=> j \in 1..(c.k - 1))
         /\ c.pc = "b_wait" /\ c.reply = "ok" /\ c.k > 0 => (Done(c, j) <=> j \in 1..c.k)
         /\ c.pc \in Backward => (Done(c, j) <=> j \in 1..c.n)
BY DEF Done, Forward, Backward, Holding

(* And which of them it has put back.                                      *)
LEMMA BatchPutBack ==
  ASSUME NEW c, c.k \in Nat, c.n \in Nat, NEW j \in Nat
  PROVE  /\ c.pc = "b_undo" => (PutBack(c, j) <=> j \in (c.k + 1)..c.n)
         /\ c.pc = "b_uwait" /\ c.reply # "ok" => (PutBack(c, j) <=> j \in (c.k + 1)..c.n)
         /\ c.pc = "b_uwait" /\ c.reply = "ok" /\ c.k <= c.n => (PutBack(c, j) <=> j \in c.k..c.n)
BY DEF PutBack, Backward

(* A call that has executed what it had, or what was as it was shown.      *)
LEMMA FoundGoes ==
  ASSUME NEW c, NEW d, d.tok = c.tok, c.tok \in DOMAIN tokens, FindsAsShown(c),
         UNCHANGED tokens, unsure \subseteq unsure', d.pc # "cfg_backup",
         \A j \in DOMAIN tokens[c.tok].items :
           Done(d, j) /\ c.tok \notin unsure' =>
             \/ Done(c, j) /\ replaced'[<<c.tok, j>>] = replaced[<<c.tok, j>>]
             \/ AsFound(c.tok, j, replaced'[<<c.tok, j>>]),
         AboutToWrite(d) /\ c.tok \notin unsure' =>
           AsFound(c.tok, d.k, content'[tokens[c.tok].items[d.k].res])
  PROVE  FindsAsShown(d)'
<1>1. PICK tk : tk = c.tok
  OBVIOUS
<1>2. ASSUME tk \notin unsure', NEW j \in DOMAIN tokens[tk].items, Done(d, j)
      PROVE  AsFound(tk, j, replaced'[<<tk, j>>])
  BY <1>1, <1>2 DEF FindsAsShown
<1>3. ASSUME tk \notin unsure', AboutToWrite(d)
      PROVE  AsFound(tk, d.k, content'[tokens[tk].items[d.k].res])
  BY <1>1, <1>3
<1> SUFFICES ASSUME d.tok \notin unsure'
             PROVE  /\ d.pc = "cfg_backup" \/ AboutToWrite(d)
                         => AsFound(d.tok, d.k, content[tokens[d.tok].items[d.k].res])'
                    /\ \A j \in DOMAIN tokens'[d.tok].items :
                         Done(d, j) => AsFound(d.tok, j, replaced[<<d.tok, j>>])'
  BY DEF FindsAsShown, AboutToWrite, Done
<1>4. AboutToWrite(d) => AsFound(d.tok, d.k, content[tokens[d.tok].items[d.k].res])'
  BY <1>1, <1>3 DEF AsFound
<1>5. ASSUME NEW j \in DOMAIN tokens'[d.tok].items, Done(d, j)
      PROVE  AsFound(d.tok, j, replaced[<<d.tok, j>>])'
  BY <1>1, <1>2, <1>5 DEF AsFound
<1> QED
  BY <1>4, <1>5

(* A batch that writes nothing has left its texts where they were.         *)
LEMMA TextsGo ==
  ASSUME NEW c, NEW d, d.tok = c.tok, c.pc \in Forward, LeavesTexts(c),
         UNCHANGED <<tokens, content>>, unsure \subseteq unsure',
         \A j \in DOMAIN tokens[c.tok].items : Done(d, j) <=> Done(c, j)
  PROVE  LeavesTexts(d)'
<1>1. PICK tk, items : tk = c.tok /\ items = tokens[tk].items
  OBVIOUS
<1>2. ASSUME tk \notin unsure', NEW j \in DOMAIN items, Done(d, j),
             \A i \in DOMAIN items : Done(d, i) /\ items[i].res = items[j].res => i <= j
      PROVE  content[items[j].res] = Written(items[j].res, items[j].new)
  BY <1>1, <1>2 DEF LeavesTexts
<1> SUFFICES ASSUME d.tok \notin unsure', NEW j \in DOMAIN tokens'[d.tok].items, Done(d, j),
                    \A i \in DOMAIN tokens'[d.tok].items :
                      Done(d, i) /\ tokens'[d.tok].items[i].res = tokens'[d.tok].items[j].res => i <= j
             PROVE  content'[tokens'[d.tok].items[j].res]
                      = Written(tokens'[d.tok].items[j].res, tokens'[d.tok].items[j].new)
  BY DEF LeavesTexts, Done, Written
<1> QED
  BY <1>1, <1>2

(* The text of the item it writes now is there, and is the last one.       *)
LEMMA TextsWritten ==
  ASSUME NEW c, NEW d, d.tok = c.tok, c.pc \in Forward, LeavesTexts(c),
         UNCHANGED tokens, unsure \subseteq unsure',
         NEW k \in DOMAIN tokens[c.tok].items, DOMAIN tokens[c.tok].items \subseteq Nat,
         \A j \in DOMAIN tokens[c.tok].items : Done(d, j) => j = k \/ Done(c, j),
         \A j \in DOMAIN tokens[c.tok].items : Done(c, j) => Done(d, j) /\ j < k,
         Done(d, k),
         NEW r, r = tokens[c.tok].items[k].res, \A q : q # r => content'[q] = content[q],
         content'[r] = Written(r, tokens[c.tok].items[k].new)
  PROVE  LeavesTexts(d)'
<1>1. PICK tk, items : tk = c.tok /\ items = tokens[tk].items
  OBVIOUS
<1>2. ASSUME tk \notin unsure', NEW j \in DOMAIN items, Done(d, j),
             \A i \in DOMAIN items : Done(d, i) /\ items[i].res = items[j].res => i <= j
      PROVE  content'[items[j].res] = Written(items[j].res, items[j].new)
  <2>1. CASE j = k
    BY <1>1, <2>1
  <2>2. CASE j # k
    <3>1. Done(c, j) /\ j < k /\ j \in Nat /\ k \in Nat
      BY <1>1, <1>2, <2>2
    <3>2. items[j].res # r
      <4> SUFFICES ASSUME items[j].res = r PROVE FALSE
        OBVIOUS
      <4>1. k <= j
        BY <1>1, <1>2
      <4> QED
        BY <3>1, <4>1
    <3>3. \A i \in DOMAIN items : Done(c, i) /\ items[i].res = items[j].res => i <= j
      BY <1>1, <1>2
    <3>4. content[items[j].res] = Written(items[j].res, items[j].new)
      BY <1>1, <1>2, <3>1, <3>3 DEF LeavesTexts
    <3> QED
      BY <3>2, <3>4
  <2> QED
    BY <2>1, <2>2
<1> SUFFICES ASSUME d.tok \notin unsure', NEW j \in DOMAIN tokens'[d.tok].items, Done(d, j),
                    \A i \in DOMAIN tokens'[d.tok].items :
                      Done(d, i) /\ tokens'[d.tok].items[i].res = tokens'[d.tok].items[j].res => i <= j
             PROVE  content'[tokens'[d.tok].items[j].res]
                      = Written(tokens'[d.tok].items[j].res, tokens'[d.tok].items[j].new)
  BY DEF LeavesTexts, Done, Written
<1> QED
  BY <1>1, <1>2

(* A batch that goes on going back without a write.                        *)
LEMMA BackGoes ==
  ASSUME NEW c, NEW d, d.tok = c.tok, c.pc \in Backward, BringsBack(c),
         UNCHANGED <<tokens, content, replaced>>, unsure \subseteq unsure',
         ~d.dirty => ~c.dirty /\ \A j \in DOMAIN tokens[c.tok].items : PutBack(d, j) <=> PutBack(c, j)
  PROVE  BringsBack(d)'
<1>1. PICK tk, items : tk = c.tok /\ items = tokens[tk].items
  OBVIOUS
<1>2. ASSUME tk \notin unsure', ~d.dirty, NEW j \in DOMAIN items, PutBack(d, j),
             \A i \in DOMAIN items : PutBack(d, i) /\ items[i].res = items[j].res => j <= i
      PROVE  Same(items[j].res, content[items[j].res], replaced[<<tk, j>>])
  BY <1>1, <1>2 DEF BringsBack
<1> SUFFICES ASSUME d.tok \notin unsure', ~d.dirty, NEW j \in DOMAIN tokens'[d.tok].items, PutBack(d, j),
                    \A i \in DOMAIN tokens'[d.tok].items :
                      PutBack(d, i) /\ tokens'[d.tok].items[i].res = tokens'[d.tok].items[j].res => j <= i
             PROVE  Same(tokens'[d.tok].items[j].res, content'[tokens'[d.tok].items[j].res],
                         replaced'[<<d.tok, j>>])
  BY DEF BringsBack, PutBack, Same, Written
<1> QED
  BY <1>1, <1>2

(* What the item it puts back now replaced is there, and is the first.     *)
LEMMA BackWritten ==
  ASSUME NEW c, NEW d, d.tok = c.tok, c.pc \in Backward, BringsBack(c), d.dirty = c.dirty,
         UNCHANGED <<tokens, replaced>>, unsure \subseteq unsure',
         NEW k \in DOMAIN tokens[c.tok].items, DOMAIN tokens[c.tok].items \subseteq Nat,
         \A j \in DOMAIN tokens[c.tok].items : PutBack(d, j) => j = k \/ PutBack(c, j),
         \A j \in DOMAIN tokens[c.tok].items : PutBack(c, j) => PutBack(d, j) /\ k < j,
         PutBack(d, k),
         NEW r, r = tokens[c.tok].items[k].res, \A q : q # r => content'[q] = content[q],
         c.tok \notin unsure => Same(r, content'[r], replaced[<<c.tok, k>>])
  PROVE  BringsBack(d)'
<1>1. PICK tk, items : tk = c.tok /\ items = tokens[tk].items
  OBVIOUS
<1>2. ASSUME tk \notin unsure', ~d.dirty, NEW j \in DOMAIN items, PutBack(d, j),
             \A i \in DOMAIN items : PutBack(d, i) /\ items[i].res = items[j].res => j <= i
      PROVE  Same(items[j].res, content'[items[j].res], replaced[<<tk, j>>])
  <2>1. CASE j = k
    BY <1>1, <1>2, <2>1
  <2>2. CASE j # k
    <3>1. PutBack(c, j) /\ k < j /\ j \in Nat /\ k \in Nat
      BY <1>1, <1>2, <2>2
    <3>2. items[j].res # r
      <4> SUFFICES ASSUME items[j].res = r PROVE FALSE
        OBVIOUS
      <4>1. j <= k
        BY <1>1, <1>2
      <4> QED
        BY <3>1, <4>1
    <3>3. \A i \in DOMAIN items : PutBack(c, i) /\ items[i].res = items[j].res => j <= i
      BY <1>1, <1>2
    <3>4. Same(items[j].res, content[items[j].res], replaced[<<tk, j>>])
      BY <1>1, <1>2, <3>1, <3>3 DEF BringsBack
    <3> QED
      BY <3>2, <3>4
  <2> QED
    BY <2>1, <2>2
<1> SUFFICES ASSUME d.tok \notin unsure', ~d.dirty, NEW j \in DOMAIN tokens'[d.tok].items, PutBack(d, j),
                    \A i \in DOMAIN tokens'[d.tok].items :
                      PutBack(d, i) /\ tokens'[d.tok].items[i].res = tokens'[d.tok].items[j].res => j <= i
             PROVE  Same(tokens'[d.tok].items[j].res, content'[tokens'[d.tok].items[j].res],
                         replaced'[<<d.tok, j>>])
  BY DEF BringsBack, PutBack, Same, Written
<1> QED
  BY <1>1, <1>2

(* The copies a batch noted are still those of its items.                  *)
LEMMA CountsGo ==
  ASSUME NEW c, NEW d, d.tok = c.tok, c.tok \in DOMAIN tokens, c.pc \in Batching, CountsItems(c),
         UNCHANGED tokens, BackupsKeep(backups, backups'),
         \A j \in DOMAIN c.baks : c.baks[j] # 0 => c.baks[j] \in DOMAIN backups,
         Len(d.baks) <= Len(tokens[c.tok].items),
         d.pc \in Backward => d.k <= d.n /\ d.n <= Len(d.baks),
         \/ d.baks = c.baks
         \/ \A j \in DOMAIN d.baks :
              \/ j \in DOMAIN c.baks /\ d.baks[j] = c.baks[j]
              \/ d.baks[j] = 0
              \/ backups'[d.baks[j]].text = tokens[c.tok].items[j].old
  PROVE  CountsItems(d)'
<1>1. PICK tk, items : tk = c.tok /\ items = tokens[tk].items
  OBVIOUS
<1>2. ASSUME NEW j \in DOMAIN d.baks, d.baks[j] # 0
      PROVE  backups'[d.baks[j]].text = items[j].old
  <2>1. CASE j \in DOMAIN c.baks /\ d.baks[j] = c.baks[j]
    <3>1. backups[c.baks[j]].text = items[j].old /\ c.baks[j] \in DOMAIN backups
      BY <1>1, <1>2, <2>1 DEF CountsItems
    <3> QED
      BY <2>1, <3>1 DEF BackupsKeep
  <2>2. CASE backups'[d.baks[j]].text = tokens[c.tok].items[j].old
    BY <1>1, <2>2
  <2> QED
    BY <1>2, <2>1, <2>2
<1> QED
  BY <1>1, <1>2 DEF CountsItems

(* A batch that gives up has put nothing back yet.                         *)
LEMMA AbortRecovers ==
  ASSUME KnownInv, TypeInv', TokenInv', RecoveryInv, NEW t \in Tasks, Abort(t),
         task[t].pc \in Forward, task[t].pc = "b_wait" => task[t].reply = "err",
         UNCHANGED <<tokens, txns, backups, world>>
  PROVE  RecoveryInv'
<1>1. PICK s : s = task[t]
  OBVIOUS
<1>2. PICK tk, items : tk = s.tok /\ items = tokens[tk].items
  OBVIOUS
<1>3. s.pc \in Batching
  BY <1>1 DEF Forward, Batching
<1>4. /\ s \in Calls /\ s.k \in Nat /\ tk \in DOMAIN tokens
      /\ DOMAIN items = 1..Len(items) /\ Len(items) \in Nat /\ FindsAsShown(s) /\ CountsItems(s)
  BY <1>1, <1>2, <1>3, BatchIs
<1>5. /\ Len(s.baks) <= Len(items) /\ Len(s.baks) \in Nat
      /\ s.pc \in {"b_item", "b_lock"} => Len(s.baks) = s.k - 1
      /\ s.pc \in {"b_write", "b_wait"} => Len(s.baks) = s.k
      /\ s.pc = "b_item" => s.k >= 1
      /\ s.pc \in {"b_lock", "b_write", "b_wait", "b_uwait"} => s.k \in DOMAIN items
      /\ \A j \in DOMAIN s.baks : s.baks[j] # 0 => s.baks[j] \in DOMAIN backups
  BY <1>1, <1>2, <1>3, BatchCounts
<1>6. s.k >= 1 /\ s.k - 1 <= Len(s.baks)
  BY <1>1, <1>4, <1>5 DEF Forward
<1>7. PICK m : m = s.k - 1
  OBVIOUS
<1> DEFINE d == [s EXCEPT !.pc = "b_undo", !.reply = "none", !.k = m, !.n = m]
<1>8. task' = [task EXCEPT ![t] = d]
  BY <1>1, <1>7 DEF Abort
<1>9. d.pc = "b_undo" /\ d.k = m /\ d.n = m /\ d.tok = s.tok /\ d.baks = s.baks
  BY <1>4 DEF Calls
<1> HIDE DEF d
<1>10. m \in Nat /\ m <= Len(s.baks)
  BY <1>4, <1>6, <1>7
<1>11. \A j \in Nat : Done(d, j) <=> j \in 1..m
  BY <1>9, <1>10, BatchDone DEF Backward
<1>12. \A j \in Nat : Done(s, j) <=> j \in 1..m
  <2> SUFFICES ASSUME NEW j \in Nat PROVE Done(s, j) <=> j \in 1..m
    OBVIOUS
  <2>1. s.n \in Nat /\ (s.pc = "b_wait" => s.reply # "ok")
    BY <1>1, <1>4 DEF Calls
  <2>2. s.pc \in {"b_item", "b_write", "b_lock", "b_wait"}
    BY <1>1 DEF Forward
  <2> QED
    BY <1>4, <1>7, <2>1, <2>2, BatchDone
<1>13. DOMAIN items \subseteq Nat
  BY <1>4
<1>14. ~AboutToWrite(d)
  BY <1>9 DEF AboutToWrite, Saving, Holding
<1>15. FindsAsShown(d)'
  <2>1. \A j \in DOMAIN tokens[s.tok].items :
          Done(d, j) => Done(s, j) /\ replaced'[<<s.tok, j>>] = replaced[<<s.tok, j>>]
    BY <1>2, <1>11, <1>12, <1>13 DEF world
  <2>2. UNCHANGED tokens /\ unsure \subseteq unsure' /\ s.tok \in DOMAIN tokens
    BY <1>2, <1>4 DEF world
  <2> QED
    BY <1>4, <1>9, <1>14, <2>1, <2>2, FoundGoes
<1>16. CountsItems(d)'
  <2>1. BackupsKeep(backups, backups') /\ UNCHANGED tokens
    BY DEF BackupsKeep
  <2> QED
    BY <1>2, <1>3, <1>4, <1>5, <1>9, <1>10, <2>1, CountsGo
<1>17. \A j \in Nat : ~PutBack(d, j)
  BY <1>9, <1>10, BatchPutBack
<1>18. BringsBack(d)'
  <2>1. \A j \in DOMAIN tokens'[d.tok].items : ~PutBack(d, j)'
    BY <1>2, <1>9, <1>13, <1>17 DEF PutBack
  <2> QED
    BY <2>1 DEF BringsBack
<1>19. Recovers(d)'
  BY <1>9, <1>15, <1>16, <1>18, BatchRecoversOn DEF Backward
<1>20. TxnsFit(t)
  BY SameTxnsFit DEF KnownInv
<1>21. task[t].pc \notin Waiting \/ task[t].reply # "none"
  BY DEF Forward, Waiting
<1> QED
  BY <1>1, <1>8, <1>9, <1>19, <1>20, <1>21, RecoverGoes DEF world

(* The first thing a batch does.                                           *)
LEMMA BatchApplyRecovers ==
  ASSUME KnownInv, TypeInv', TokenInv', RecoveryInv, NEW t \in Tasks, NEW tk, BatchApply(t, tk)
  PROVE  RecoveryInv'
<1>1. /\ ClaimToken(tk) /\ task[t].pc = "idle" /\ UNCHANGED <<durable, world>>
  BY DEF BatchApply, MayStart
<1>2. CASE UNCHANGED <<txns, loop, task>>
  <2>1. Grows
    BY <1>1, CallGrows DEF durable, world, KnownInv
  <2> QED
    BY <1>1, <1>2, <2>1, RecoverStill DEF world, LeftAlone
<1>3. CASE /\ Begin(tk, <<>>)
           /\ task' = [task EXCEPT ![t] = [Idle EXCEPT !.pc = "b_item",
                         !.tok = tk, !.txn = Len(txns) + 1, !.k = 1]]
  <2>1. PICK x : x = Len(txns) + 1
    OBVIOUS
  <2> DEFINE d == [Idle EXCEPT !.pc = "b_item", !.tok = tk, !.txn = x, !.k = 1]
  <2>2. task' = [task EXCEPT ![t] = d]
    BY <1>3, <2>1
  <2>3. d.pc = "b_item" /\ d.tok = tk /\ d.txn = x /\ d.k = 1 /\ d.n = 0 /\ d.baks = <<>>
    BY DEF Idle
  <2> HIDE DEF d
  <2>4. /\ tokens'[tk].items = tokens[tk].items /\ tokens'[tk].action = tokens[tk].action
        /\ tokens[tk].items \in Seq(Items)
    BY <1>1, ClaimFacts DEF KnownInv, TokensKeep
  <2>5. DOMAIN tokens[tk].items = 1..Len(tokens[tk].items) /\ Len(tokens[tk].items) \in Nat
    BY <2>4, SeqIsFun
  <2>6. \A j : ~Done(d, j)
    BY <2>3 DEF Done, Backward, Holding
  <2>7. ~AboutToWrite(d)
    BY <2>3 DEF AboutToWrite, Saving, Holding
  <2>8. FindsAsShown(d)' /\ LeavesTexts(d)'
    <3>1. (\A j : ~Done(d, j)') /\ ~AboutToWrite(d)'
      BY <2>6, <2>7 DEF Done, AboutToWrite
    <3> QED
      BY <2>3, <3>1 DEF FindsAsShown, LeavesTexts
  <2>9. CountsItems(d)'
    <3>1. DOMAIN d.baks = {} /\ Len(d.baks) = 0
      BY <2>3, OneOrNone
    <3>2. Len(d.baks) <= Len(tokens'[d.tok].items) /\ d.pc \notin Backward
      BY <2>3, <2>4, <2>5, <3>1 DEF Backward
    <3> QED
      BY <3>1, <3>2 DEF CountsItems
  <2>10. RecordsDone(d)'
    <3>1. txns \in Seq(Txns)
      BY DEF KnownInv, TypeInv, TypeOK
    <3> DEFINE new == [state |-> "open", tok |-> tk, saves |-> <<>>]
    <3>2. txns' = Append(txns, new)
      BY <1>3 DEF Begin
    <3>3. new.saves = <<>>
      OBVIOUS
    <3> HIDE DEF new
    <3>4. txns'[x] = new
      BY <2>1, <3>1, <3>2
    <3>5. \A i : i \notin DOMAIN txns'[d.txn].saves
      BY <2>3, <3>3, <3>4, OneOrNone
    <3> QED
      BY <3>5 DEF RecordsDone
  <2>11. Recovers(d)'
    BY <2>3, <2>8, <2>9, <2>10, BatchRecoversOn DEF Forward
  <2>12. TxnsFit(t)
    BY <1>3, <2>4, BeginFits DEF KnownInv
  <2>13. task[t].pc \notin Waiting
    BY <1>1 DEF Waiting
  <2> QED
    BY <1>1, <2>2, <2>3, <2>11, <2>12, <2>13, RecoverGoes DEF durable, world
<1> QED
  BY <1>2, <1>3 DEF BatchApply

(* One more copy is noted.                                                 *)
LEMMA CopyNoted ==
  ASSUME NEW baks \in Seq(Nat), NEW b \in Nat, NEW k \in Nat, Len(baks) = k - 1,
         NEW more, more = Append(baks, b)
  PROVE  /\ Len(more) = k
         /\ \A j \in DOMAIN more : \/ j \in DOMAIN baks /\ more[j] = baks[j]
                                   \/ j = k /\ more[j] = b
<1>1. /\ Len(more) = Len(baks) + 1
      /\ \A i \in DOMAIN baks : more[i] = baks[i]
      /\ more[Len(baks) + 1] = b
      /\ DOMAIN more = DOMAIN baks \cup {Len(baks) + 1}
  BY SeqAppend
<1>2. Len(baks) + 1 = k
  <2>1. Len(baks) \in Nat
    BY SeqIsFun
  <2> QED
    BY <2>1
<1> QED
  BY <1>1, <1>2

(* A batch writes its files and records them.                              *)
LEMMA BatchFileRecovers ==
  ASSUME KnownInv, TypeInv', TokenInv', RecoveryInv, NEW t \in Tasks,
         BatchFile(t) \/ BatchWrite(t) \/ BatchDashboard(t)
  PROVE  RecoveryInv'
<1>1. PICK s : s = task[t]
  OBVIOUS
<1>2. PICK tk, items : tk = s.tok /\ items = tokens[tk].items
  OBVIOUS
<1>3. s.pc \in {"b_item", "b_write"}
  BY <1>1 DEF BatchFile, BatchWrite, BatchDashboard, At
<1>4. s.pc \in Batching /\ s.pc \in Forward /\ s.pc \notin Waiting
  BY <1>3 DEF Batching, Forward, Waiting
<1>5. /\ s \in Calls /\ s.k \in Nat /\ s.n \in Nat
      /\ tk \in DOMAIN tokens /\ tk \in TokenIds
      /\ Len(items) \in Nat /\ DOMAIN items = 1..Len(items) /\ DOMAIN items \subseteq 1..MaxItems
      /\ \A j \in DOMAIN items :
           /\ items[j] \in Items
           /\ items[j].create => items[j].res \in Files /\ items[j].old = Empty
      /\ FindsAsShown(s) /\ CountsItems(s) /\ RecordsDone(s) /\ LeavesTexts(s)
      /\ s.pc \in Transacting /\ Item(t) = items[s.k]
  <2>1. /\ s \in Calls /\ s.k \in Nat /\ s.n \in Nat
        /\ tk \in DOMAIN tokens /\ tk \in TokenIds
        /\ Len(items) \in Nat /\ DOMAIN items = 1..Len(items) /\ DOMAIN items \subseteq 1..MaxItems
    BY <1>1, <1>2, <1>4, BatchIs
  <2>2. \A j \in DOMAIN items :
           /\ items[j] \in Items
           /\ items[j].create => items[j].res \in Files /\ items[j].old = Empty
    BY <1>1, <1>2, <1>4, BatchItemIs
  <2>3. /\ FindsAsShown(s) /\ CountsItems(s) /\ RecordsDone(s) /\ LeavesTexts(s)
        /\ s.pc \in Transacting /\ Item(t) = items[s.k]
    BY <1>1, <1>2, <1>4, BatchIs
  <2> QED
    BY <2>1, <2>2, <2>3
<1>6. /\ s.baks \in Seq(Nat)
      /\ Len(s.baks) <= Len(items) /\ Len(s.baks) \in Nat
      /\ s.pc = "b_item" => Len(s.baks) = s.k - 1 /\ s.k >= 1
      /\ s.pc = "b_write" => Len(s.baks) = s.k /\ s.k \in DOMAIN items
      /\ \A j \in DOMAIN s.baks : s.baks[j] # 0 => s.baks[j] \in DOMAIN backups
  BY <1>1, <1>2, <1>4, BatchCounts
<1>7. PICK k, it : k = s.k /\ it = items[k]
  OBVIOUS
<1>8. \A j \in Nat : Done(s, j) <=> j \in 1..(k - 1)
  BY <1>3, <1>5, <1>7, BatchDone
<1>9. DOMAIN items \subseteq Nat
  BY <1>5
<1>10. CASE BatchFile(t)
  <2>1. /\ s.pc = "b_item" /\ k \in DOMAIN items /\ BatchFresh(it)
        /\ UNCHANGED <<memory, audit, world>>
    BY <1>1, <1>2, <1>5, <1>7, <1>10 DEF BatchFile, At, MoreItems, Token
  <2>2. PICK b \in Nat : /\ task' = [task EXCEPT ![t].pc = "b_write", ![t].baks = Append(@, b)]
                         /\ \/ b = 0 /\ UNCHANGED backups
                            \/ b = Len(backups) + 1 /\ BackUp(it.res, it.old)
    <3>1. Len(backups) + 1 \in Nat
      <4>1. backups \in Seq(BackupEntries)
        BY DEF KnownInv, TypeInv, TypeOK
      <4>2. Len(backups) \in Nat
        BY <4>1, SeqIsFun
      <4> QED
        BY <4>2
    <3>2. Item(t) = it
      BY <1>5, <1>7
    <3>3. CASE BackupOnWrite /\ ~Item(t).create
      BY <1>10, <3>1, <3>2, <3>3 DEF BatchFile
    <3>4. CASE ~(BackupOnWrite /\ ~Item(t).create)
      BY <1>10, <3>2, <3>4 DEF BatchFile
    <3> QED
      BY <3>3, <3>4
  <2>3. PICK more : more = Append(s.baks, b)
    OBVIOUS
  <2> DEFINE d == [s EXCEPT !.pc = "b_write", !.baks = more]
  <2>4. task' = [task EXCEPT ![t] = d]
    BY <1>1, <2>2, <2>3
  <2>5. /\ d.pc = "b_write" /\ d.k = k /\ d.n = s.n /\ d.tok = s.tok /\ d.txn = s.txn
        /\ d.baks = more
    BY <1>5, <1>7 DEF Calls
  <2> HIDE DEF d
  <2>6. /\ Len(more) = k
        /\ \A j \in DOMAIN more : \/ j \in DOMAIN s.baks /\ more[j] = s.baks[j]
                                  \/ j = k /\ more[j] = b
    BY <1>5, <1>6, <1>7, <2>1, <2>3, CopyNoted
  <2>7. it \in Items /\ it.res \in Resources /\ it.old \in Contents /\ it.create \in BOOLEAN
    <3>1. it \in Items
      BY <1>5, <1>7, <2>1
    <3> QED
      BY <3>1 DEF Items
  <2>8. UNCHANGED backups \/ \E r \in Resources, v \in Contents : BackUp(r, v)
    BY <2>2, <2>7
  <2>9. b = 0 \/ backups'[b].text = it.old
    BY <2>2, <2>7, BackUpKeeps DEF KnownInv
  <2>10. \A j \in Nat : Done(d, j) <=> Done(s, j)
    BY <1>5, <1>8, <2>5, <1>7, BatchDone
  <2>11. \A j \in DOMAIN tokens[s.tok].items : Done(d, j) <=> Done(s, j)
    BY <1>2, <1>9, <2>10
  <2>12. /\ UNCHANGED tokens /\ UNCHANGED <<tokens, content>> /\ unsure \subseteq unsure'
         /\ UNCHANGED replaced /\ UNCHANGED txns
    BY <2>1 DEF memory, world
  <2>13. FindsAsShown(d)'
    <3>1. AsFound(tk, k, content[it.res])
      BY <1>2, <1>7, <2>1, <2>7 DEF BatchFresh, AsFound
    <3>2. AsFound(s.tok, d.k, content'[tokens[s.tok].items[d.k].res])
      BY <1>2, <1>7, <2>5, <2>12, <3>1
    <3>3. \A j \in DOMAIN tokens[s.tok].items :
            Done(d, j) => Done(s, j) /\ replaced'[<<s.tok, j>>] = replaced[<<s.tok, j>>]
      BY <2>11, <2>12
    <3>4. d.pc # "cfg_backup" /\ s.tok \in DOMAIN tokens
      BY <1>2, <1>5, <2>5
    <3> QED
      BY <1>5, <2>5, <2>12, <3>2, <3>3, <3>4, FoundGoes
  <2>14. LeavesTexts(d)'
    BY <1>4, <1>5, <2>5, <2>11, <2>12, TextsGo
  <2>15. CountsItems(d)'
    <3>1. BackupsKeep(backups, backups')
      BY <2>8, BackupsGrow DEF KnownInv
    <3>2. Len(d.baks) <= Len(tokens[s.tok].items) /\ d.pc \notin Backward
      BY <1>2, <1>5, <2>1, <2>5, <2>6 DEF Backward
    <3>3. \A j \in DOMAIN d.baks :
              \/ j \in DOMAIN s.baks /\ d.baks[j] = s.baks[j]
              \/ d.baks[j] = 0
              \/ backups'[d.baks[j]].text = tokens[s.tok].items[j].old
      BY <1>2, <1>7, <2>5, <2>6, <2>9
    <3>4. s.tok \in DOMAIN tokens
      BY <1>2, <1>5
    <3> QED
      BY <1>4, <1>5, <1>6, <2>5, <2>12, <3>1, <3>2, <3>3, <3>4, CountsGo
  <2>16. RecordsDone(d)'
    BY <1>4, <1>5, <1>7, <2>5, <2>12 DEF RecordsDone
  <2>17. Recovers(d)'
    BY <2>5, <2>13, <2>14, <2>15, <2>16, BatchRecoversOn DEF Forward
  <2>18. TxnsFit(t)
    BY <2>12, SameTxnsFit DEF KnownInv
  <2>19. UNCHANGED <<content, replaced, unsure, inflight>>
    BY <2>1 DEF world
  <2> QED
    BY <1>1, <1>4, <2>4, <2>5, <2>8, <2>12, <2>17, <2>18, <2>19, RecoverGoes
<1>11. CASE BatchWrite(t)
  <2>1. PICK r, v, o : /\ r = it.res /\ v = Written(r, it.new)
                       /\ o = IF it.create THEN Empty ELSE it.old
    OBVIOUS
  <2> DEFINE d == [s EXCEPT !.pc = "b_item", !.k = k + 1]
  <2>2. /\ s.pc = "b_write" /\ Write(r, v, "apply", tk) /\ Replace(tk, k, r)
        /\ AddSavepoint(s.txn, Savepoint(it.res, o, it.create, k))
        /\ task' = [task EXCEPT ![t] = d]
        /\ UNCHANGED <<tokens, durable, inflight>>
    BY <1>1, <1>2, <1>5, <1>7, <1>11, <2>1 DEF BatchWrite, At
  <2>3. /\ d.pc = "b_item" /\ d.k = k + 1 /\ d.n = s.n /\ d.tok = s.tok /\ d.txn = s.txn
        /\ d.baks = s.baks
    BY <1>5, <1>7 DEF Calls
  <2> HIDE DEF d
  <2>4. k \in DOMAIN items /\ k \in Nat /\ k >= 1 /\ Len(s.baks) = k
    BY <1>5, <1>6, <1>7, <2>2
  <2>5. it \in Items /\ r \in Resources /\ it.create \in BOOLEAN
    <3>1. it \in Items
      BY <1>5, <1>7, <2>4
    <3> QED
      BY <2>1, <3>1 DEF Items
  <2>6. o = it.old
    BY <1>5, <1>7, <2>1, <2>4, <2>5
  <2>7. content' = [content EXCEPT ![r] = v] /\ unsure \subseteq unsure' /\ r \in DOMAIN content
    BY <2>2, <2>5 DEF Write, KnownInv, TypeInv, TypeOK
  <2>8. /\ replaced'[<<tk, k>>] = content[r]
        /\ \A j : j # k => replaced'[<<tk, j>>] = replaced[<<tk, j>>]
    <3>1. replaced \in [TokenIds \X (1..MaxItems) -> Contents \cup {Absent, None}]
      BY DEF KnownInv, TypeInv, TypeOK
    <3>2. <<tk, k>> \in DOMAIN replaced /\ replaced' = [replaced EXCEPT ![<<tk, k>>] = content[r]]
      BY <1>5, <2>2, <2>4, <3>1 DEF Replace
    <3>3. \A j : j # k => <<tk, j>> # <<tk, k>>
      OBVIOUS
    <3> QED
      BY <3>1, <3>2, <3>3
  <2>9. \A j \in Nat : Done(d, j) <=> j \in 1..k
    <3>1. d.k \in Nat /\ d.n \in Nat /\ d.k - 1 = k
      BY <1>5, <2>3, <2>4
    <3> QED
      BY <2>3, <3>1, BatchDone
  <2>10. /\ \A j \in DOMAIN items : Done(d, j) => j = k \/ Done(s, j)
         /\ \A j \in DOMAIN items : Done(s, j) => Done(d, j) /\ j < k
         /\ Done(d, k)
    BY <1>8, <1>9, <2>4, <2>9
  <2>11. FindsAsShown(d)'
    <3>1. tk \notin unsure => AsFound(tk, k, content[r])
      BY <1>2, <1>5, <1>7, <2>1, <2>2 DEF FindsAsShown, AboutToWrite, Saving
    <3>2. \A j \in DOMAIN tokens[s.tok].items :
           Done(d, j) /\ s.tok \notin unsure' =>
             \/ Done(s, j) /\ replaced'[<<s.tok, j>>] = replaced[<<s.tok, j>>]
             \/ AsFound(s.tok, j, replaced'[<<s.tok, j>>])
      BY <1>2, <2>7, <2>8, <2>10, <3>1
    <3>3. ~AboutToWrite(d) /\ d.pc # "cfg_backup"
      BY <2>3 DEF AboutToWrite, Saving, Holding
    <3>4. s.tok \in DOMAIN tokens
      BY <1>2, <1>5
    <3> QED
      BY <1>5, <2>2, <2>3, <2>7, <3>2, <3>3, <3>4, FoundGoes
  <2>12. LeavesTexts(d)'
    <3>1. \A q : q # r => content'[q] = content[q]
      BY <2>7
    <3>2. content'[r] = Written(r, tokens[s.tok].items[k].new) /\ r = tokens[s.tok].items[k].res
      BY <1>2, <1>7, <2>1, <2>7
    <3>3. k \in DOMAIN tokens[s.tok].items /\ DOMAIN tokens[s.tok].items \subseteq Nat
      BY <1>2, <1>9, <2>4
    <3>4. /\ \A j \in DOMAIN tokens[s.tok].items : Done(d, j) => j = k \/ Done(s, j)
          /\ \A j \in DOMAIN tokens[s.tok].items : Done(s, j) => Done(d, j) /\ j < k
      BY <1>2, <2>10
    <3>5. UNCHANGED tokens /\ unsure \subseteq unsure'
      BY <2>2, <2>7
    <3>6. d.tok = s.tok /\ s.pc \in Forward /\ LeavesTexts(s) /\ Done(d, k)
      BY <1>4, <1>5, <2>3, <2>10
    <3> QED
      BY <3>1, <3>2, <3>3, <3>4, <3>5, <3>6, TextsWritten
  <2>13. CountsItems(d)'
    <3>1. BackupsKeep(backups, backups') /\ UNCHANGED tokens
      BY <2>2 DEF BackupsKeep, durable
    <3>2. Len(d.baks) <= Len(tokens[s.tok].items) /\ d.pc \notin Backward /\ s.tok \in DOMAIN tokens
      BY <1>2, <1>5, <1>6, <2>3 DEF Backward
    <3> QED
      BY <1>4, <1>5, <1>6, <2>3, <3>1, <3>2, CountsGo
  <2>14. /\ TxnsFit(t)
         /\ \A i \in DOMAIN txns'[s.txn].saves :
                  \/ i \in DOMAIN txns[s.txn].saves /\ txns'[s.txn].saves[i].k = txns[s.txn].saves[i].k
                  \/ txns'[s.txn].saves[i].k = k
    <3>1. AddSavepoint(task[t].txn, Savepoint(Item(t).res, o, Item(t).create, task[t].k))
      BY <1>1, <1>5, <1>7, <2>2
    <3>2. task[t].pc \in {"b_write", "b_wait"} /\ UNCHANGED tokens /\ o = Item(t).old
      BY <1>1, <1>5, <1>7, <2>2, <2>6
    <3> QED
      BY <1>1, <1>7, <3>1, <3>2, AddFits
  <2>15. RecordsDone(d)'
    <3>1. \A i \in DOMAIN txns[s.txn].saves : txns[s.txn].saves[i].k \in 1..(k - 1)
      BY <1>4, <1>5, <1>7 DEF RecordsDone
    <3>2. \A i \in DOMAIN txns'[s.txn].saves : txns'[s.txn].saves[i].k \in 1..(d.k - 1)
      BY <2>3, <2>4, <2>14, <3>1
    <3> QED
      BY <2>3, <3>2 DEF RecordsDone
  <2>16. Recovers(d)'
    BY <2>3, <2>11, <2>12, <2>13, <2>15, BatchRecoversOn DEF Forward
  <2>17. /\ task[t].pc \notin Waiting /\ task[t].pc \in Transacting
         /\ Write(r, v, "apply", task[t].tok) /\ Replace(task[t].tok, k, r)
         /\ d.tok = task[t].tok
    BY <1>1, <1>2, <1>4, <1>5, <2>2, <2>3
  <2>18. UNCHANGED <<tokens, backups, inflight>>
    BY <2>2 DEF durable
  <2> QED
    BY <2>2, <2>14, <2>16, <2>17, <2>18, RecoverWrites
<1>12. CASE BatchDashboard(t)
  <2> DEFINE d == [s EXCEPT !.pc = "b_lock"]
  <2>1. /\ s.pc = "b_item" /\ k \in DOMAIN items /\ task' = [task EXCEPT ![t] = d]
        /\ UNCHANGED <<memory, durable, world>>
    BY <1>1, <1>2, <1>7, <1>12 DEF BatchDashboard, At, MoreItems, Token
  <2>2. /\ d.pc = "b_lock" /\ d.k = k /\ d.n = s.n /\ d.tok = s.tok /\ d.txn = s.txn
        /\ d.baks = s.baks
    BY <1>5, <1>7 DEF Calls
  <2> HIDE DEF d
  <2>3. \A j \in Nat : Done(d, j) <=> Done(s, j)
    BY <1>5, <1>7, <1>8, <2>2, BatchDone
  <2>4. \A j \in DOMAIN tokens[s.tok].items : Done(d, j) <=> Done(s, j)
    BY <1>2, <1>9, <2>3
  <2>5. /\ UNCHANGED tokens /\ UNCHANGED <<tokens, content>> /\ unsure \subseteq unsure'
        /\ UNCHANGED replaced /\ UNCHANGED txns /\ UNCHANGED backups
        /\ s.tok \in DOMAIN tokens
    BY <1>2, <1>5, <2>1 DEF memory, durable, world
  <2>6. FindsAsShown(d)'
    <3>1. \A j \in DOMAIN tokens[s.tok].items :
            Done(d, j) => Done(s, j) /\ replaced'[<<s.tok, j>>] = replaced[<<s.tok, j>>]
      BY <2>4, <2>5
    <3>2. ~AboutToWrite(d) /\ d.pc # "cfg_backup"
      BY <2>2 DEF AboutToWrite, Saving, Holding
    <3> QED
      BY <1>5, <2>2, <2>5, <3>1, <3>2, FoundGoes
  <2>7. LeavesTexts(d)'
    BY <1>4, <1>5, <2>2, <2>4, <2>5, TextsGo
  <2>8. CountsItems(d)'
    <3>1. BackupsKeep(backups, backups')
      BY <2>5 DEF BackupsKeep
    <3>2. Len(d.baks) <= Len(tokens[s.tok].items) /\ d.pc \notin Backward
      BY <1>2, <1>6, <2>2 DEF Backward
    <3> QED
      BY <1>4, <1>5, <1>6, <2>2, <2>5, <3>1, <3>2, CountsGo
  <2>9. RecordsDone(d)'
    BY <1>4, <1>5, <1>7, <2>2, <2>5 DEF RecordsDone
  <2>10. Recovers(d)'
    BY <2>2, <2>6, <2>7, <2>8, <2>9, BatchRecoversOn DEF Forward
  <2>11. TxnsFit(t)
    BY <2>5, SameTxnsFit DEF KnownInv
  <2>12. UNCHANGED <<content, replaced, unsure, inflight>>
    BY <2>1 DEF world
  <2> QED
    BY <1>1, <1>4, <2>1, <2>2, <2>5, <2>10, <2>11, <2>12, RecoverGoes
<1> QED
  BY <1>10, <1>11, <1>12

(* A batch saves its dashboards and records them; it commits, or turns     *)
(* back.                                                                   *)
LEMMA BatchDashboardRecovers ==
  ASSUME KnownInv, TypeInv', TokenInv', RecoveryInv, NEW t \in Tasks,
         \/ BatchFileFails(t) \/ BatchRecheck(t) \/ BatchRefuse(t)
         \/ BatchSaved(t) \/ BatchSaveFails(t) \/ BatchCommit(t)
  PROVE  RecoveryInv'
<1>1. PICK s : s = task[t]
  OBVIOUS
<1>2. PICK tk, items : tk = s.tok /\ items = tokens[tk].items
  OBVIOUS
<1>3. s.pc \in Forward
  BY <1>1 DEF BatchFileFails, BatchRecheck, BatchRefuse, BatchSaved, BatchSaveFails, BatchCommit,
              At, Forward
<1>4. s.pc \in Batching
  BY <1>3 DEF Batching, Forward
<1>5. /\ s \in Calls /\ s.k \in Nat /\ s.n \in Nat
      /\ tk \in DOMAIN tokens /\ tk \in TokenIds
      /\ Len(items) \in Nat /\ DOMAIN items = 1..Len(items)
      /\ FindsAsShown(s) /\ CountsItems(s) /\ RecordsDone(s) /\ LeavesTexts(s)
      /\ s.pc \in Transacting /\ Item(t) = items[s.k]
      /\ s.txn \in DOMAIN txns
  BY <1>1, <1>2, <1>4, BatchIs
<1>6. \A j \in DOMAIN items :
        /\ items[j] \in Items
        /\ items[j].create => items[j].res \in Files /\ items[j].old = Empty
  BY <1>1, <1>2, <1>4, BatchItemIs
<1>7. /\ s.baks \in Seq(Nat)
      /\ Len(s.baks) <= Len(items) /\ Len(s.baks) \in Nat
      /\ s.pc \in {"b_item", "b_lock"} => Len(s.baks) = s.k - 1
      /\ s.pc = "b_wait" => Len(s.baks) = s.k
      /\ s.pc \in {"b_lock", "b_wait"} =>
           s.k \in DOMAIN items /\ items[s.k].res \in Dashboards
      /\ \A j \in DOMAIN s.baks : s.baks[j] # 0 => s.baks[j] \in DOMAIN backups
  BY <1>1, <1>2, <1>4, BatchCounts
<1>8. PICK k, it : k = s.k /\ it = items[k]
  OBVIOUS
<1>9. DOMAIN items \subseteq Nat
  BY <1>5
<1>10. CASE BatchRecheck(t)
  <2>1. s.pc = "b_lock" /\ k \in DOMAIN items
    BY <1>1, <1>7, <1>8, <1>10 DEF BatchRecheck, At
  <2>2. /\ it \in Items /\ it.res \in Dashboards /\ it.res \in Resources /\ it.old \in Contents
        /\ ~it.create
    <3>1. it \in Items /\ it.res \in Dashboards /\ (it.create => it.res \in Files)
      BY <1>6, <1>7, <1>8, <2>1
    <3>2. Files \cap Dashboards = {}
      BY ContextAssumption
    <3> QED
      BY <3>1, <3>2 DEF Items, Resources
  <2>3. PICK got \in Readings(it.res), b \in Nat :
          /\ NotDrifted(got, it.old)
          /\ Send(tk, k, "do", it.res, it.new, got # None)
          /\ unsure' = IF got = None THEN unsure \cup {tk} ELSE unsure
          /\ \/ b = 0 /\ UNCHANGED backups
             \/ b = Len(backups) + 1 /\ BackUp(it.res, it.old)
          /\ task' = [task EXCEPT ![t].pc = "b_wait", ![t].baks = Append(@, b)]
    <3>1. Len(backups) + 1 \in Nat
      <4>1. backups \in Seq(BackupEntries)
        BY DEF KnownInv, TypeInv, TypeOK
      <4>2. Len(backups) \in Nat
        BY <4>1, SeqIsFun
      <4> QED
        BY <4>2
    <3>2. Item(t) = it /\ task[t].tok = tk /\ task[t].k = k
      BY <1>1, <1>2, <1>5, <1>8
    <3>3. PICK got \in Readings(it.res) :
            /\ NotDrifted(got, it.old)
            /\ Send(tk, k, "do", it.res, it.new, got # None)
            /\ unsure' = IF got = None THEN unsure \cup {tk} ELSE unsure
      BY <1>10, <3>2 DEF BatchRecheck
    <3>4. CASE BackupOnWrite /\ it.old # Empty
      <4>1. /\ BackUp(it.res, it.old)
            /\ task' = [task EXCEPT ![t].pc = "b_wait", ![t].baks = Append(@, Len(backups) + 1)]
        BY <1>10, <3>2, <3>4 DEF BatchRecheck
      <4> QED
        BY <3>1, <3>3, <4>1
    <3>5. CASE ~(BackupOnWrite /\ it.old # Empty)
      <4>1. /\ UNCHANGED backups
            /\ task' = [task EXCEPT ![t].pc = "b_wait", ![t].baks = Append(@, 0)]
        BY <1>10, <3>2, <3>5 DEF BatchRecheck
      <4> QED
        BY <3>3, <4>1
    <3> QED
      BY <3>4, <3>5
  <2>4. PICK more : more = Append(s.baks, b)
    OBVIOUS
  <2> DEFINE d == [s EXCEPT !.pc = "b_wait", !.baks = more]
  <2>5. task' = [task EXCEPT ![t] = d]
    BY <1>1, <2>3, <2>4
  <2>6. /\ d.pc = "b_wait" /\ d.k = k /\ d.n = s.n /\ d.tok = s.tok /\ d.txn = s.txn
        /\ d.baks = more /\ d.reply = s.reply
    BY <1>5, <1>8 DEF Calls
  <2> HIDE DEF d
  <2>7. task[t].pc \notin Waiting /\ d.reply = "none"
    <3>1. task[t].pc \notin Waiting
      BY <1>1, <2>1 DEF Waiting
    <3> QED
      BY <1>1, <2>6, <3>1, NoReplyYet DEF KnownInv
  <2>8. /\ Len(more) = k
        /\ \A j \in DOMAIN more : \/ j \in DOMAIN s.baks /\ more[j] = s.baks[j]
                                  \/ j = k /\ more[j] = b
    BY <1>5, <1>7, <1>8, <2>1, <2>3, <2>4, CopyNoted
  <2>9. UNCHANGED backups \/ \E r \in Resources, v \in Contents : BackUp(r, v)
    BY <2>2, <2>3
  <2>10. b = 0 \/ backups'[b].text = it.old
    BY <2>2, <2>3, BackUpKeeps DEF KnownInv
  <2>11. \A j \in Nat : Done(d, j) <=> Done(s, j)
    BY <1>5, <1>8, <2>1, <2>6, <2>7, BatchDone
  <2>12. \A j \in DOMAIN tokens[s.tok].items : Done(d, j) <=> Done(s, j)
    BY <1>2, <1>9, <2>11
  <2>13. /\ UNCHANGED tokens /\ UNCHANGED <<tokens, content>> /\ UNCHANGED <<content, replaced>>
         /\ UNCHANGED replaced /\ UNCHANGED txns /\ s.tok \in DOMAIN tokens
    BY <1>2, <1>5, <1>10 DEF BatchRecheck, memory
  <2>14. unsure \subseteq unsure' /\ (tk \notin unsure' => content[it.res] = it.old)
    BY <2>3 DEF Readings, NotDrifted
  <2>15. FindsAsShown(d)'
    <3>1. tk \notin unsure' => AsFound(tk, k, content[it.res])
      BY <1>2, <1>8, <2>2, <2>14 DEF AsFound
    <3>2. s.tok \notin unsure' => AsFound(s.tok, d.k, content'[tokens[s.tok].items[d.k].res])
      BY <1>2, <1>8, <2>6, <2>13, <3>1
    <3>3. \A j \in DOMAIN tokens[s.tok].items :
            Done(d, j) => Done(s, j) /\ replaced'[<<s.tok, j>>] = replaced[<<s.tok, j>>]
      BY <2>12, <2>13
    <3>4. d.pc # "cfg_backup"
      BY <2>6
    <3> QED
      BY <1>5, <2>6, <2>13, <2>14, <3>2, <3>3, <3>4, FoundGoes
  <2>16. LeavesTexts(d)'
    BY <1>3, <1>5, <2>6, <2>12, <2>13, <2>14, TextsGo
  <2>17. CountsItems(d)'
    <3>1. BackupsKeep(backups, backups')
      BY <2>9, BackupsGrow DEF KnownInv
    <3>2. Len(d.baks) <= Len(tokens[s.tok].items) /\ d.pc \notin Backward
      BY <1>2, <1>5, <2>1, <2>6, <2>8 DEF Backward
    <3>3. \A j \in DOMAIN d.baks :
              \/ j \in DOMAIN s.baks /\ d.baks[j] = s.baks[j]
              \/ d.baks[j] = 0
              \/ backups'[d.baks[j]].text = tokens[s.tok].items[j].old
      BY <1>2, <1>8, <2>6, <2>8, <2>10
    <3> QED
      BY <1>4, <1>5, <1>7, <2>6, <2>13, <3>1, <3>2, <3>3, CountsGo
  <2>18. RecordsDone(d)'
    BY <1>3, <1>5, <1>8, <2>6, <2>13 DEF RecordsDone
  <2>19. Recovers(d)'
    BY <2>6, <2>15, <2>16, <2>17, <2>18, BatchRecoversOn DEF Forward
  <2>20. TxnsFit(t)
    BY <2>13, SameTxnsFit DEF KnownInv
  <2>21. ASSUME NEW e, e.tok = tk, e.k = k, e.dir = "do", e.res = it.res, e.new = it.new
         PROVE  SaveFits(e, d)'
    BY <1>2, <1>8, <2>6, <2>13, <2>21 DEF SaveFits, Holding
  <2>22. \A e : /\ e.tok = tk /\ e.k = k /\ e.dir = "do" /\ e.res = it.res /\ e.new = it.new
                => SaveFits(e, d)'
    BY <2>21
  <2>23. tk = d.tok /\ d.tok \in {0, task[t].tok}
    BY <1>1, <1>2, <2>6
  <2> QED
    BY <2>3, <2>5, <2>7, <2>9, <2>13, <2>14, <2>19, <2>20, <2>22, <2>23, RecoverSends
<1>11. CASE BatchFileFails(t) \/ BatchRefuse(t) \/ BatchSaveFails(t)
  <2>1. /\ Abort(t) /\ UNCHANGED <<tokens, txns, backups, world>>
        /\ task[t].pc = "b_wait" => task[t].reply = "err"
    BY <1>11 DEF BatchFileFails, BatchRefuse, BatchSaveFails, At, memory, durable
  <2> QED
    BY <1>1, <1>3, <2>1, AbortRecovers
<1>12. CASE BatchSaved(t)
  <2> DEFINE d == [s EXCEPT !.pc = "b_item", !.k = k + 1, !.reply = "none"]
  <2>1. /\ s.pc = "b_wait" /\ s.reply = "ok" /\ task' = [task EXCEPT ![t] = d]
        /\ AddSavepoint(s.txn, Savepoint(it.res, it.old, FALSE, k))
        /\ UNCHANGED <<tokens, durable, world>>
    BY <1>1, <1>5, <1>8, <1>12 DEF BatchSaved, At
  <2>2. /\ d.pc = "b_item" /\ d.k = k + 1 /\ d.n = s.n /\ d.tok = s.tok /\ d.txn = s.txn
        /\ d.baks = s.baks
    BY <1>5, <1>8 DEF Calls
  <2> HIDE DEF d
  <2>3. k \in DOMAIN items /\ k \in Nat /\ k > 0 /\ it.res \in Dashboards
    BY <1>5, <1>7, <1>8, <2>1
  <2>4. it.create = FALSE
    <3>1. it \in Items /\ (it.create => it.res \in Files)
      BY <1>6, <1>8, <2>3
    <3>2. Files \cap Dashboards = {}
      BY ContextAssumption
    <3> QED
      BY <2>3, <3>1, <3>2 DEF Items
  <2>5. \A j \in Nat : Done(d, j) <=> Done(s, j)
    <3>1. d.k \in Nat /\ d.n \in Nat /\ d.k - 1 = k
      BY <1>5, <2>2, <2>3
    <3>2. \A j \in Nat : Done(d, j) <=> j \in 1..k
      BY <2>2, <3>1, BatchDone
    <3>3. \A j \in Nat : Done(s, j) <=> j \in 1..k
      BY <1>5, <1>8, <2>1, <2>3, BatchDone
    <3> QED
      BY <3>2, <3>3
  <2>6. \A j \in DOMAIN tokens[s.tok].items : Done(d, j) <=> Done(s, j)
    BY <1>2, <1>9, <2>5
  <2>7. /\ UNCHANGED tokens /\ UNCHANGED <<tokens, content>> /\ unsure \subseteq unsure'
        /\ UNCHANGED replaced /\ UNCHANGED backups /\ s.tok \in DOMAIN tokens
        /\ UNCHANGED <<content, replaced, unsure, inflight>>
    BY <1>2, <1>5, <2>1 DEF durable, world
  <2>8. FindsAsShown(d)'
    <3>1. \A j \in DOMAIN tokens[s.tok].items :
            Done(d, j) => Done(s, j) /\ replaced'[<<s.tok, j>>] = replaced[<<s.tok, j>>]
      BY <2>6, <2>7
    <3>2. ~AboutToWrite(d) /\ d.pc # "cfg_backup"
      BY <2>2 DEF AboutToWrite, Saving, Holding
    <3> QED
      BY <1>5, <2>2, <2>7, <3>1, <3>2, FoundGoes
  <2>9. LeavesTexts(d)'
    BY <1>3, <1>5, <2>2, <2>6, <2>7, TextsGo
  <2>10. CountsItems(d)'
    <3>1. BackupsKeep(backups, backups')
      BY <2>7 DEF BackupsKeep
    <3>2. Len(d.baks) <= Len(tokens[s.tok].items) /\ d.pc \notin Backward
      BY <1>2, <1>7, <2>2 DEF Backward
    <3> QED
      BY <1>4, <1>5, <1>7, <2>2, <2>7, <3>1, <3>2, CountsGo
  <2>11. /\ TxnsFit(t)
         /\ \A i \in DOMAIN txns'[s.txn].saves :
                  \/ i \in DOMAIN txns[s.txn].saves /\ txns'[s.txn].saves[i].k = txns[s.txn].saves[i].k
                  \/ txns'[s.txn].saves[i].k = k
    <3>1. PICK o : o = it.old
      OBVIOUS
    <3>2. AddSavepoint(task[t].txn, Savepoint(Item(t).res, o, Item(t).create, task[t].k))
      BY <1>1, <1>5, <1>8, <2>1, <2>4, <3>1
    <3>3. task[t].pc \in {"b_write", "b_wait"} /\ UNCHANGED tokens /\ o = Item(t).old
      BY <1>1, <1>5, <1>8, <2>1, <2>7, <3>1
    <3> QED
      BY <1>1, <1>8, <3>2, <3>3, AddFits
  <2>12. RecordsDone(d)'
    <3>1. \A i \in DOMAIN txns[s.txn].saves : txns[s.txn].saves[i].k \in 1..(k - 1)
      BY <1>3, <1>5, <1>8 DEF RecordsDone
    <3>2. \A i \in DOMAIN txns'[s.txn].saves : txns'[s.txn].saves[i].k \in 1..(d.k - 1)
      BY <2>2, <2>3, <2>11, <3>1
    <3> QED
      BY <2>2, <3>2 DEF RecordsDone
  <2>13. Recovers(d)'
    BY <2>2, <2>8, <2>9, <2>10, <2>12, BatchRecoversOn DEF Forward
  <2>14. task[t].reply # "none" /\ d.tok \in {0, task[t].tok}
    BY <1>1, <2>1, <2>2
  <2> QED
    BY <2>1, <2>7, <2>11, <2>13, <2>14, RecoverGoes
<1>13. CASE BatchCommit(t)
  <2>1. /\ s.pc = "b_item" /\ Commit(s.txn) /\ task' = [task EXCEPT ![t] = Idle]
        /\ UNCHANGED <<tokens, backups, world>>
    BY <1>1, <1>13 DEF BatchCommit, At, Finish
  <2>2. \A i \in DOMAIN txns[s.txn].saves : Done(s, txns[s.txn].saves[i].k)
    <3>1. \A i \in DOMAIN txns[s.txn].saves : txns[s.txn].saves[i].k \in 1..(s.k - 1)
      BY <1>3, <1>5 DEF RecordsDone
    <3>2. \A j \in 1..(s.k - 1) : j \in Nat
      OBVIOUS
    <3> QED
      BY <1>5, <2>1, <3>1, <3>2, BatchDone
  <2>3. TxnsFit(t)
    BY <1>1, <1>5, <2>1, <2>2, CommitFits DEF world
  <2>4. task[t].pc \notin Waiting
    BY <1>1, <2>1 DEF Waiting
  <2> QED
    BY <2>1, <2>3, <2>4, RecoverEnds DEF world
<1> QED
  BY <1>10, <1>11, <1>12, <1>13

(* What restoring an item writes is, to a reader, what the item replaced.  *)
LEMMA ItemBringsBack ==
  ASSUME KnownInv, RecoveryInv, NEW t \in Tasks, NEW s, s = task[t], s.pc \in Backward, s.k > 0,
         NEW tk, tk = s.tok, tk \notin unsure, NEW it, it = tokens[tk].items[s.k], NEW v,
         \/ it.create /\ v = Absent
         \/ ~it.create /\ v \in {it.old, Written(it.res, it.old)}
  PROVE  Same(it.res, v, replaced[<<tk, s.k>>])
<1>1. s.pc \in Batching
  BY DEF Backward, Batching
<1>2. PICK items, b : items = tokens[tk].items /\ b = replaced[<<tk, s.k>>]
  OBVIOUS
<1>3. /\ s.k \in Nat /\ s.n \in Nat /\ tk \in DOMAIN tokens /\ tokens[tk].action = "batch_apply"
      /\ DOMAIN items = 1..Len(items) /\ Len(items) \in Nat /\ FindsAsShown(s)
  BY <1>1, <1>2, BatchIs
<1>4. Len(s.baks) <= Len(items) /\ Len(s.baks) \in Nat /\ s.k <= s.n /\ s.n <= Len(s.baks)
  BY <1>1, <1>2, BatchCounts
<1>5. s.k \in DOMAIN items /\ s.k \in 1..s.n
  BY <1>3, <1>4
<1>6. Done(s, s.k)
  BY <1>3, <1>5, BatchDone
<1>7. AsFound(tk, s.k, b)
  BY <1>2, <1>3, <1>5, <1>6 DEF FindsAsShown
<1>8. \/ b = Absent /\ it.create
      \/ b = it.old /\ ~it.create
  BY <1>3, <1>7 DEF AsFound
<1>9. CASE it.create
  BY <1>2, <1>8, <1>9 DEF Same
<1>10. CASE ~it.create
  <2>1. it \in Items
    BY <1>1, <1>2, <1>5, BatchItemIs
  <2>2. b = it.old /\ b \in Contents /\ b # Absent
    BY <1>8, <1>10, <2>1, ContextAssumption DEF Items
  <2>3. /\ Written(it.res, b) \in Contents
        /\ Written(it.res, Written(it.res, b)) = Written(it.res, b)
    BY <2>2, ContextAssumption DEF Written
  <2>4. Written(it.res, b) # Absent
    BY <2>3, ContextAssumption
  <2>5. v = b \/ v = Written(it.res, b)
    BY <1>10, <2>2
  <2>6. CASE v = b
    BY <1>2, <2>6 DEF Same
  <2>7. CASE v = Written(it.res, b)
    BY <1>2, <2>2, <2>3, <2>4, <2>7 DEF Same
  <2> QED
    BY <2>5, <2>6, <2>7
<1> QED
  BY <1>9, <1>10

(* A batch that turned back keeps its count of items and its copies.       *)
LEMMA BackCounts ==
  ASSUME KnownInv, RecoveryInv, NEW t \in Tasks, NEW s, s = task[t], s.pc \in Backward,
         NEW d, d.pc \in Backward, d.tok = s.tok, d.n = s.n, d.baks = s.baks,
         d.k <= s.n, d.k \in Nat,
         UNCHANGED <<tokens, backups, replaced>>, unsure \subseteq unsure'
  PROVE  FindsAsShown(d)' /\ CountsItems(d)'
<1>1. s.pc \in Batching
  BY DEF Backward, Batching
<1>2. PICK tk, items : tk = s.tok /\ items = tokens[tk].items
  OBVIOUS
<1>3. /\ s.k \in Nat /\ s.n \in Nat /\ tk \in DOMAIN tokens
      /\ DOMAIN items = 1..Len(items) /\ Len(items) \in Nat /\ FindsAsShown(s) /\ CountsItems(s)
  BY <1>1, <1>2, BatchIs
<1>4. /\ Len(s.baks) <= Len(items) /\ Len(s.baks) \in Nat /\ s.n <= Len(s.baks)
      /\ \A j \in DOMAIN s.baks : s.baks[j] # 0 => s.baks[j] \in DOMAIN backups
  BY <1>1, <1>2, BatchCounts
<1>5. \A j \in DOMAIN tokens[s.tok].items : Done(d, j) <=> Done(s, j)
  <2>1. \A j \in Nat : Done(d, j) <=> Done(s, j)
    BY <1>3, BatchDone
  <2> QED
    BY <1>2, <1>3, <2>1
<1>6. ~AboutToWrite(d) /\ d.pc # "cfg_backup"
  BY DEF AboutToWrite, Saving, Holding, Backward
<1>7. FindsAsShown(d)'
  <2>1. \A j \in DOMAIN tokens[s.tok].items :
          Done(d, j) => Done(s, j) /\ replaced'[<<s.tok, j>>] = replaced[<<s.tok, j>>]
    BY <1>5
  <2>2. UNCHANGED tokens /\ s.tok \in DOMAIN tokens
    BY <1>2, <1>3
  <2> QED
    BY <1>3, <1>6, <2>1, <2>2, FoundGoes
<1>8. CountsItems(d)'
  <2>1. BackupsKeep(backups, backups') /\ UNCHANGED tokens /\ s.tok \in DOMAIN tokens
    BY <1>2, <1>3 DEF BackupsKeep
  <2>2. Len(d.baks) <= Len(tokens[s.tok].items) /\ d.k <= d.n /\ d.n <= Len(d.baks)
    BY <1>2, <1>4
  <2> QED
    BY <1>1, <1>3, <1>4, <2>1, <2>2, CountsGo
<1> QED
  BY <1>7, <1>8

(* A batch restores what it executed, newest first, and reports it failed. *)
LEMMA BatchUndoRecovers ==
  ASSUME KnownInv, TypeInv', TokenInv', RecoveryInv, NEW t \in Tasks,
         \/ BatchUndoFile(t) \/ BatchUndoFileFails(t) \/ BatchUndoCrashes(t)
         \/ BatchUndoDashboard(t) \/ BatchUndone(t) \/ BatchFailed(t)
  PROVE  RecoveryInv'
<1>1. PICK s : s = task[t]
  OBVIOUS
<1>2. PICK tk, items : tk = s.tok /\ items = tokens[tk].items
  OBVIOUS
<1>3. s.pc \in Backward
  BY <1>1 DEF BatchUndoFile, BatchUndoFileFails, BatchUndoCrashes, BatchUndoDashboard, BatchUndone,
              BatchFailed, At, Backward
<1>4. s.pc \in Batching
  BY <1>3 DEF Batching, Backward
<1>5. /\ s \in Calls /\ s.k \in Nat /\ s.n \in Nat
      /\ tk \in DOMAIN tokens /\ tk \in TokenIds
      /\ Len(items) \in Nat /\ DOMAIN items = 1..Len(items)
      /\ CountsItems(s) /\ BringsBack(s)
      /\ s.pc \in Transacting /\ Item(t) = items[s.k]
  BY <1>1, <1>2, <1>4, BatchIs
<1>6. /\ DOMAIN s.baks = 1..Len(s.baks) /\ Len(s.baks) \in Nat /\ Len(s.baks) <= Len(items)
      /\ s.k <= s.n /\ s.n <= Len(s.baks)
      /\ s.pc = "b_uwait" => s.k \in DOMAIN items
  BY <1>1, <1>2, <1>3, <1>4, BatchCounts
<1>7. PICK k, it : k = s.k /\ it = items[k]
  OBVIOUS
<1>8. DOMAIN items \subseteq Nat /\ DOMAIN tokens[s.tok].items \subseteq Nat
  BY <1>2, <1>5
<1>9. k > 0 => /\ k \in DOMAIN items /\ k \in DOMAIN s.baks
               /\ it \in Items /\ (it.create => it.res \in Files) /\ it.create \in BOOLEAN
               /\ it.res \in Resources /\ it.old \in Contents
  <2> SUFFICES ASSUME k > 0
               PROVE  /\ k \in DOMAIN items /\ k \in DOMAIN s.baks
                      /\ it \in Items /\ (it.create => it.res \in Files) /\ it.create \in BOOLEAN
                      /\ it.res \in Resources /\ it.old \in Contents
    OBVIOUS
  <2>1. k \in DOMAIN items /\ k \in DOMAIN s.baks
    BY <1>5, <1>6, <1>7
  <2>2. it \in Items /\ (it.create => it.res \in Files)
    BY <1>1, <1>2, <1>4, <1>7, <2>1, BatchItemIs
  <2> QED
    BY <2>1, <2>2 DEF Items
<1>10. UNCHANGED txns => TxnsFit(t)
  BY SameTxnsFit DEF KnownInv
<1>11. s.pc = "b_undo" => task[t].pc \notin Waiting
  BY <1>1 DEF Waiting
<1>12. CASE BatchUndoFile(t)
  <2>1. PICK v : v = Original(t)
    OBVIOUS
  <2> DEFINE d == [s EXCEPT !.k = k - 1]
  <2>2. /\ s.pc = "b_undo" /\ k > 0 /\ v # None /\ Write(it.res, v, "undo", tk)
        /\ task' = [task EXCEPT ![t] = d]
        /\ UNCHANGED <<memory, durable, inflight, replaced>>
    BY <1>1, <1>2, <1>5, <1>7, <1>12, <2>1 DEF BatchUndoFile, At
  <2>3. /\ d.pc = "b_undo" /\ d.k = k - 1 /\ d.n = s.n /\ d.tok = s.tok
        /\ d.baks = s.baks /\ d.dirty = s.dirty
    BY <1>5, <1>7, <2>2 DEF Calls
  <2> HIDE DEF d
  <2>4. d.pc \in Backward /\ d.k \in Nat /\ d.k <= s.n
    BY <1>5, <1>6, <1>7, <2>2, <2>3 DEF Backward
  <2>5. /\ content' = [content EXCEPT ![it.res] = v] /\ unsure \subseteq unsure'
        /\ it.res \in DOMAIN content
    BY <1>9, <2>2 DEF Write, KnownInv, TypeInv, TypeOK
  <2>6. UNCHANGED <<tokens, backups, replaced>> /\ UNCHANGED <<tokens, replaced>>
        /\ UNCHANGED <<tokens, backups, inflight>> /\ UNCHANGED txns
    BY <2>2 DEF memory, durable
  <2>7. FindsAsShown(d)' /\ CountsItems(d)'
    BY <1>1, <1>3, <2>3, <2>4, <2>5, <2>6, BackCounts
  <2>8. \/ it.create /\ v = Absent
        \/ ~it.create /\ v \in {it.old, Written(it.res, it.old)}
    <3>1. PICK b : b = s.baks[k]
      OBVIOUS
    <3>2. b # 0 => backups[b].text = it.old
      BY <1>2, <1>4, <1>5, <1>7, <1>9, <2>2, <3>1 DEF CountsItems
    <3>3. v = CASE it.create         -> Absent
                [] ~it.create /\ b = 0 -> Written(it.res, it.old)
                [] OTHER -> IF backups[b].kept THEN backups[b].text ELSE None
      BY <1>1, <1>5, <1>7, <2>1, <3>1, Zenon DEF Original
    <3> QED
      BY <1>9, <2>2, <3>2, <3>3
  <2>9. tk \notin unsure => Same(it.res, content'[it.res], replaced[<<tk, k>>])
    <3>1. tk \notin unsure => Same(it.res, v, replaced[<<tk, k>>])
      BY <1>1, <1>2, <1>3, <1>7, <2>2, <2>8, ItemBringsBack
    <3> QED
      BY <2>5, <3>1
  <2>10. \A j \in Nat : /\ PutBack(d, j) <=> j \in k..s.n
                        /\ PutBack(s, j) <=> j \in (k + 1)..s.n
    <3>1. d.n \in Nat /\ d.k + 1 = k
      BY <1>5, <1>7, <2>3
    <3> QED
      BY <1>5, <1>7, <2>2, <2>3, <2>4, <3>1, BatchPutBack
  <2>11. BringsBack(d)'
    <3>1. k \in DOMAIN tokens[s.tok].items /\ k \in Nat /\ k <= s.n /\ s.n \in Nat
      BY <1>2, <1>5, <1>6, <1>7, <1>9, <2>2
    <3>2. \A j \in DOMAIN tokens[s.tok].items : PutBack(d, j) => j = k \/ PutBack(s, j)
      BY <1>8, <2>10, <3>1
    <3>3. \A j \in DOMAIN tokens[s.tok].items : PutBack(s, j) => PutBack(d, j) /\ k < j
      BY <1>8, <2>10, <3>1
    <3>4. PutBack(d, k)
      BY <2>10, <3>1
    <3>5. \A q : q # it.res => content'[q] = content[q]
      BY <2>5
    <3>6. /\ it.res = tokens[s.tok].items[k].res
          /\ s.tok \notin unsure => Same(it.res, content'[it.res], replaced[<<s.tok, k>>])
      BY <1>2, <1>7, <2>9
    <3>7. UNCHANGED <<tokens, replaced>> /\ unsure \subseteq unsure'
      BY <2>5, <2>6
    <3>8. d.tok = s.tok /\ s.pc \in Backward /\ BringsBack(s) /\ d.dirty = s.dirty
      BY <1>3, <1>5, <2>3
    <3> QED
      BY <1>8, <3>1, <3>2, <3>3, <3>4, <3>5, <3>6, <3>7, <3>8, BackWritten
  <2>12. Recovers(d)'
    BY <2>4, <2>7, <2>11, BatchRecoversOn
  <2>13. /\ d.tok = task[t].tok /\ task[t].pc \notin Waiting
         /\ task[t].pc \in Transacting \cup Restoring
         /\ Write(it.res, v, "undo", task[t].tok) /\ UNCHANGED replaced
    BY <1>1, <1>2, <1>5, <1>11, <2>2, <2>3
  <2> QED
    BY <1>10, <2>2, <2>6, <2>12, <2>13, RecoverWrites
<1>13. CASE BatchUndoFileFails(t)
  <2> DEFINE d == [s EXCEPT !.k = k - 1, !.dirty = TRUE]
  <2>1. /\ s.pc = "b_undo" /\ k > 0 /\ task' = [task EXCEPT ![t] = d]
        /\ UNCHANGED <<memory, durable, world>>
    BY <1>1, <1>7, <1>13 DEF BatchUndoFileFails, At
  <2>2. /\ d.pc = "b_undo" /\ d.k = k - 1 /\ d.n = s.n /\ d.tok = s.tok
        /\ d.baks = s.baks /\ d.dirty
    BY <1>5, <1>7, <2>1 DEF Calls
  <2> HIDE DEF d
  <2>3. d.pc \in Backward /\ d.k \in Nat /\ d.k <= s.n
    BY <1>5, <1>6, <1>7, <2>1, <2>2 DEF Backward
  <2>4. /\ UNCHANGED <<tokens, backups, replaced>> /\ UNCHANGED <<tokens, content, replaced>>
        /\ unsure \subseteq unsure' /\ UNCHANGED txns /\ UNCHANGED tokens /\ UNCHANGED backups
        /\ UNCHANGED <<content, replaced, unsure, inflight>>
    BY <2>1 DEF memory, durable, world
  <2>5. FindsAsShown(d)' /\ CountsItems(d)'
    BY <1>1, <1>3, <2>2, <2>3, <2>4, BackCounts
  <2>6. BringsBack(d)'
    BY <1>3, <1>5, <2>2, <2>4, BackGoes
  <2>7. Recovers(d)'
    BY <2>3, <2>5, <2>6, BatchRecoversOn
  <2>8. task[t].pc \notin Waiting /\ d.tok \in {0, task[t].tok}
    BY <1>1, <1>11, <2>1, <2>2
  <2> QED
    BY <1>10, <2>1, <2>4, <2>7, <2>8, RecoverGoes
<1>14. CASE BatchUndoCrashes(t)
  <2>1. /\ task[t].pc \notin Waiting /\ task' = [task EXCEPT ![t] = Idle]
        /\ UNCHANGED <<memory, durable, world>>
    BY <1>1, <1>11, <1>14 DEF BatchUndoCrashes, At, Finish
  <2> QED
    BY <1>10, <2>1, RecoverEnds DEF memory, durable, world
<1>15. CASE BatchUndoDashboard(t)
  <2> DEFINE d == [s EXCEPT !.pc = "b_uwait"]
  <2>1. /\ s.pc = "b_undo" /\ k > 0 /\ task' = [task EXCEPT ![t] = d]
        /\ Send(tk, k, "undo", it.res, it.old, FALSE)
        /\ UNCHANGED <<memory, durable, content, replaced, unsure>>
    BY <1>1, <1>2, <1>5, <1>7, <1>15 DEF BatchUndoDashboard, At
  <2>2. /\ d.pc = "b_uwait" /\ d.k = k /\ d.n = s.n /\ d.tok = s.tok
        /\ d.baks = s.baks /\ d.dirty = s.dirty /\ d.reply = s.reply
    BY <1>5, <1>7 DEF Calls
  <2> HIDE DEF d
  <2>3. d.pc \in Backward /\ d.k \in Nat /\ d.k <= s.n
    BY <1>5, <1>6, <1>7, <2>2 DEF Backward
  <2>4. task[t].pc \notin Waiting /\ d.reply = "none"
    BY <1>1, <1>11, <2>1, <2>2, NoReplyYet DEF KnownInv
  <2>5. /\ UNCHANGED <<tokens, backups, replaced>> /\ UNCHANGED <<tokens, content, replaced>>
        /\ unsure \subseteq unsure' /\ UNCHANGED txns /\ UNCHANGED tokens /\ UNCHANGED backups
        /\ UNCHANGED <<content, replaced>>
    BY <2>1 DEF memory, durable
  <2>6. FindsAsShown(d)' /\ CountsItems(d)'
    BY <1>1, <1>3, <2>2, <2>3, <2>5, BackCounts
  <2>7. BringsBack(d)'
    <3>1. \A j \in Nat : PutBack(d, j) <=> PutBack(s, j)
      <4>1. d.n \in Nat /\ d.k = s.k /\ d.n = s.n
        BY <1>5, <1>7, <2>2
      <4> QED
        BY <1>5, <1>7, <2>1, <2>2, <2>3, <2>4, <4>1, BatchPutBack
    <3>2. \A j \in DOMAIN tokens[s.tok].items : PutBack(d, j) <=> PutBack(s, j)
      BY <1>8, <3>1
    <3> QED
      BY <1>3, <1>5, <2>2, <2>5, <3>2, BackGoes
  <2>8. Recovers(d)'
    BY <2>3, <2>6, <2>7, BatchRecoversOn
  <2>9. ASSUME NEW e, e.tok = tk, e.k = k, e.dir = "undo", e.res = it.res, e.new = it.old
        PROVE  SaveFits(e, d)'
    BY <1>2, <1>7, <2>2, <2>5, <2>9 DEF SaveFits, Holding
  <2>10. \A e : /\ e.tok = tk /\ e.k = k /\ e.dir = "undo" /\ e.res = it.res /\ e.new = it.old
                => SaveFits(e, d)'
    BY <2>9
  <2>11. tk = d.tok /\ d.tok \in {0, task[t].tok}
    BY <1>1, <1>2, <2>2
  <2> QED
    BY <1>10, <2>1, <2>4, <2>5, <2>8, <2>10, <2>11, RecoverSends
<1>16. CASE BatchUndone(t)
  <2> DEFINE d == [s EXCEPT !.pc = "b_undo", !.k = k - 1, !.reply = "none",
                            !.dirty = s.dirty \/ s.reply = "err"]
  <2>1. /\ s.pc = "b_uwait" /\ s.reply # "none" /\ task' = [task EXCEPT ![t] = d]
        /\ UNCHANGED <<memory, durable, world>>
    BY <1>1, <1>7, <1>16 DEF BatchUndone, At
  <2>2. k > 0
    BY <1>5, <1>6, <1>7, <2>1
  <2>3. /\ d.pc = "b_undo" /\ d.k = k - 1 /\ d.n = s.n /\ d.tok = s.tok
        /\ d.baks = s.baks /\ (d.dirty <=> s.dirty \/ s.reply = "err")
    BY <1>5, <1>7, <2>2 DEF Calls
  <2> HIDE DEF d
  <2>4. d.pc \in Backward /\ d.k \in Nat /\ d.k <= s.n
    BY <1>5, <1>6, <1>7, <2>2, <2>3 DEF Backward
  <2>5. /\ UNCHANGED <<tokens, backups, replaced>> /\ UNCHANGED <<tokens, content, replaced>>
        /\ unsure \subseteq unsure' /\ UNCHANGED txns /\ UNCHANGED tokens /\ UNCHANGED backups
        /\ UNCHANGED <<content, replaced, unsure, inflight>>
    BY <2>1 DEF memory, durable, world
  <2>6. FindsAsShown(d)' /\ CountsItems(d)'
    BY <1>1, <1>3, <2>3, <2>4, <2>5, BackCounts
  <2>7. BringsBack(d)'
    <3>1. ASSUME ~d.dirty, NEW j \in Nat PROVE PutBack(d, j) <=> PutBack(s, j)
      <4>1. s.reply = "ok"
        BY <1>5, <2>1, <2>3, <3>1 DEF Calls
      <4>2. d.n \in Nat /\ d.k + 1 = k
        BY <1>5, <1>7, <2>3
      <4>3. PutBack(d, j) <=> j \in k..s.n
        BY <1>5, <2>3, <2>4, <4>2, BatchPutBack
      <4>4. PutBack(s, j) <=> j \in k..s.n
        BY <1>5, <1>6, <1>7, <2>1, <4>1, BatchPutBack
      <4> QED
        BY <4>3, <4>4
    <3>2. ~d.dirty => ~s.dirty /\ \A j \in DOMAIN tokens[s.tok].items : PutBack(d, j) <=> PutBack(s, j)
      BY <1>8, <2>3, <3>1
    <3> QED
      BY <1>3, <1>5, <2>3, <2>5, <3>2, BackGoes
  <2>8. Recovers(d)'
    BY <2>4, <2>6, <2>7, BatchRecoversOn
  <2>9. task[t].reply # "none" /\ d.tok \in {0, task[t].tok}
    BY <1>1, <2>1, <2>3
  <2> QED
    BY <1>10, <2>1, <2>5, <2>8, <2>9, RecoverGoes
<1>17. CASE BatchFailed(t)
  <2>1. /\ task[t].pc \notin Waiting /\ task' = [task EXCEPT ![t] = Idle] /\ Discard(task[t].txn)
        /\ UNCHANGED <<tokens, backups, world>>
    BY <1>1, <1>11, <1>17 DEF BatchFailed, At, Finish
  <2>2. TxnsFit(t)
    BY <2>1, SameTxnsFit DEF KnownInv
  <2> QED
    BY <2>1, <2>2, RecoverEnds DEF world
<1> QED
  BY <1>12, <1>13, <1>14, <1>15, <1>16, <1>17

(* Every step of a batch does.                                             *)
LEMMA BatchRecovers ==
  ASSUME KnownInv, TypeInv', TokenInv', RecoveryInv, NEW t \in Tasks,
         BatchStep(t) \/ \E tk \in DOMAIN tokens : BatchApply(t, tk)
  PROVE  RecoveryInv'
BY BatchApplyRecovers, BatchFileRecovers, BatchDashboardRecovers, BatchUndoRecovers DEF BatchStep

-----------------------------------------------------------------------------
(* What happens beside the handlers.                                       *)

(* The call s is told how its save went, and is c then.                    *)
Answered(s, c, how) ==
  /\ c.pc = s.pc /\ c.tok = s.tok /\ c.txn = s.txn /\ c.k = s.k /\ c.n = s.n
  /\ c.reply = how /\ c.dirty = s.dirty /\ c.baks = s.baks

(* What is known when the save of a call is executed.                      *)
LEMMA SaveIs ==
  ASSUME KnownInv, RecoveryInv, NEW e \in inflight, e.heard, HaSave(e),
         NEW t \in Tasks, AwaitedBy(e, t), NEW s, s = task[t]
  PROVE  /\ s \in Calls /\ s.tok = e.tok /\ s.tok \in DOMAIN tokens /\ s.tok \in TokenIds
         /\ s.pc \in Waiting /\ s.reply = "none" /\ SaveFits(e, s) /\ Recovers(s)
         /\ UNCHANGED <<tokens, txns, backups>> /\ unsure \subseteq unsure'
         /\ content' = [content EXCEPT ![e.res] = e.new] /\ e.res \in DOMAIN content
         /\ e.res \in Dashboards /\ e.dir \in {"do", "undo"}
         /\ e.dir = "do" => Replace(e.tok, e.k, e.res)
         /\ e.dir = "undo" => UNCHANGED replaced
<1>1. s \in Calls
  BY CallFacts DEF KnownInv
<1>2. e.res \in Dashboards /\ e.tok \in TokenIds /\ e.dir \in {"do", "undo"}
  BY DEF KnownInv, TypeInv, TypeOK, Saves
<1>3. e.res \in DOMAIN content
  BY <1>2 DEF KnownInv, TypeInv, TypeOK, Resources
<1>4. s.tok = e.tok /\ s.pc \in Waiting /\ s.reply = "none"
  BY DEF AwaitedBy
<1>5. s.tok \in DOMAIN tokens
  BY <1>4, HeardToken DEF KnownInv, ClobberInv
<1>6. SaveFits(e, s) /\ Recovers(s)
  BY DEF RecoveryInv
<1>7. /\ Write(e.res, e.new, SaveKind(e), e.tok) /\ UNCHANGED <<memory, durable>>
      /\ IF e.dir = "do" THEN Replace(e.tok, e.k, e.res) ELSE UNCHANGED replaced
  BY DEF HaSave
<1>8. UNCHANGED <<tokens, txns, backups>>
  BY <1>7 DEF memory, durable
<1>9. content' = [content EXCEPT ![e.res] = e.new] /\ unsure \subseteq unsure'
  BY <1>7 DEF Write
<1> QED
  BY <1>1, <1>2, <1>3, <1>4, <1>5, <1>6, <1>7, <1>8, <1>9

(* The save of an apply leaves what it promised.                           *)
LEMMA DashboardSaveLands ==
  ASSUME KnownInv, RecoveryInv, NEW e \in inflight, e.heard, HaSave(e),
         NEW t \in Tasks, AwaitedBy(e, t), task[t].pc = "dash_wait",
         NEW c, Answered(task[t], c, "ok")
  PROVE  Recovers(c)'
<1>1. PICK s : s = task[t]
  OBVIOUS
<1>2. PICK tk, r : tk = s.tok /\ r = e.res
  OBVIOUS
<1>3. /\ s \in Calls /\ tk = e.tok /\ tk \in DOMAIN tokens /\ tk \in TokenIds
      /\ s.pc = "dash_wait" /\ s.reply = "none" /\ SaveFits(e, s) /\ Recovers(s)
      /\ UNCHANGED tokens /\ unsure \subseteq unsure' /\ e.heard
  BY <1>1, <1>2, SaveIs
<1>4. c.pc = "dash_wait" /\ c.tok = tk /\ c.k = s.k /\ c.reply = "ok"
  BY <1>1, <1>2, <1>3 DEF Answered
<1>5. s.k = 1 /\ DOMAIN tokens[tk].items = {1}
  BY <1>1, <1>2, <1>3, DashboardItemIs
<1>6. e.dir = "do" /\ e.k = 1 /\ r = tokens[tk].items[1].res
  BY <1>2, <1>3, <1>5 DEF SaveFits, Holding
<1>7. Replace(tk, 1, r)
  BY <1>1, <1>2, <1>3, <1>6, SaveIs
<1>8. replaced'[<<tk, 1>>] = content[r]
  <2>1. replaced \in [TokenIds \X (1..MaxItems) -> Contents \cup {Absent, None}]
    BY DEF KnownInv, TypeInv, TypeOK
  <2>2. 1 \in 1..MaxItems
    BY ContextAssumption
  <2> QED
    BY <1>3, <1>7, <2>1, <2>2 DEF Replace
<1>9. tk \notin unsure => AsFound(tk, 1, content[r])
  BY <1>2, <1>3, <1>5, <1>6 DEF Recovers, FindsAsShown, AboutToWrite, Holding
<1>10. FindsAsShown(c)'
  <2>1. \A j : Done(c, j) => j = 1
    BY <1>4, <1>5, SingleDone
  <2>2. ~AboutToWrite(c) /\ c.pc # "cfg_backup"
    BY <1>4 DEF AboutToWrite, Saving, Holding
  <2>3. \A j \in DOMAIN tokens[s.tok].items :
          Done(c, j) /\ s.tok \notin unsure' => AsFound(s.tok, j, replaced'[<<s.tok, j>>])
    BY <1>2, <1>3, <1>8, <1>9, <2>1
  <2>4. c.tok = s.tok /\ s.tok \in DOMAIN tokens /\ FindsAsShown(s)
    BY <1>2, <1>3, <1>4 DEF Recovers
  <2> QED
    BY <1>3, <2>2, <2>3, <2>4, FoundGoes
<1> QED
  BY <1>4, <1>10, SingleRecovers

(* So does that of a batch item ...                                        *)
LEMMA BatchSaveLands ==
  ASSUME KnownInv, RecoveryInv, NEW e \in inflight, e.heard, HaSave(e),
         NEW t \in Tasks, AwaitedBy(e, t), task[t].pc = "b_wait",
         NEW c, Answered(task[t], c, "ok")
  PROVE  Recovers(c)'
<1>1. PICK s : s = task[t]
  OBVIOUS
<1>2. PICK tk, items : tk = s.tok /\ items = tokens[tk].items
  OBVIOUS
<1>3. PICK k, r : k = s.k /\ r = e.res
  OBVIOUS
<1>4. /\ s \in Calls /\ tk = e.tok /\ tk \in DOMAIN tokens /\ tk \in TokenIds
      /\ s.pc = "b_wait" /\ s.reply = "none" /\ SaveFits(e, s)
      /\ UNCHANGED <<tokens, txns, backups>> /\ unsure \subseteq unsure' /\ e.heard
      /\ content' = [content EXCEPT ![r] = e.new] /\ r \in DOMAIN content /\ r \in Dashboards
  BY <1>1, <1>2, <1>3, SaveIs
<1>5. c.pc = "b_wait" /\ c.tok = tk /\ c.k = k /\ c.n = s.n /\ c.reply = "ok" /\ c.baks = s.baks /\ c.txn = s.txn
  BY <1>1, <1>2, <1>3, <1>4 DEF Answered
<1>6. s.pc \in Batching /\ s.pc \in Forward /\ s.pc \in Holding
  BY <1>4 DEF Batching, Forward, Holding
<1>7. /\ k \in Nat /\ s.n \in Nat
      /\ Len(items) \in Nat /\ DOMAIN items = 1..Len(items) /\ DOMAIN items \subseteq 1..MaxItems
      /\ FindsAsShown(s) /\ CountsItems(s) /\ RecordsDone(s) /\ LeavesTexts(s)
  BY <1>1, <1>2, <1>3, <1>6, BatchIs
<1>8. /\ k \in DOMAIN items /\ Len(s.baks) <= Len(items)
      /\ \A j \in DOMAIN s.baks : s.baks[j] # 0 => s.baks[j] \in DOMAIN backups
  BY <1>1, <1>2, <1>3, <1>4, <1>6, BatchCounts
<1>9. e.dir = "do" /\ e.k = k /\ r = items[k].res /\ e.new = items[k].new
  BY <1>2, <1>3, <1>4, <1>6 DEF SaveFits
<1>10. Replace(tk, k, r)
  BY <1>1, <1>3, <1>4, <1>9, SaveIs
<1>11. /\ replaced'[<<tk, k>>] = content[r]
       /\ \A j : j # k => replaced'[<<tk, j>>] = replaced[<<tk, j>>]
  <2>1. replaced \in [TokenIds \X (1..MaxItems) -> Contents \cup {Absent, None}]
    BY DEF KnownInv, TypeInv, TypeOK
  <2>2. <<tk, k>> \in DOMAIN replaced /\ replaced' = [replaced EXCEPT ![<<tk, k>>] = content[r]]
    BY <1>4, <1>7, <1>8, <1>10, <2>1 DEF Replace
  <2>3. \A j : j # k => <<tk, j>> # <<tk, k>>
    OBVIOUS
  <2> QED
    BY <2>1, <2>2, <2>3
<1>12. \A j \in Nat : /\ Done(c, j) <=> j \in 1..k
                      /\ Done(s, j) <=> j \in 1..(k - 1)
  <2>1. k > 0
    BY <1>7, <1>8
  <2> QED
    BY <1>3, <1>4, <1>5, <1>7, <2>1, BatchDone
<1>13. /\ \A j \in DOMAIN items : Done(c, j) => j = k \/ Done(s, j)
       /\ \A j \in DOMAIN items : Done(s, j) => Done(c, j) /\ j < k
       /\ Done(c, k) /\ DOMAIN items \subseteq Nat
  BY <1>7, <1>8, <1>12
<1>14. FindsAsShown(c)'
  <2>1. tk \notin unsure => AsFound(tk, k, content[r])
    BY <1>2, <1>3, <1>4, <1>6, <1>7, <1>9 DEF FindsAsShown, AboutToWrite
  <2>2. \A j \in DOMAIN tokens[s.tok].items :
           Done(c, j) /\ s.tok \notin unsure' =>
             \/ Done(s, j) /\ replaced'[<<s.tok, j>>] = replaced[<<s.tok, j>>]
             \/ AsFound(s.tok, j, replaced'[<<s.tok, j>>])
    BY <1>2, <1>4, <1>11, <1>13, <2>1
  <2>3. ~AboutToWrite(c) /\ c.pc # "cfg_backup"
    BY <1>5 DEF AboutToWrite, Saving
  <2>4. c.tok = s.tok /\ s.tok \in DOMAIN tokens /\ UNCHANGED tokens
    BY <1>2, <1>4, <1>5
  <2> QED
    BY <1>4, <1>7, <2>2, <2>3, <2>4, FoundGoes
<1>15. LeavesTexts(c)'
  <2>1. \A q : q # r => content'[q] = content[q]
    BY <1>4
  <2>2. r \notin YamlFiles
    BY <1>4, ContextAssumption
  <2>3. content'[r] = Written(r, tokens[s.tok].items[k].new) /\ r = tokens[s.tok].items[k].res
    BY <1>2, <1>4, <1>9, <2>2 DEF Written
  <2>4. k \in DOMAIN tokens[s.tok].items /\ DOMAIN tokens[s.tok].items \subseteq Nat
    BY <1>2, <1>8, <1>13
  <2>5. /\ \A j \in DOMAIN tokens[s.tok].items : Done(c, j) => j = k \/ Done(s, j)
        /\ \A j \in DOMAIN tokens[s.tok].items : Done(s, j) => Done(c, j) /\ j < k
    BY <1>2, <1>13
  <2>6. /\ UNCHANGED tokens /\ unsure \subseteq unsure'
        /\ c.tok = s.tok /\ s.pc \in Forward /\ LeavesTexts(s) /\ Done(c, k)
    BY <1>2, <1>4, <1>5, <1>6, <1>7, <1>13
  <2> QED
    BY <2>1, <2>3, <2>4, <2>5, <2>6, TextsWritten
<1>16. CountsItems(c)'
  <2>1. BackupsKeep(backups, backups') /\ UNCHANGED tokens /\ s.tok \in DOMAIN tokens
    BY <1>2, <1>4 DEF BackupsKeep
  <2>2. Len(c.baks) <= Len(tokens[s.tok].items) /\ c.pc \notin Backward /\ c.tok = s.tok
    BY <1>2, <1>5, <1>8 DEF Backward
  <2> QED
    BY <1>5, <1>6, <1>7, <1>8, <2>1, <2>2, CountsGo
<1>17. RecordsDone(c)'
  BY <1>3, <1>4, <1>5, <1>6, <1>7 DEF RecordsDone
<1> QED
  BY <1>5, <1>14, <1>15, <1>16, <1>17, BatchRecoversOn DEF Forward

(* ... and that of an item that is put back ...                            *)
LEMMA BatchUndoLands ==
  ASSUME KnownInv, RecoveryInv, NEW e \in inflight, e.heard, HaSave(e),
         NEW t \in Tasks, AwaitedBy(e, t), task[t].pc = "b_uwait",
         NEW c, Answered(task[t], c, "ok")
  PROVE  Recovers(c)'
<1>1. PICK s : s = task[t]
  OBVIOUS
<1>2. PICK tk, items : tk = s.tok /\ items = tokens[tk].items
  OBVIOUS
<1>3. PICK k, r : k = s.k /\ r = e.res
  OBVIOUS
<1>4. /\ s \in Calls /\ tk = e.tok /\ tk \in DOMAIN tokens
      /\ s.pc = "b_uwait" /\ s.reply = "none" /\ SaveFits(e, s)
      /\ UNCHANGED <<tokens, txns, backups>> /\ unsure \subseteq unsure' /\ e.heard
      /\ content' = [content EXCEPT ![r] = e.new] /\ r \in DOMAIN content /\ r \in Dashboards
  BY <1>1, <1>2, <1>3, SaveIs
<1>5. /\ c.pc = "b_uwait" /\ c.tok = s.tok /\ c.k = k /\ c.n = s.n /\ c.reply = "ok"
      /\ c.baks = s.baks /\ c.dirty = s.dirty
  BY <1>1, <1>3, <1>4 DEF Answered
<1>6. s.pc \in Batching /\ s.pc \in Backward /\ c.pc \in Backward
  BY <1>4, <1>5 DEF Batching, Backward
<1>7. /\ k \in Nat /\ s.n \in Nat /\ BringsBack(s)
      /\ Len(items) \in Nat /\ DOMAIN items = 1..Len(items)
  BY <1>1, <1>2, <1>3, <1>6, BatchIs
<1>8. k \in DOMAIN items /\ k <= s.n /\ k > 0
  <2>1. k \in DOMAIN items /\ k <= s.n
    BY <1>1, <1>2, <1>3, <1>4, <1>6, BatchCounts
  <2> QED
    BY <1>7, <2>1
<1>9. e.dir = "undo" /\ r = items[k].res /\ e.new = items[k].old
  BY <1>2, <1>3, <1>4 DEF SaveFits
<1>10. UNCHANGED replaced
  BY <1>9, SaveIs
<1>11. FindsAsShown(c)' /\ CountsItems(c)'
  <2>1. UNCHANGED <<tokens, backups, replaced>> /\ c.k <= s.n /\ c.k \in Nat
    BY <1>4, <1>5, <1>7, <1>8, <1>10
  <2> QED
    BY <1>1, <1>4, <1>5, <1>6, <2>1, BackCounts
<1>12. ~items[k].create
  <2>1. items[k].create => items[k].res \in Files
    BY <1>1, <1>2, <1>6, <1>8, BatchItemIs
  <2> QED
    BY <1>4, <1>9, <2>1, ContextAssumption
<1>13. s.tok \notin unsure => Same(r, content'[r], replaced[<<s.tok, k>>])
  <2>1. tk \notin unsure => Same(r, e.new, replaced[<<tk, k>>])
    BY <1>1, <1>2, <1>3, <1>6, <1>8, <1>9, <1>12, ItemBringsBack
  <2> QED
    BY <1>2, <1>4, <2>1
<1>14. \A j \in Nat : /\ PutBack(c, j) <=> j \in k..s.n
                      /\ PutBack(s, j) <=> j \in (k + 1)..s.n
  BY <1>3, <1>4, <1>5, <1>7, <1>8, BatchPutBack
<1>15. BringsBack(c)'
  <2>1. k \in DOMAIN tokens[s.tok].items /\ DOMAIN tokens[s.tok].items \subseteq Nat
    BY <1>2, <1>7, <1>8
  <2>2. \A j \in DOMAIN tokens[s.tok].items : PutBack(c, j) => j = k \/ PutBack(s, j)
    BY <1>7, <1>8, <1>14, <2>1
  <2>3. \A j \in DOMAIN tokens[s.tok].items : PutBack(s, j) => PutBack(c, j) /\ k < j
    BY <1>7, <1>8, <1>14, <2>1
  <2>4. PutBack(c, k)
    BY <1>7, <1>8, <1>14
  <2>5. \A q : q # r => content'[q] = content[q]
    BY <1>4
  <2>6. r = tokens[s.tok].items[k].res /\ UNCHANGED <<tokens, replaced>> /\ unsure \subseteq unsure'
    BY <1>2, <1>4, <1>9, <1>10
  <2> QED
    BY <1>5, <1>6, <1>7, <1>13, <2>1, <2>2, <2>3, <2>4, <2>5, <2>6, BackWritten
<1> QED
  BY <1>6, <1>11, <1>15, BatchRecoversOn

(* ... and that of a savepoint a rollback restores.                        *)
LEMMA RollbackSaveLands ==
  ASSUME KnownInv, RecoveryInv, NEW e \in inflight, e.heard, HaSave(e),
         NEW t \in Tasks, AwaitedBy(e, t), task[t].pc = "rb_wait",
         NEW c, Answered(task[t], c, "ok")
  PROVE  Recovers(c)'
<1>1. PICK s : s = task[t]
  OBVIOUS
<1>2. PICK x : x = s.txn
  OBVIOUS
<1>3. PICK k, sp : k = s.k /\ sp = txns[x].saves[k]
  OBVIOUS
<1>4. /\ s \in Calls /\ s.tok = e.tok
      /\ s.pc = "rb_wait" /\ s.reply = "none" /\ SaveFits(e, s)
      /\ UNCHANGED <<tokens, txns, backups>> /\ unsure \subseteq unsure' /\ e.heard
      /\ content' = [content EXCEPT ![e.res] = e.new] /\ e.res \in DOMAIN content
      /\ e.res \in Dashboards
  BY <1>1, SaveIs
<1>5. /\ c.pc = "rb_wait" /\ c.tok = s.tok /\ c.k = k /\ c.n = s.n /\ c.reply = "ok"
      /\ c.txn = s.txn /\ c.dirty = s.dirty
  BY <1>1, <1>3, <1>4 DEF Answered
<1>6. s.pc \in Restoring /\ c.pc \in Restoring
  BY <1>4, <1>5 DEF Restoring
<1>7. k >= 1
  BY <1>1, <1>3, <1>4, CallFacts DEF CallFits, KnownInv
<1>8. /\ k \in Nat /\ s.n \in Nat /\ RestoresSaves(s) /\ k <= s.n /\ k > 0
      /\ x \in DOMAIN txns /\ txns[x].state = "committed"
      /\ DOMAIN txns[x].saves = 1..Len(txns[x].saves) /\ Len(txns[x].saves) \in Nat
      /\ k \in DOMAIN txns[x].saves
  BY <1>1, <1>2, <1>3, <1>6, <1>7, RollbackIs
<1>9. e.dir = "undo" /\ e.res = sp.res /\ e.new = sp.content
  BY <1>2, <1>3, <1>4 DEF SaveFits
<1>10. UNCHANGED replaced
  BY <1>9, SaveIs
<1>11. txns[x].tok \notin unsure /\ Promised(x, k) => Same(sp.res, content'[sp.res], Before(x, k))
  <2>1. content'[sp.res] = sp.content /\ sp.res \in Dashboards
    BY <1>4, <1>9
  <2> QED
    BY <1>3, <1>8, <2>1, SavepointBringsBack
<1>12. \A j \in Nat : /\ PutBack(c, j) <=> j \in k..s.n
                      /\ PutBack(s, j) <=> j \in (k + 1)..s.n
  BY <1>3, <1>4, <1>5, <1>6, <1>8, RollbackCounts
<1>13. RestoresSaves(c)'
  <2>1. DOMAIN txns[x].saves \subseteq Nat
    BY <1>8
  <2>2. \A j \in DOMAIN txns[x].saves : PutBack(c, j) => j = k \/ PutBack(s, j)
    BY <1>8, <1>12, <2>1
  <2>3. \A j \in DOMAIN txns[x].saves : PutBack(s, j) => PutBack(c, j) /\ k < j
    BY <1>8, <1>12, <2>1
  <2>4. PutBack(c, k)
    BY <1>8, <1>12
  <2>5. \A q : q # sp.res => content'[q] = content[q]
    BY <1>4, <1>9
  <2>6. UNCHANGED <<tokens, txns, replaced>> /\ sp.res = txns[x].saves[k].res /\ c.k <= c.n
    BY <1>3, <1>4, <1>5, <1>8, <1>10
  <2>7. /\ s.pc \in Restoring /\ RestoresSaves(s) /\ unsure \subseteq unsure'
        /\ c.txn = s.txn /\ c.tok = s.tok /\ c.n = s.n /\ c.dirty = s.dirty
        /\ k \in DOMAIN txns[x].saves
    BY <1>4, <1>5, <1>6, <1>8
  <2> QED
    BY <1>2, <1>11, <2>1, <2>2, <2>3, <2>4, <2>5, <2>6, <2>7, RestoringWrites
<1> QED
  BY <1>6, <1>13, RestoringRecovers

(* A save is executed: the call that waits for it has what it promised,    *)
(* and the others are noted.                                               *)
LEMMA SaveRecovers ==
  ASSUME KnownInv, TypeInv', TokenInv', RecoveryInv, NEW e \in inflight, HaSave(e)
  PROVE  RecoveryInv'
<1>1. /\ Write(e.res, e.new, SaveKind(e), IF e.heard THEN e.tok ELSE 0)
      /\ UNCHANGED <<tokens, txns, backups>> /\ inflight' = inflight \ {e}
  BY DEF HaSave, memory, durable
<1>2. unsure \subseteq unsure'
  BY <1>1, WriteIsNoted
<1>3. Grows
  BY <1>1, <1>2, CallGrows DEF KnownInv
<1>4. CASE ~e.heard
  <2>1. Write(e.res, e.new, SaveKind(e), 0)
    BY <1>1, <1>4
  <2>2. UNCHANGED task /\ UNCHANGED replaced /\ UNCHANGED txns
    BY <1>1, <1>4 DEF HaSave
  <2>3. \A u \in Tasks : task[u].tok \in DOMAIN tokens => LeftAlone(task[u].tok)
    BY <2>1, WriteIsNoted, ZeroIsNoToken DEF KnownInv
  <2>4. \A f \in inflight' : f.heard => f \in inflight
    BY <1>1
  <2> QED
    BY <1>3, <2>2, <2>3, <2>4, RecoverStill
<1>5. CASE e.heard
  <2>1. PICK t \in Tasks : AwaitedBy(e, t)
    BY <1>5 DEF KnownInv, ClobberInv, SavesAwaited
  <2>2. PICK c : c = task'[t]
    OBVIOUS
  <2>3. /\ task[t] \in Calls /\ task[t].tok = e.tok /\ task[t].pc \in Waiting /\ e.tok \in TokenIds
        /\ SaveFits(e, task[t])
    BY <1>5, <2>1, SaveIs
  <2>4. /\ Answered(task[t], c, "ok")
        /\ \A u \in Tasks \ {t} : task'[u] = task[u] /\ task[u].tok # e.tok
    <3>1. e.tok # 0
      BY <2>3, ContextAssumption DEF TokenIds
    <3>2. \A u \in Tasks \ {t} : task[u].tok # e.tok
      BY <2>3, <3>1 DEF KnownInv, TokenInv, TokenDrivesOneCall
    <3>3. task' = [u \in Tasks |-> IF task[u].tok = e.tok THEN [task[u] EXCEPT !.reply = "ok"]
                                                          ELSE task[u]]
      BY <1>5 DEF HaSave
    <3>4. c = [task[t] EXCEPT !.reply = "ok"]
      BY <2>2, <2>3, <3>3
    <3>5. Answered(task[t], c, "ok")
      BY <2>3, <3>4 DEF Calls, Answered
    <3> QED
      BY <3>2, <3>3, <3>5
  <2>5. Recovers(c)'
    <3>1. CASE task[t].pc = "dash_wait"
      BY <1>5, <2>1, <2>4, <3>1, DashboardSaveLands
    <3>2. CASE task[t].pc = "b_wait"
      BY <1>5, <2>1, <2>4, <3>2, BatchSaveLands
    <3>3. CASE task[t].pc = "b_uwait"
      BY <1>5, <2>1, <2>4, <3>3, BatchUndoLands
    <3>4. CASE task[t].pc = "rb_wait"
      BY <1>5, <2>1, <2>4, <3>4, RollbackSaveLands
    <3>5. CASE task[t].pc = "rv_wait"
      <4>1. c.pc = "rv_wait"
        BY <2>4, <3>5 DEF Answered
      <4> QED
        BY <4>1, NothingToKeep
    <3> QED
      BY <2>3, <3>1, <3>2, <3>3, <3>4, <3>5 DEF Waiting
  <2>6. OthersLeftAlone(t)
    <3>1. Write(e.res, e.new, SaveKind(e), e.tok)
      BY <1>1, <1>5
    <3> QED
      BY <2>4, <3>1, WriteIsNoted DEF OthersLeftAlone
  <2>7. OnlyOwnReplaced(t)
    <3>1. CASE e.dir = "do"
      <4>1. task[t].pc \in Transacting
        BY <1>5, <2>3, <3>1 DEF SaveFits, Waiting, Transacting
      <4>2. Replace(task[t].tok, e.k, e.res)
        BY <1>5, <2>3, <3>1 DEF HaSave
      <4> QED
        BY <4>1, <4>2, OwnReplaced
    <3>2. CASE e.dir # "do"
      <4>1. UNCHANGED replaced
        BY <3>2 DEF HaSave
      <4> QED
        BY <4>1 DEF OnlyOwnReplaced, StillReplaced
    <3> QED
      BY <3>1, <3>2
  <2>8. SavesKept(t) /\ \A x \in DOMAIN txns' : x \in DOMAIN txns /\ SavesKeep(x)
    BY <1>1 DEF SavesKept, SavesKeep
  <2>9. \A f \in inflight' : f.heard => f \in inflight /\ f.tok # c.tok
    BY <1>1, <1>5, <2>3, <2>4 DEF KnownInv, ClobberInv, SavesAwaited, Answered
  <2> QED
    BY <1>3, <2>2, <2>4, <2>5, <2>6, <2>7, <2>8, <2>9, RecoverActs
<1> QED
  BY <1>4, <1>5

(* A call that hears of an error has its item still to do.                 *)
LEMMA ErrorHeard ==
  ASSUME KnownInv, RecoveryInv, NEW t \in Tasks, task[t].pc \in Waiting, task[t].reply = "none",
         NEW c, Answered(task[t], c, "err"),
         UNCHANGED <<tokens, txns, backups, content, replaced, unsure>>
  PROVE  Recovers(c)'
<1>1. PICK s : s = task[t]
  OBVIOUS
<1>2. /\ s.pc \in Waiting /\ s.reply = "none" /\ Recovers(s)
      /\ c.pc = s.pc /\ c.tok = s.tok /\ c.txn = s.txn /\ c.k = s.k /\ c.n = s.n
      /\ c.reply = "err" /\ c.dirty = s.dirty /\ c.baks = s.baks
  BY <1>1 DEF RecoveryInv, Answered
<1>3. s.tok \in DOMAIN tokens
  BY <1>1, <1>2, CallFacts DEF KnownInv, Waiting
<1>4. \A j : (Done(c, j) <=> Done(s, j)) /\ (PutBack(c, j) <=> PutBack(s, j))
  BY <1>2 DEF Done, PutBack
<1>5. /\ UNCHANGED tokens /\ unsure \subseteq unsure' /\ UNCHANGED replaced
      /\ UNCHANGED <<tokens, content>> /\ UNCHANGED <<tokens, content, replaced>>
      /\ UNCHANGED <<content, tokens, txns, replaced, unsure>> /\ UNCHANGED backups
  OBVIOUS
<1>6. FindsAsShown(c)'
  <2>1. ~AboutToWrite(c) /\ c.pc # "cfg_backup"
    BY <1>2 DEF AboutToWrite, Saving, Waiting
  <2>2. \A j \in DOMAIN tokens[s.tok].items :
          Done(c, j) => Done(s, j) /\ replaced'[<<s.tok, j>>] = replaced[<<s.tok, j>>]
    BY <1>4
  <2>3. c.tok = s.tok /\ FindsAsShown(s)
    BY <1>2 DEF Recovers
  <2> QED
    BY <1>3, <1>5, <2>1, <2>2, <2>3, FoundGoes
<1>7. CASE s.pc = "rv_wait"
  <2>1. c.pc = "rv_wait"
    BY <1>2, <1>7
  <2> QED
    BY <2>1, NothingToKeep
<1>8. CASE s.pc = "dash_wait"
  <2>1. c.pc = "dash_wait"
    BY <1>2, <1>8
  <2> QED
    BY <1>6, <2>1, SingleRecovers
<1>9. CASE s.pc = "rb_wait"
  <2>1. s.pc \in Restoring /\ c.pc \in Restoring
    BY <1>2, <1>9 DEF Restoring
  <2>2. s.k <= s.n
    BY <1>1, <2>1, RollbackIs
  <2>3. RestoresSaves(c)'
    <3>1. c.txn = s.txn /\ c.tok = s.tok /\ c.n = s.n /\ c.k <= c.n /\ RestoresSaves(s)
      BY <1>2, <2>2 DEF Recovers
    <3>2. ~c.dirty => ~s.dirty /\ \A j \in DOMAIN txns[s.txn].saves : PutBack(c, j) <=> PutBack(s, j)
      BY <1>2, <1>4
    <3> QED
      BY <1>5, <2>1, <3>1, <3>2, RestoringGoes
  <2> QED
    BY <2>1, <2>3, RestoringRecovers
<1>10. CASE s.pc \in {"b_wait", "b_uwait"}
  <2>1. s.pc \in Batching
    BY <1>10 DEF Batching
  <2>2. /\ CountsItems(s) /\ RecordsDone(s) /\ LeavesTexts(s) /\ BringsBack(s)
        /\ c.tok = s.tok /\ c.dirty = s.dirty
    BY <1>2 DEF Recovers
  <2>3. CountsItems(c)'
    <3>1. /\ Len(s.baks) <= Len(tokens[s.tok].items)
          /\ s.pc \in Backward => s.k <= s.n /\ s.n <= Len(s.baks)
          /\ \A j \in DOMAIN s.baks : s.baks[j] # 0 => s.baks[j] \in DOMAIN backups
      BY <1>1, <2>1, BatchCounts
    <3>2. /\ Len(c.baks) <= Len(tokens[s.tok].items) /\ c.baks = s.baks
          /\ c.pc \in Backward => c.k <= c.n /\ c.n <= Len(c.baks)
      BY <1>2, <3>1
    <3>3. BackupsKeep(backups, backups')
      BY <1>5 DEF BackupsKeep
    <3> QED
      BY <1>3, <1>5, <2>1, <2>2, <3>1, <3>2, <3>3, CountsGo
  <2>4. CASE s.pc = "b_wait"
    <3>1. s.pc \in Forward /\ c.pc \in Forward
      BY <1>2, <2>4 DEF Forward
    <3>2. LeavesTexts(c)'
      BY <1>4, <1>5, <2>2, <3>1, TextsGo
    <3>3. RecordsDone(c)'
      BY <1>2, <2>2, <3>1 DEF RecordsDone
    <3> QED
      BY <1>6, <2>3, <3>1, <3>2, <3>3, BatchRecoversOn
  <2>5. CASE s.pc = "b_uwait"
    <3>1. s.pc \in Backward /\ c.pc \in Backward
      BY <1>2, <2>5 DEF Backward
    <3>2. BringsBack(c)'
      BY <1>4, <1>5, <2>2, <3>1, BackGoes
    <3> QED
      BY <1>6, <2>3, <3>1, <3>2, BatchRecoversOn
  <2> QED
    BY <1>10, <2>4, <2>5
<1> QED
  BY <1>2, <1>7, <1>8, <1>9, <1>10 DEF Waiting

(* A call hears of an error, or is cancelled.                              *)
LEMMA ErrorRecovers ==
  ASSUME KnownInv, TypeInv', TokenInv', RecoveryInv, NEW t \in Tasks, WsError(t) \/ Cancel(t)
  PROVE  RecoveryInv'
<1>1. UNCHANGED <<tokens, txns, backups, content, replaced, unsure>>
  BY DEF WsError, Cancel, memory, durable
<1>2. Grows
  BY <1>1, CallGrows DEF KnownInv
<1>3. /\ OthersLeftAlone(t) /\ OnlyOwnReplaced(t)
      /\ SavesKept(t) /\ \A x \in DOMAIN txns' : x \in DOMAIN txns /\ SavesKeep(x)
  BY <1>1 DEF OthersLeftAlone, LeftAlone, OnlyOwnReplaced, StillReplaced, SavesKept, SavesKeep
<1>4. task[t] \in Calls
  BY CallFacts DEF KnownInv
<1>5. CASE WsError(t)
  <2>1. PICK e \in inflight :
          /\ e.heard /\ e.tok = task[t].tok
          /\ inflight' = inflight \ {e} \/ inflight' = Unheard(e.tok)
          /\ task' = [task EXCEPT ![t].reply = "err"]
    BY <1>5 DEF WsError
  <2>2. PICK c : c = [task[t] EXCEPT !.reply = "err"]
    OBVIOUS
  <2>3. Answered(task[t], c, "err")
    BY <1>4, <2>2 DEF Calls, Answered
  <2>4. task'[t] = c /\ \A u \in Tasks \ {t} : task'[u] = task[u]
    BY <2>1, <2>2 DEF KnownInv, TypeInv, TypeOK
  <2>5. task[t].pc \in Waiting /\ task[t].reply = "none"
    BY <2>1, NothingHeard
  <2>6. Recovers(c)'
    BY <1>1, <2>3, <2>5, ErrorHeard
  <2>7. \A f \in inflight' : f.heard => f \in inflight /\ f.tok # c.tok
    <3>1. c.tok = e.tok
      BY <2>1, <2>3 DEF Answered
    <3>2. CASE inflight' = inflight \ {e}
      BY <2>1, <3>1, <3>2 DEF KnownInv, ClobberInv, SavesAwaited
    <3>3. CASE inflight' = Unheard(e.tok)
      BY <3>1, <3>3, UnheardIs DEF KnownInv
    <3> QED
      BY <2>1, <3>2, <3>3
  <2> QED
    BY <1>2, <1>3, <2>4, <2>6, <2>7, RecoverActs
<1>6. CASE Cancel(t)
  <2>1. task' = [task EXCEPT ![t] = Idle] /\ inflight' = Unheard(task[t].tok)
    BY <1>6 DEF Cancel
  <2>2. PICK c : c = Idle
    OBVIOUS
  <2>3. task'[t] = c /\ \A u \in Tasks \ {t} : task'[u] = task[u]
    BY <2>1, <2>2 DEF KnownInv, TypeInv, TypeOK
  <2>4. c.pc = "idle" /\ c.tok = 0
    BY <2>2 DEF Idle
  <2>5. Recovers(c)'
    BY <2>4, NothingToKeep
  <2>6. ASSUME NEW f \in inflight', f.heard PROVE f \in inflight /\ f.tok # c.tok
    <3>1. f \in inflight
      BY <2>1, <2>6, UnheardIs DEF KnownInv
    <3>2. f.tok \in TokenIds /\ 0 \notin TokenIds
      BY <3>1, ContextAssumption DEF KnownInv, TypeInv, TypeOK, Saves, TokenIds
    <3> QED
      BY <2>4, <3>1, <3>2
  <2> QED
    BY <1>2, <1>3, <2>3, <2>5, <2>6, RecoverActs
<1> QED
  BY <1>5, <1>6

(* People write what they like, and backups are pruned.                    *)
LEMMA WorldRecovers ==
  ASSUME KnownInv, RecoveryInv,
         \/ \E r \in Resources, v \in Texts \cup {Absent} : OutsideEdit(r, v)
         \/ \E tk : PruneConfirm(tk)
  PROVE  RecoveryInv'
<1>1. ASSUME NEW r \in Resources, NEW v \in Texts \cup {Absent}, OutsideEdit(r, v)
      PROVE  RecoveryInv'
  <2>1. /\ Write(r, v, "outside", 0) /\ UNCHANGED <<tokens, backups>>
        /\ UNCHANGED task /\ UNCHANGED replaced /\ UNCHANGED txns /\ UNCHANGED inflight
    BY <1>1 DEF OutsideEdit, memory, durable, sched
  <2>2. unsure \subseteq unsure'
    BY <2>1, WriteIsNoted
  <2>3. \A u \in Tasks : task[u].tok \in DOMAIN tokens => LeftAlone(task[u].tok)
    BY <2>1, WriteIsNoted, ZeroIsNoToken DEF KnownInv
  <2>4. Grows
    BY <2>1, <2>2, CallGrows DEF KnownInv
  <2> QED
    BY <2>1, <2>3, <2>4, RecoverStill
<1>2. ASSUME NEW tk, PruneConfirm(tk) PROVE RecoveryInv'
  <2>1. /\ ClaimToken(tk) /\ UNCHANGED <<content, unsure>>
        /\ UNCHANGED task /\ UNCHANGED replaced /\ UNCHANGED txns /\ UNCHANGED inflight
    BY <1>2 DEF PruneConfirm, sched, world
  <2>2. BackupsKeep(backups, backups')
    <3>1. backups \in Seq(BackupEntries)
      BY DEF KnownInv, TypeInv, TypeOK
    <3>2. \A b \in DOMAIN backups : backups[b] \in BackupEntries
      BY <3>1, SeqIsFun
    <3> QED
      BY <1>2, <3>2 DEF PruneConfirm, BackupsKeep, BackupEntries
  <2>3. Grows
    BY <2>1, <2>2, TokensGrow DEF Grows, KnownInv
  <2>4. \A u \in Tasks : LeftAlone(task[u].tok)
    BY <2>1 DEF LeftAlone
  <2> QED
    BY <2>1, <2>3, <2>4, RecoverStill
<1> QED
  BY <1>1, <1>2

(* After a restart nobody is on the way anywhere, and what was committed   *)
(* is forgotten.                                                           *)
LEMMA RestartRecovers ==
  ASSUME KnownInv, RecoveryInv, Restart
  PROVE  RecoveryInv'
<1>1. /\ \A t \in Tasks : task'[t] = Idle
      /\ inflight' = {[e EXCEPT !.heard = FALSE] : e \in inflight}
      /\ UNCHANGED <<backups, content, replaced, unsure>>
  BY DEF Restart, durable
<1>2. /\ TokensKeep(tokens, tokens') /\ DOMAIN tokens' = DOMAIN tokens
      /\ \A tk \in DOMAIN tokens : tokens'[tk].txn = tokens[tk].txn
  <2>1. tokens \in Seq(Tokens)
    BY DEF KnownInv, TypeInv, TypeOK
  <2>2. \A i \in DOMAIN tokens : tokens[i] \in Tokens
    BY <2>1, SeqIsFun
  <2> QED
    BY <2>2 DEF Restart, TokensKeep, Tokens
<1>3. Grows
  BY <1>1, <1>2, BackupsGrow DEF Grows, KnownInv
<1>4. DOMAIN txns' = DOMAIN txns /\ \A x \in DOMAIN txns : SavesKeep(x)
  <2>1. txns \in Seq(Txns)
    BY DEF KnownInv, TypeInv, TypeOK
  <2>2. \A x \in DOMAIN txns : txns[x] \in Txns
    BY <2>1, SeqIsFun
  <2> QED
    BY <2>2 DEF Restart, SavesKeep, Txns
<1>5. PICK t : t \notin Tasks
  BY ContextAssumption
<1>6. \A tk \in DOMAIN tokens' : TokenFits(tk)'
  BY <1>3, <1>4, TokensStillFit DEF SavesKept
<1>7. ASSUME NEW x \in DOMAIN txns', NEW i \in DOMAIN txns'[x].saves PROVE SavepointFits(x, i)'
  <2>1. x \in DOMAIN txns /\ SavesKeep(x) /\ txns[x].tok \in DOMAIN tokens
    BY <1>4 DEF KnownInv, UndoInv, TransactionsAreOwn
  <2>2. i \in DOMAIN txns[x].saves /\ StillReplaced(txns[x].tok)
    BY <1>1, <2>1 DEF SavesKeep, StillReplaced
  <2>3. SavepointFits(x, i)
    BY <2>1, <2>2 DEF RecoveryInv
  <2> QED
    BY <1>3, <2>1, <2>2, <2>3, SavepointStays
<1>8. ASSUME NEW u \in Tasks PROVE Recovers(task[u])'
  <2>1. PICK c : c = Idle
    OBVIOUS
  <2>2. c.pc = "idle"
    BY <2>1 DEF Idle
  <2>3. Recovers(c)'
    BY <2>2, NothingToKeep
  <2>4. c = task'[u]
    BY <1>1, <2>1
  <2> QED
    BY <2>3, <2>4 DEF Recovers, FindsAsShown, CountsItems, RecordsDone, LeavesTexts, BringsBack, RestoresSaves
<1>9. ASSUME NEW e \in inflight', NEW u \in Tasks PROVE SaveFits(e, task[u])'
  <2>1. ~e.heard
    <3>1. inflight \subseteq Saves
      BY DEF KnownInv, TypeInv, TypeOK
    <3> QED
      BY <1>1, <1>9, <3>1 DEF Saves
  <2> QED
    BY <2>1 DEF SaveFits
<1> QED
  BY <1>6, <1>7, <1>8, <1>9 DEF RecoveryInv

-----------------------------------------------------------------------------
(* Previews.                                                               *)

(* A new token is the next one, and the others are as they were.           *)
LEMMA IssuedIs ==
  ASSUME TypeInv, NEW act, NEW items, NEW x, CreateToken(act, items, x)
  PROVE  \E n \in TokenIds \ DOMAIN tokens :
           /\ DOMAIN tokens' = DOMAIN tokens \cup {n}
           /\ tokens'[n].action = act /\ tokens'[n].items = items /\ tokens'[n].txn = x
           /\ \A i \in DOMAIN tokens : tokens'[i] = tokens[i]
<1> DEFINE new == [action |-> act, items |-> items, txn |-> x, state |-> "live"]
           S   == Tokens \cup {new}
           n   == Len(tokens) + 1
<1>1. /\ tokens \in [1..Len(tokens) -> Tokens] /\ Len(tokens) \in Nat
      /\ DOMAIN tokens = 1..Len(tokens)
  BY SeqIsFun DEF TypeInv, TypeOK
<1>2. tokens \in Seq(S)
  <2>1. tokens \in [1..Len(tokens) -> S]
    BY <1>1
  <2> HIDE DEF S
  <2> QED
    BY <1>1, <2>1, FunIsSeq
<1>3. /\ tokens' = Append(tokens, new) /\ new \in S
      /\ new.action = act /\ new.items = items /\ new.txn = x
  BY DEF CreateToken
<1>4. n \in TokenIds /\ n \notin DOMAIN tokens
  BY <1>1, ContextAssumption DEF CreateToken, TokenIds
<1> HIDE DEF S, new
<1>5. /\ DOMAIN tokens' = DOMAIN tokens \cup {n} /\ tokens'[n] = new
      /\ \A i \in DOMAIN tokens : tokens'[i] = tokens[i]
  BY <1>1, <1>2, <1>3, SeqAppend
<1> QED
  BY <1>3, <1>4, <1>5

(* The calls in progress do not see it.                                    *)
LEMMA CallsUnmoved ==
  ASSUME NEW c, c.tok \in DOMAIN tokens, DOMAIN tokens \subseteq DOMAIN tokens',
         \A i \in DOMAIN tokens : tokens'[i] = tokens[i],
         c.pc \in Restoring => txns[c.txn].tok \in DOMAIN tokens,
         UNCHANGED <<content, txns, backups, replaced, unsure>>, Recovers(c)
  PROVE  Recovers(c)'
<1>1. PICK tk : tk = c.tok
  OBVIOUS
<1>2. tokens'[tk] = tokens[tk] /\ tk \in DOMAIN tokens'
  BY <1>1
<1>3. /\ FindsAsShown(c) /\ CountsItems(c) /\ RecordsDone(c)
      /\ LeavesTexts(c) /\ BringsBack(c) /\ RestoresSaves(c)
  BY DEF Recovers
<1>4. FindsAsShown(c)'
  <2>1. \A k, v : AsFound(tk, k, v)' <=> AsFound(tk, k, v')
    BY <1>2 DEF AsFound
  <2>2. ASSUME NEW j, Done(c, j)' PROVE Done(c, j)
    BY <2>2 DEF Done
  <2>3. AboutToWrite(c)' <=> AboutToWrite(c)
    BY DEF AboutToWrite
  <2> QED
    BY <1>1, <1>2, <1>3, <2>2, <2>3 DEF FindsAsShown, AsFound
<1>5. CountsItems(c)' /\ RecordsDone(c)'
  BY <1>1, <1>2, <1>3 DEF CountsItems, RecordsDone
<1>6. LeavesTexts(c)'
  BY <1>1, <1>2, <1>3 DEF LeavesTexts, Done, Written
<1>7. BringsBack(c)'
  BY <1>1, <1>2, <1>3 DEF BringsBack, PutBack, Same, Written
<1>8. RestoresSaves(c)'
  <2>1. c.pc \in Restoring => tokens'[txns[c.txn].tok] = tokens[txns[c.txn].tok]
    OBVIOUS
  <2> QED
    BY <1>3, <2>1 DEF RestoresSaves, PutBack, Promised, Before, Same, Written
<1> QED
  BY <1>4, <1>5, <1>6, <1>7, <1>8 DEF Recovers

(* A token is issued that says what it does.                               *)
LEMMA RecoverIssue ==
  ASSUME KnownInv, RecoveryInv, NEW act, NEW items, NEW x, CreateToken(act, items, x),
         \A k \in DOMAIN items :
           items[k].create => /\ act \in {"batch_apply", "rollback"}
                              /\ act = "batch_apply" => items[k].res \in Files,
         act = "rollback" =>
           /\ x \in DOMAIN txns /\ txns[x].state # "open"
           /\ \A i \in DOMAIN txns[x].saves :
                \E k \in DOMAIN items : items[k].res = txns[x].saves[i].res,
         UNCHANGED <<txns, durable, sched, world>>
  PROVE  RecoveryInv'
<1>1. PICK n \in TokenIds \ DOMAIN tokens :
        /\ DOMAIN tokens' = DOMAIN tokens \cup {n}
        /\ tokens'[n].action = act /\ tokens'[n].items = items /\ tokens'[n].txn = x
        /\ \A i \in DOMAIN tokens : tokens'[i] = tokens[i]
  BY IssuedIs DEF KnownInv
<1>2. UNCHANGED <<content, txns, backups, replaced, unsure>> /\ UNCHANGED <<task, inflight>>
  BY DEF durable, sched, world
<1>3. ASSUME NEW tk \in DOMAIN tokens' PROVE TokenFits(tk)'
  <2>1. CASE tk = n
    <3>1. (act = "rollback" => \A i \in DOMAIN txns[x].saves : txns[x].saves[i].res \in Targets(n)')
      BY <1>1 DEF Targets
    <3> QED
      BY <1>1, <1>2, <2>1, <3>1 DEF TokenFits
  <2>2. CASE tk # n
    <3>1. tk \in DOMAIN tokens /\ tokens'[tk] = tokens[tk]
      BY <1>1, <2>2
    <3>2. Targets(tk)' = Targets(tk) /\ TokenFits(tk)
      BY <3>1 DEF Targets, RecoveryInv
    <3> QED
      BY <1>2, <3>1, <3>2 DEF TokenFits
  <2> QED
    BY <2>1, <2>2
<1>4. ASSUME NEW y \in DOMAIN txns', NEW i \in DOMAIN txns'[y].saves PROVE SavepointFits(y, i)'
  <2>1. /\ y \in DOMAIN txns /\ i \in DOMAIN txns[y].saves
        /\ txns[y].tok \in DOMAIN tokens /\ tokens'[txns[y].tok] = tokens[txns[y].tok]
    BY <1>1, <1>2 DEF KnownInv, UndoInv, TransactionsAreOwn
  <2>2. SavepointFits(y, i)
    BY <2>1 DEF RecoveryInv
  <2> QED
    BY <1>2, <2>1, <2>2 DEF SavepointFits, AsFound
<1>5. ASSUME NEW u \in Tasks PROVE Recovers(task[u])'
  <2>1. PICK c : c = task[u]
    OBVIOUS
  <2>2. Recovers(c)'
    <3>1. CASE c.tok \in DOMAIN tokens
      <4>1. c.pc \in Restoring => txns[c.txn].tok \in DOMAIN tokens
        BY <2>1, RestoredSaves
      <4>2. Recovers(c) /\ DOMAIN tokens \subseteq DOMAIN tokens'
        BY <1>1, <2>1 DEF RecoveryInv
      <4> QED
        BY <1>1, <1>2, <3>1, <4>1, <4>2, CallsUnmoved
    <3>2. CASE c.tok \notin DOMAIN tokens
      <4>1. c.pc \in {"idle", "rb_claim"}
        BY <2>1, <3>2, CallFacts DEF KnownInv
      <4> QED
        BY <4>1, NothingToKeep
    <3> QED
      BY <3>1, <3>2
  <2>3. c = task'[u]
    BY <1>2, <2>1
  <2> QED
    BY <2>2, <2>3 DEF Recovers, FindsAsShown, CountsItems, RecordsDone, LeavesTexts, BringsBack, RestoresSaves
<1>6. ASSUME NEW e \in inflight', NEW u \in Tasks PROVE SaveFits(e, task[u])'
  <2> SUFFICES ASSUME e.heard, e.tok = task[u].tok PROVE SaveFits(e, task[u])'
    BY <1>2 DEF SaveFits
  <2>1. task[u].tok \in DOMAIN tokens /\ e \in inflight
    BY <1>2, HeardToken DEF KnownInv, ClobberInv
  <2>2. SaveFits(e, task[u]) /\ tokens'[task[u].tok] = tokens[task[u].tok]
    BY <1>1, <2>1 DEF RecoveryInv
  <2> QED
    BY <1>2, <2>2 DEF SaveFits
<1> QED
  BY <1>3, <1>4, <1>5, <1>6 DEF RecoveryInv

(* Every preview does: only a batch creates, and only files; a rollback    *)
(* shows each of its targets.                                              *)
LEMMA RecoverPreview ==
  ASSUME KnownInv, RecoveryInv, Preview
  PROVE  RecoveryInv'
<1> DEFINE Rest == UNCHANGED <<txns, durable, sched, world>>
<1>1. ASSUME NEW act, act # "rollback", NEW it, it.create = FALSE, CreateToken(act, <<it>>, 0), Rest
      PROVE  RecoveryInv'
  <2>1. \A k \in DOMAIN <<it>> : ~<<it>>[k].create
    BY <1>1
  <2> QED
    BY <1>1, <2>1, RecoverIssue
<1>2. ASSUME NEW p \in Files, NEW c, ConfigPatch(p, c) \/ ConfigCreate(p, c) PROVE RecoveryInv'
  <2>1. PICK old : CreateToken("config_apply", <<ConfigItem(p, old, c)>>, 0) /\ Rest
    BY <1>2 DEF ConfigPatch, ConfigCreate
  <2> QED
    BY <1>1, <2>1 DEF ConfigItem
<1>3. ASSUME NEW d, NEW c, DashboardDiff(d, c) \/ DashboardPatch(d, c) PROVE RecoveryInv'
  <2>1. PICK old : CreateToken("dashboard_apply", <<DashboardItem(d, old, c)>>, 0) /\ Rest
    BY <1>3 DEF DashboardDiff, DashboardPatch
  <2> QED
    BY <1>1, <2>1 DEF DashboardItem
<1>4. ASSUME NEW b, RevertPreview(b) PROVE RecoveryInv'
  <2>1. PICK it : it = [res |-> backups[b].res, old |-> OrEmpty(content[backups[b].res]),
                        new |-> backups[b].text, create |-> FALSE]
    OBVIOUS
  <2>2. CreateToken("backup_revert", <<it>>, 0) /\ Rest /\ it.create = FALSE
    BY <1>4, <2>1 DEF RevertPreview
  <2> QED
    BY <1>1, <2>2
<1>5. CASE PrunePreview
  <2>1. CreateToken("backup_prune", <<>>, 0) /\ Rest
    BY <1>5 DEF PrunePreview
  <2>2. DOMAIN <<>> = {}
    OBVIOUS
  <2>3. \A k \in DOMAIN <<>> : ~<<>>[k].create
    BY <2>2
  <2> QED
    BY <2>1, <2>2, <2>3, RecoverIssue
<1>6. ASSUME NEW x \in DOMAIN txns, RollbackPreview(x) PROVE RecoveryInv'
  <2> DEFINE items == [i \in DOMAIN txns[x].saves |->
          LET sp == txns[x].saves[i]
          IN  [res |-> sp.res, old |-> OrEmpty(content[sp.res]),
               new |-> sp.content, create |-> sp.created]]
  <2>1. CreateToken("rollback", items, x) /\ Rest /\ txns[x].state = "committed"
    BY <1>6 DEF RollbackPreview, CanRollBack
  <2>2. \A i \in DOMAIN txns[x].saves : i \in DOMAIN items /\ items[i].res = txns[x].saves[i].res
    OBVIOUS
  <2> HIDE DEF items
  <2> QED
    BY <2>1, <2>2, RecoverIssue
<1>7. ASSUME NEW m \in 1..MaxItems, NEW rs \in [1..m -> Resources], NEW cs \in [1..m -> Texts],
             BatchPreview(rs, cs)
      PROVE  RecoveryInv'
  <2> DEFINE items == [k \in DOMAIN rs |-> PreparedItem(rs, cs, k)]
  <2>1. CreateToken("batch_apply", items, 0) /\ Rest
    BY <1>7 DEF BatchPreview
  <2>2. ASSUME NEW k \in DOMAIN items, items[k].create PROVE items[k].res \in Files
    <3>1. Prepared(rs, cs, k) = Absent /\ items[k].res = rs[k]
      BY <2>2 DEF PreparedItem
    <3>2. rs[k] \notin Dashboards /\ rs[k] \in Resources
      BY <1>7, <2>2, <3>1 DEF BatchPreview
    <3> QED
      BY <3>1, <3>2 DEF Resources
  <2> HIDE DEF items
  <2> QED
    BY <2>1, <2>2, RecoverIssue
<1> QED
  BY <1>2, <1>3, <1>4, <1>5, <1>6, <1>7 DEF Preview

-----------------------------------------------------------------------------
(* Every step, and the theorems.                                           *)

(* Every step keeps the way on, and the way back.                          *)
LEMMA RecoveryNext ==
  ASSUME KnownInv, TypeInv', TokenInv', RecoveryInv, [Next]_vars
  PROVE  RecoveryInv'
<1>1. ASSUME NEW t \in Tasks, Start(t) \/ Step(t) PROVE RecoveryInv'
  BY <1>1, ConfigRecovers, DashboardRecovers, RollbackRecovers, RevertRecovers, BatchRecovers
  DEF Start, Step
<1>2. ASSUME NEW t \in Tasks, Answer(t) \/ Cancel(t) PROVE RecoveryInv'
  <2>1. CASE Cancel(t)
    BY <2>1, ErrorRecovers
  <2>2. CASE Answer(t)
    BY <2>2, SaveRecovers, ErrorRecovers DEF Answer
  <2> QED
    BY <1>2, <2>1, <2>2
<1>3. ASSUME Environment PROVE RecoveryInv'
  BY <1>3, WorldRecovers, SaveRecovers, RestartRecovers DEF Environment
<1>4. ASSUME NEW tk, PruneConfirm(tk) PROVE RecoveryInv'
  BY <1>4, WorldRecovers
<1>5. ASSUME UNCHANGED vars PROVE RecoveryInv'
  <2>1. /\ UNCHANGED <<tokens, backups>> /\ UNCHANGED task /\ UNCHANGED replaced
        /\ UNCHANGED txns /\ UNCHANGED inflight /\ UNCHANGED <<content, unsure>>
    BY <1>5 DEF vars, memory, durable, sched, world
  <2>2. Grows
    BY <2>1, CallGrows DEF KnownInv
  <2>3. \A u \in Tasks : LeftAlone(task[u].tok)
    BY <2>1 DEF LeftAlone
  <2> QED
    BY <2>1, <2>2, <2>3, RecoverStill
<1> QED
  BY <1>1, <1>2, <1>3, <1>4, <1>5, RecoverPreview DEF Next

(* Nobody is on the way anywhere at the start.                             *)
LEMMA InitRecovery == Init => RecoveryInv
<1> SUFFICES ASSUME Init PROVE RecoveryInv
  OBVIOUS
<1>1. DOMAIN tokens = {} /\ DOMAIN txns = {} /\ inflight = {}
  BY DEF Init
<1>2. \A t \in Tasks : task[t].pc = "idle"
  BY DEF Init, Idle
<1>3. \A t \in Tasks : Recovers(task[t])
  BY <1>2, NothingToKeep
<1> QED
  BY <1>1, <1>3 DEF RecoveryInv

(* In every state a call can go on, or back, to what was promised.         *)
LEMMA RecoveryInvariant == Spec => [](KnownInv /\ RecoveryInv)
<1>1. KnownInv /\ TypeInv' /\ TokenInv' /\ RecoveryInv /\ [Next]_vars => RecoveryInv'
  BY RecoveryNext
<1>2. TypeInv /\ TokenInv /\ ClobberInv /\ UndoInv /\ BackupInv <=> KnownInv
  BY DEF KnownInv
<1> QED
  BY <1>1, <1>2, InitRecovery, TokensAreSpent, ClobberInvariant, UndoInvariant, BackupInvariant,
     PTL DEF Spec

(* A batch that reports success has left every target as its last item     *)
(* says; one that reports failure, and nothing it could not restore, has   *)
(* left every target as it was before the batch -- for any number of       *)
(* items, also several on one target, and beside any other call, unless    *)
(* somebody wrote to its targets meanwhile.                                *)
THEOREM BatchesAreWhole == Spec => []BatchAllOrNothing
<1>1. ASSUME KnownInv, RecoveryInv PROVE BatchAllOrNothing
  <2>1. ASSUME NEW t \in Tasks, task[t].pc = "b_item", task[t].tok \notin unsure, ~MoreItems(t),
               NEW k \in DOMAIN Token(t).items, LastItem(Token(t).items, k)
        PROVE  content[Token(t).items[k].res]
                 = Written(Token(t).items[k].res, Token(t).items[k].new)
    <3>1. PICK s, items : s = task[t] /\ items = tokens[s.tok].items
      OBVIOUS
    <3>2. s.pc \in Batching /\ s.pc \in Forward /\ s.pc = "b_item" /\ items = Token(t).items
      BY <2>1, <3>1 DEF Batching, Forward, Token
    <3>3. /\ s.k \in Nat /\ s.n \in Nat /\ LeavesTexts(s)
          /\ DOMAIN items = 1..Len(items) /\ Len(items) \in Nat
      BY <1>1, <3>1, <3>2, BatchIs
    <3>4. Len(s.baks) \in Nat /\ Len(s.baks) <= Len(items) /\ Len(s.baks) = s.k - 1 /\ s.k >= 1
      BY <1>1, <3>1, <3>2, BatchCounts
    <3>5. s.k \notin DOMAIN items
      BY <2>1, <3>1, <3>2 DEF MoreItems
    <3>6. \A j \in DOMAIN items : j \in Nat /\ j \in 1..(s.k - 1)
      BY <3>3, <3>4, <3>5
    <3>7. \A j \in DOMAIN items : Done(s, j)
      BY <3>2, <3>3, <3>6, BatchDone
    <3> QED
      BY <2>1, <3>1, <3>2, <3>7, <3>3 DEF LeavesTexts, LastItem
  <2>2. ASSUME NEW t \in Tasks, task[t].pc = "b_undo", task[t].tok \notin unsure,
               task[t].k = 0, ~task[t].dirty, NEW k \in 1..task[t].n,
               \A j \in 1..(k - 1) : Token(t).items[j].res # Token(t).items[k].res
        PROVE  Same(Token(t).items[k].res, content[Token(t).items[k].res],
                    replaced[<<task[t].tok, k>>])
    <3>1. PICK s, items : s = task[t] /\ items = tokens[s.tok].items
      OBVIOUS
    <3>2. s.pc \in Batching /\ s.pc \in Backward /\ s.pc = "b_undo" /\ items = Token(t).items
      BY <2>2, <3>1 DEF Batching, Backward, Token
    <3>3. /\ s.k \in Nat /\ s.n \in Nat /\ BringsBack(s)
          /\ DOMAIN items = 1..Len(items) /\ Len(items) \in Nat
      BY <1>1, <3>1, <3>2, BatchIs
    <3>4. Len(s.baks) \in Nat /\ Len(s.baks) <= Len(items) /\ s.n <= Len(s.baks)
      BY <1>1, <3>1, <3>2, BatchCounts
    <3>5. k \in DOMAIN items /\ k \in Nat /\ k \in 1..s.n /\ s.k = 0
      BY <2>2, <3>1, <3>3, <3>4
    <3>6. \A j \in Nat : PutBack(s, j) <=> j \in 1..s.n
      BY <3>2, <3>3, <3>5, BatchPutBack
    <3>7. \A j \in DOMAIN items : PutBack(s, j) /\ items[j].res = items[k].res => k <= j
      BY <2>2, <3>2, <3>3, <3>5, <3>6
    <3>8. PutBack(s, k)
      BY <3>5, <3>6
    <3> QED
      BY <2>2, <3>1, <3>2, <3>3, <3>5, <3>7, <3>8 DEF BringsBack
  <2> QED
    BY <2>1, <2>2 DEF BatchAllOrNothing
<1> QED
  BY <1>1, RecoveryInvariant, PTL

(* A rollback that reports success has put every target of the transaction *)
(* back to what the transaction first replaced there -- for any number of  *)
(* savepoints, of files and dashboards, and beside any other call, where   *)
(* RollbackRestores promises it.                                           *)
THEOREM RollbacksRestore == Spec => []RollbackRestores
<1>1. ASSUME KnownInv, RecoveryInv PROVE RollbackRestores
  <2> SUFFICES ASSUME NEW t \in Tasks, Rolling(t), ~task[t].dirty,
                      {task[t].tok, txns[task[t].txn].tok} \cap unsure = {},
                      NEW i \in DOMAIN txns[task[t].txn].saves,
                      FirstSave(task[t].txn, i), Promised(task[t].txn, i)
               PROVE  RolledBack(t, i)
    BY DEF RollbackRestores, Promised
  <2>1. PICK s, x : s = task[t] /\ x = s.txn
    OBVIOUS
  <2>2. s.pc \in Restoring /\ s.pc = "rb_undo" /\ s.k = 0 /\ s.n > 0
    BY <2>1 DEF Rolling, Restoring
  <2>3. /\ s.n \in Nat /\ RestoresSaves(s) /\ s.n \in {0, Len(txns[x].saves)}
        /\ DOMAIN txns[x].saves = 1..Len(txns[x].saves) /\ Len(txns[x].saves) \in Nat
    BY <1>1, <2>1, <2>2, RollbackIs
  <2>4. \A j \in DOMAIN txns[x].saves : PutBack(s, j)
    BY <2>2, <2>3 DEF PutBack
  <2>5. i \in DOMAIN txns[x].saves /\ FirstSave(x, i) /\ Promised(x, i)
    BY <2>1
  <2>6. \A j \in DOMAIN txns[x].saves : txns[x].saves[j].res = txns[x].saves[i].res => i <= j
    BY <2>3, <2>5 DEF FirstSave
  <2>7. Same(txns[x].saves[i].res, content[txns[x].saves[i].res], Before(x, i))
    BY <2>1, <2>2, <2>3, <2>4, <2>5, <2>6 DEF RestoresSaves
  <2> QED
    BY <2>1, <2>7 DEF RolledBack
<1> QED
  BY <1>1, RecoveryInvariant, PTL
=============================================================================
