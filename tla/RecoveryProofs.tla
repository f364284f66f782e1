--------------------------- MODULE RecoveryProofs ---------------------------
(***************************************************************************)
(* What the pipeline keeps in order to take a change back.  With           *)
(* backup_on_write whatever a guarded write destroys has been copied       *)
(* before: BackupInv follows the copy from the moment it is taken to the   *)
(* write, through everything the other calls do meanwhile.  A batch that   *)
(* fails, and a rollback, put back what was there: RecoveryInv follows an  *)
(* item from its preview over its execution to its restoration; here for   *)
(* the tools on one target and for the rollback.                           *)
(***************************************************************************)
EXTENDS ContractProofs

-----------------------------------------------------------------------------
(* What every step does to tokens and backups.                             *)

(* bs2 has the backups of bs, whatever retention did to their files.       *)
BackupsKeep(bs, bs2) ==
  /\ DOMAIN bs \subseteq DOMAIN bs2
  /\ \A b \in DOMAIN bs : bs2[b].res = bs[b].res /\ bs2[b].text = bs[b].text

(* Tokens are spent or forgotten, nothing else is lost.                    *)
Grows ==
  /\ TokensKeep(tokens, tokens') /\ DOMAIN tokens' = DOMAIN tokens
  /\ \A tk \in DOMAIN tokens : tokens'[tk].txn = tokens[tk].txn
  /\ BackupsKeep(backups, backups')
  /\ unsure \subseteq unsure'

(* A claim keeps everything of the tokens but the state of one.            *)
LEMMA TokensGrow ==
  ASSUME TypeInv, UNCHANGED tokens \/ \E tk : ClaimToken(tk)
  PROVE  /\ TokensKeep(tokens, tokens') /\ DOMAIN tokens' = DOMAIN tokens
         /\ \A tk \in DOMAIN tokens : tokens'[tk].txn = tokens[tk].txn
<1>1. CASE UNCHANGED tokens
  BY <1>1, KeepRefl
<1>2. ASSUME NEW tk, ClaimToken(tk)
      PROVE  /\ TokensKeep(tokens, tokens') /\ DOMAIN tokens' = DOMAIN tokens
             /\ \A i \in DOMAIN tokens : tokens'[i].txn = tokens[i].txn
  <2>1. /\ TokensKeep(tokens, tokens') /\ DOMAIN tokens' = DOMAIN tokens
        /\ tk \in DOMAIN tokens /\ tokens[tk] \in Tokens
    BY <1>2, ClaimFacts
  <2>2. tokens' = [tokens EXCEPT ![tk] = [tokens[tk] EXCEPT !.state = "spent"]]
    BY <1>2 DEF ClaimToken
  <2>3. [tokens[tk] EXCEPT !.state = "spent"].txn = tokens[tk].txn
    BY <2>1 DEF Tokens
  <2> QED
    BY <2>1, <2>2, <2>3
<1> QED
  BY <1>1, <1>2

(* A backup is added with its text, and the texts of the others stay.      *)
LEMMA BackUpKeeps ==
  ASSUME TypeInv, NEW r \in Resources, NEW c \in Contents, BackUp(r, c)
  PROVE  /\ BackupsKeep(backups, backups')
         /\ Len(backups) + 1 \in DOMAIN backups'
         /\ backups'[Len(backups) + 1].res = r /\ backups'[Len(backups) + 1].text = c
<1> DEFINE e == [res |-> r, text |-> c, kept |-> TRUE]
           bs == Append(backups, e)
<1>1. backups \in Seq(BackupEntries) /\ e \in BackupEntries
  BY DEF TypeInv, TypeOK, BackupEntries
<1>2. e.res = r /\ e.text = c
  OBVIOUS
<1>3. backups' = [i \in DOMAIN bs |-> [bs[i] EXCEPT !.kept = @ /\ Retained(bs, i)]]
  BY DEF BackUp
<1>4. /\ bs \in Seq(BackupEntries)
      /\ DOMAIN bs = DOMAIN backups \cup {Len(backups) + 1}
      /\ bs[Len(backups) + 1] = e
      /\ \A i \in DOMAIN backups : bs[i] = backups[i]
  <2> HIDE DEF e
  <2> QED
    BY <1>1, SeqAppend
<1>5. \A i \in DOMAIN bs : bs[i] \in BackupEntries
  <2> HIDE DEF bs
  <2> QED
    BY <1>4, SeqIsFun
<1> HIDE DEF bs, e
<1>6. \A i \in DOMAIN bs : backups'[i].res = bs[i].res /\ backups'[i].text = bs[i].text
  <2> TAKE i \in DOMAIN bs
  <2> DEFINE kept == bs[i].kept /\ Retained(bs, i)
  <2>1. backups'[i] = [bs[i] EXCEPT !.kept = kept]
    BY <1>3
  <2> HIDE DEF kept
  <2> QED
    BY <1>5, <2>1 DEF BackupEntries
<1>7. DOMAIN backups' = DOMAIN bs
  BY <1>3
<1> QED
  BY <1>2, <1>4, <1>6, <1>7 DEF BackupsKeep

(* What is copied stays copied.                                            *)
LEMMA CoveredStays ==
  ASSUME NEW r, NEW c, BackupsKeep(backups, backups'), Covered(r, c)
  PROVE  Covered(r, c)'
BY DEF Covered, BackupsKeep

(* A copy covers what was copied.                                          *)
LEMMA CoveredNow ==
  ASSUME TypeInv, NEW r \in Resources, NEW c \in Contents, BackUp(r, c)
  PROVE  Covered(r, c)'
BY BackUpKeeps DEF Covered

(* Nothing happens to the backups, or one is added.                        *)
LEMMA BackupsGrow ==
  ASSUME TypeInv,
         UNCHANGED backups \/ \E r \in Resources, c \in Contents : BackUp(r, c)
  PROVE  BackupsKeep(backups, backups')
BY BackUpKeeps DEF BackupsKeep

-----------------------------------------------------------------------------
(* What a write destroys has been copied.                                  *)

(* Nobody but t writes what another call is about to write, unless that    *)
(* call's token is noted.                                                  *)
OthersWarned(t) ==
  \A u \in Tasks \ {t} :
    AboutToWrite(task[u]) =>
      content'[Item(u).res] = content[Item(u).res] \/ task[u].tok \in unsure'

(* What is newly noted as replaced has been copied.                        *)
ReplacesCovered ==
  \A tk \in TokenIds, k \in 1..MaxItems :
    replaced'[<<tk, k>>] # replaced[<<tk, k>>] =>
      /\ tk \in DOMAIN tokens
      /\ tokens[tk].action \in Applies /\ tk \notin unsure' /\ k \in DOMAIN tokens[tk].items
           => Covered(tokens[tk].items[k].res, replaced[<<tk, k>>])'

(* A call about to write has an item.                                      *)
LEMMA WriterFacts ==
  ASSUME TypeInv, NEW u \in Tasks, AboutToWrite(task[u])
  PROVE  /\ task[u].tok \in DOMAIN tokens /\ task[u].tok \in TokenIds
         /\ task[u].k \in DOMAIN Token(u).items /\ Item(u) \in Items
         /\ Item(u) = tokens[task[u].tok].items[task[u].k]
<1>1. task[u].pc \in AtItem /\ task[u].pc \notin {"idle", "rb_claim"}
  BY DEF AboutToWrite, Saving, Holding, AtItem
<1> QED
  BY <1>1, CallFacts DEF Item, Token

(* A call that is left alone keeps its kind and its copy.                  *)
LEMMA CopyStays ==
  ASSUME TypeInv, BackupInv, Grows, NEW u \in Tasks,
         AboutToWrite(task[u]) =>
           content'[Item(u).res] = content[Item(u).res] \/ task[u].tok \in unsure',
         task'[u] = task[u]
  PROVE  (OfKind(task[u]) /\ CopyTaken(task[u]))'
<1> DEFINE c == task[u]
<1>1. c.pc \notin {"idle", "rb_claim"} => c.tok \in DOMAIN tokens
  BY CallFacts
<1>2. OfKind(c) /\ CopyTaken(c)
  BY DEF BackupInv
<1>3. (OfKind(task[u]))'
  BY <1>1, <1>2 DEF OfKind, Grows, TokensKeep, Restoring
<1>4. ASSUME AboutToWrite(c), c.tok \notin unsure'
      PROVE  Covered(Item(u).res, content[Item(u).res])'
  <2>1. c.tok \in DOMAIN tokens /\ Item(u) = tokens[c.tok].items[c.k]
    BY <1>4, WriterFacts
  <2>2. (Item(u))' = Item(u)
    BY <2>1 DEF Grows, TokensKeep, Item, Token
  <2>3. Covered(Item(u).res, content[Item(u).res])
    BY <1>2, <1>4, <2>1 DEF CopyTaken, Grows
  <2>4. content'[Item(u).res] = content[Item(u).res]
    BY <1>4
  <2> QED
    BY <2>2, <2>3, <2>4, CoveredStays DEF Grows
<1>5. (CopyTaken(task[u]))'
  BY <1>4 DEF CopyTaken, AboutToWrite, Item, Token
<1> QED
  BY <1>3, <1>5

(* Every call has its copy, and what is replaced is covered.               *)
LEMMA BackupStep ==
  ASSUME TypeInv, BackupInv, Grows, ReplacesCovered,
         \A u \in Tasks : (OfKind(task[u]) /\ CopyTaken(task[u]))'
  PROVE  BackupInv'
<1>1. \A tk \in DOMAIN tokens' :
        tokens'[tk].action \in Applies => Len(tokens'[tk].items) <= MaxItems
  BY DEF BackupInv, Grows, TokensKeep
<1>2. \A tk \in TokenIds \ DOMAIN tokens', k \in 1..MaxItems : replaced'[<<tk, k>>] = None
  BY DEF BackupInv, Grows, ReplacesCovered
<1>3. ASSUME NEW tk \in DOMAIN tokens PROVE WriteCovered(tk)'
  <2> SUFFICES ASSUME tokens[tk].action \in Applies, tk \notin unsure',
                      NEW k \in DOMAIN tokens[tk].items
               PROVE  Covered(tokens[tk].items[k].res, replaced[<<tk, k>>])'
    BY <1>3 DEF WriteCovered, Grows, TokensKeep
  <2>1. tk \in TokenIds /\ k \in 1..MaxItems
    <3>1. /\ tokens \in Seq(Tokens) /\ Len(tokens) <= MaxTokens
          /\ Len(tokens[tk].items) <= MaxItems
      BY DEF TypeInv, TypeOK, WellFormed, BackupInv
    <3>2. tokens[tk] \in Tokens /\ tk \in 1..Len(tokens) /\ Len(tokens) \in Nat
      BY <3>1, SeqIsFun
    <3>3. tokens[tk].items \in Seq(Items)
      BY <3>2 DEF Tokens
    <3>4. k \in 1..Len(tokens[tk].items) /\ Len(tokens[tk].items) \in Nat
      BY <3>3, SeqIsFun
    <3> QED
      BY <3>1, <3>2, <3>4, ContextAssumption DEF TokenIds
  <2>2. CASE replaced'[<<tk, k>>] # replaced[<<tk, k>>]
    BY <2>1, <2>2 DEF ReplacesCovered
  <2>3. CASE replaced'[<<tk, k>>] = replaced[<<tk, k>>]
    <3>1. Covered(tokens[tk].items[k].res, replaced[<<tk, k>>])
      BY DEF BackupInv, WriteCovered, Grows
    <3>2. tokens'[tk].items = tokens[tk].items
      BY DEF Grows, TokensKeep
    <3> QED
      BY <2>3, <3>1, <3>2, CoveredStays DEF Grows
  <2> QED
    BY <2>2, <2>3
<1>4. \A tk \in DOMAIN tokens' : WriteCovered(tk)'
  BY <1>3 DEF Grows
<1> QED
  BY <1>1, <1>2, <1>4 DEF BackupInv

(* t does a step: it goes on as c.                                         *)
LEMMA BackupActs ==
  ASSUME TypeInv, BackupInv, Grows, ReplacesCovered, NEW t \in Tasks, OthersWarned(t),
         \A u \in Tasks \ {t} : task'[u] = task[u],
         NEW c, task'[t] = c, (OfKind(c) /\ CopyTaken(c))'
  PROVE  BackupInv'
<1>1. ASSUME NEW u \in Tasks PROVE (OfKind(task[u]) /\ CopyTaken(task[u]))'
  <2>1. CASE u = t
    BY <2>1
  <2>2. CASE u # t
    BY <2>2, CopyStays DEF OthersWarned
  <2> QED
    BY <2>1, <2>2
<1> QED
  BY <1>1, BackupStep

(* The handlers that know the tool of their token.                         *)
Kinded == {"cfg_backup", "cfg_write", "cfg_commit", "dash_lock", "dash_wait",
           "rv_write", "rv_commit", "rv_wait"} \cup Restoring

(* The token c works under is known, and of its tool.                      *)
RightTool(c) == OfKind(c) /\ (c.pc \in Kinded => c.tok \in DOMAIN tokens)

(* What is true of the tool of a token stays true.                         *)
LEMMA ToolStays ==
  ASSUME Grows, NEW c, RightTool(c)
  PROVE  OfKind(c)'
<1>1. CASE c.pc \notin Kinded
  BY <1>1 DEF OfKind, Kinded
<1>2. CASE c.pc \in Kinded
  BY <1>2 DEF RightTool, OfKind, Grows, TokensKeep
<1> QED
  BY <1>1, <1>2

(* A call that goes on under its token with the same tool.                 *)
LEMMA ToolKept ==
  ASSUME TypeInv, BackupInv, NEW t \in Tasks
  PROVE  RightTool(task[t])
BY CallFacts DEF RightTool, BackupInv, Kinded, Restoring

(* t goes on as c and nothing is written.                                  *)
LEMMA CallGoes ==
  ASSUME TypeInv, BackupInv, NEW t \in Tasks, NEW c, task' = [task EXCEPT ![t] = c],
         UNCHANGED tokens \/ \E tk : ClaimToken(tk),
         UNCHANGED backups \/ \E r \in Resources, v \in Contents : BackUp(r, v),
         unsure \subseteq unsure', UNCHANGED <<content, replaced>>, RightTool(c),
         AboutToWrite(c) /\ c.tok \notin unsure' =>
           /\ c.tok \in DOMAIN tokens
           /\ Covered(tokens[c.tok].items[c.k].res, content[tokens[c.tok].items[c.k].res])
              \/ Covered(tokens[c.tok].items[c.k].res, content[tokens[c.tok].items[c.k].res])'
  PROVE  BackupInv'
<1>1. Grows
  BY TokensGrow, BackupsGrow DEF Grows
<1>2. (OfKind(c))'
  BY <1>1, ToolStays
<1>3. (CopyTaken(c))'
  <2> SUFFICES ASSUME AboutToWrite(c), c.tok \notin unsure'
               PROVE  Covered(tokens[c.tok].items[c.k].res, content[tokens[c.tok].items[c.k].res])'
    BY DEF CopyTaken, AboutToWrite
  <2>1. tokens'[c.tok].items = tokens[c.tok].items
    BY <1>1 DEF Grows, TokensKeep
  <2> QED
    BY <1>1, <2>1, CoveredStays DEF Grows
<1>4. task'[t] = c /\ \A u \in Tasks \ {t} : task'[u] = task[u]
  BY DEF TypeInv, TypeOK
<1>5. OthersWarned(t) /\ ReplacesCovered
  BY DEF OthersWarned, ReplacesCovered
<1> QED
  BY <1>1, <1>2, <1>3, <1>4, <1>5, BackupActs

(* A write is noted with the calls that are about to write there, too.     *)
LEMMA WriteWarns ==
  ASSUME TypeInv, NEW tk, NEW r, NEW v, NEW who, Write(r, v, who, tk)
  PROVE  /\ unsure \subseteq unsure'
         /\ \A u \in Tasks :
              AboutToWrite(task[u]) /\ task[u].tok # tk =>
                content'[Item(u).res] = content[Item(u).res] \/ task[u].tok \in unsure'
<1>1. content' = [content EXCEPT ![r] = v] /\ unsure' = unsure \cup Bystanders(r, tk)
  BY DEF Write
<1>2. ASSUME NEW u \in Tasks, AboutToWrite(task[u]), task[u].tok # tk
      PROVE  content'[Item(u).res] = content[Item(u).res] \/ task[u].tok \in unsure'
  <2>1. /\ task[u].tok \in DOMAIN tokens /\ task[u].tok # 0
        /\ task[u].k \in DOMAIN Token(u).items /\ Item(u).res \in Resources
    BY <1>2, WriterFacts, ZeroIsNoToken DEF Items
  <2>2. Item(u).res \in Targets(task[u].tok)
    BY <2>1 DEF Targets, Item, Token
  <2>3. CASE Item(u).res = r
    BY <1>1, <1>2, <2>1, <2>2, <2>3 DEF Bystanders
  <2>4. CASE Item(u).res # r
    BY <1>1, <2>1, <2>4 DEF TypeInv, TypeOK
  <2> QED
    BY <2>3, <2>4
<1> QED
  BY <1>1, <1>2

(* What a guarded write replaces has been copied.                          *)
LEMMA ReplacesCopied ==
  ASSUME TypeInv, BackupInv, Grows, NEW t \in Tasks,
         task[t].tok \in DOMAIN tokens, task[t].k \in DOMAIN Token(t).items,
         Token(t).action \in Applies => AboutToWrite(task[t]),
         Replace(task[t].tok, task[t].k, Item(t).res)
  PROVE  ReplacesCovered
<1>1. PICK tok, k, r, v :
        tok = task[t].tok /\ k = task[t].k /\ r = Item(t).res /\ v = content[Item(t).res]
  OBVIOUS
<1>2. replaced' = [replaced EXCEPT ![<<tok, k>>] = v]
  BY <1>1 DEF Replace
<1>3. \A i \in TokenIds, j \in 1..MaxItems :
        replaced'[<<i, j>>] # replaced[<<i, j>>] =>
          i = tok /\ j = k /\ replaced'[<<i, j>>] = v
  BY <1>2 DEF TypeInv, TypeOK
<1>4. r = tokens'[tok].items[k].res /\ tokens'[tok].items = tokens[tok].items
      /\ tok \in DOMAIN tokens
  BY <1>1 DEF Grows, TokensKeep, Item, Token
<1>5. ASSUME tokens[tok].action \in Applies, tok \notin unsure'
      PROVE  Covered(r, v)'
  <2>1. CopyTaken(task[t]) /\ AboutToWrite(task[t]) /\ tok \notin unsure
    BY <1>1, <1>5 DEF BackupInv, Token, Grows
  <2>2. Covered(r, v)
    BY <1>1, <2>1 DEF CopyTaken, Item, Token
  <2> QED
    BY <2>2, CoveredStays DEF Grows
<1>6. ASSUME tokens[tok].action \in Applies, tok \notin unsure', replaced'[<<tok, k>>] = v
      PROVE  Covered(tokens[tok].items[k].res, replaced[<<tok, k>>])'
  BY <1>4, <1>5, <1>6 DEF Covered
<1> QED
  BY <1>3, <1>4, <1>6 DEF ReplacesCovered

(* What is no apply may replace what nobody has copied.                    *)
LEMMA ReplacesElse ==
  ASSUME TypeInv, NEW tk \in DOMAIN tokens, tokens[tk].action \notin Applies,
         NEW k, NEW r, Replace(tk, k, r)
  PROVE  ReplacesCovered
BY DEF Replace, ReplacesCovered, TypeInv, TypeOK

(* t writes the target of its item, or restores something.                 *)
LEMMA CallWrites ==
  ASSUME TypeInv, TokenInv, BackupInv, NEW t \in Tasks, task[t].tok \in DOMAIN tokens,
         NEW r, NEW v, NEW who, Write(r, v, who, task[t].tok), UNCHANGED <<tokens, backups>>,
         \/ UNCHANGED replaced
         \/ /\ Replace(task[t].tok, task[t].k, Item(t).res)
            /\ task[t].k \in DOMAIN Token(t).items
            /\ Token(t).action \in Applies => AboutToWrite(task[t]),
         NEW c, task' = [task EXCEPT ![t] = c], RightTool(c), ~AboutToWrite(c)
  PROVE  BackupInv'
<1>1. OthersWarned(t) /\ unsure \subseteq unsure'
  <2>1. task[t].tok # 0
    BY ZeroIsNoToken
  <2>2. \A u \in Tasks \ {t} : task[u].tok # task[t].tok
    BY <2>1 DEF TokenInv, TokenDrivesOneCall
  <2> QED
    BY <2>2, WriteWarns DEF OthersWarned
<1>2. Grows
  BY <1>1, TokensGrow, BackupsGrow DEF Grows
<1>3. ReplacesCovered
  BY <1>2, ReplacesCopied DEF ReplacesCovered
<1>4. (OfKind(c) /\ CopyTaken(c))'
  BY <1>2, ToolStays DEF CopyTaken, AboutToWrite
<1>5. task'[t] = c /\ \A u \in Tasks \ {t} : task'[u] = task[u]
  BY DEF TypeInv, TypeOK
<1> QED
  BY <1>1, <1>2, <1>3, <1>4, <1>5, BackupActs

-----------------------------------------------------------------------------
(* The handlers, tool by tool.                                             *)

(* A call that has ended, like one that only waits for its turn, is about  *)
(* to do nothing and of no kind.                                           *)
LEMMA Unkinded ==
  ASSUME NEW c, c.pc \notin Kinded
  PROVE  RightTool(c)
BY DEF RightTool, OfKind, Kinded

(* So is the call nobody makes.                                            *)
LEMMA IdleUnkinded == RightTool(Idle) /\ ~AboutToWrite(Idle)
<1>1. Idle.pc = "idle"
  BY DEF Idle
<1> QED
  BY <1>1, Unkinded DEF Kinded, Restoring, AboutToWrite, Saving, Holding

(* A token is spent, or nothing at all happens to calls and contents.      *)
LEMMA BackupStill ==
  ASSUME TypeInv, BackupInv, UNCHANGED <<content, task, replaced, unsure>>,
         UNCHANGED tokens \/ \E tk : ClaimToken(tk), BackupsKeep(backups, backups')
  PROVE  BackupInv'
<1>1. Grows
  BY TokensGrow DEF Grows
<1>2. ReplacesCovered
  BY DEF ReplacesCovered
<1>3. \A u \in Tasks : (OfKind(task[u]) /\ CopyTaken(task[u]))'
  BY <1>1, CopyStays
<1> QED
  BY <1>1, <1>2, <1>3, BackupStep

(* A call ends.                                                            *)
LEMMA BackupEnds ==
  ASSUME TypeInv, BackupInv, NEW t \in Tasks, task' = [task EXCEPT ![t] = Idle],
         UNCHANGED tokens \/ \E tk : ClaimToken(tk),
         UNCHANGED <<backups, content, replaced, unsure>>
  PROVE  BackupInv'
BY IdleUnkinded, CallGoes

(* haops_config_apply copies the file it is about to overwrite.            *)
LEMMA ConfigBacks ==
  ASSUME TypeInv, TokenInv, ClobberInv, BackupInv, NEW t \in Tasks,
         ConfigStep(t) \/ \E tk \in DOMAIN tokens : ConfigApply(t, tk)
  PROVE  BackupInv'
<1>0. task[t] \in Calls /\ RightTool(task[t])
  BY CallFacts, ToolKept
<1>1. ASSUME NEW tk \in DOMAIN tokens, ConfigApply(t, tk)
      PROVE  BackupInv'
  <2> DEFINE c == [Idle EXCEPT !.pc = "cfg_backup", !.tok = tk, !.txn = Len(txns) + 1, !.k = 1]
  <2>1. /\ ClaimToken(tk) /\ UNCHANGED <<backups, content, replaced, unsure>>
        /\ \/ UNCHANGED task
           \/ tokens[tk].action = "config_apply" /\ task' = [task EXCEPT ![t] = c]
    BY <1>1 DEF ConfigApply, durable, world
  <2>2. c.pc = "cfg_backup" /\ c.tok = tk
    BY DEF Idle
  <2> HIDE DEF c
  <2>3. tokens[tk].action = "config_apply" => RightTool(c)
    BY <2>2 DEF RightTool, OfKind, Restoring
  <2>4. ~AboutToWrite(c)
    BY <2>2 DEF AboutToWrite, Saving, Holding
  <2>5. BackupsKeep(backups, backups')
    BY <2>1, BackupsGrow
  <2> QED
    BY <2>1, <2>3, <2>4, <2>5, BackupStill, CallGoes
<1>2. CASE ConfigBackup(t)
  <2>0. PICK c : c = [task[t] EXCEPT !.pc = "cfg_write"]
    OBVIOUS
  <2>1. /\ task[t].pc = "cfg_backup" /\ task' = [task EXCEPT ![t] = c]
        /\ UNCHANGED <<tokens, content, replaced, unsure>>
        /\ IF BackupOnWrite /\ content[Item(t).res] # Absent
           THEN BackUp(Item(t).res, content[Item(t).res])
           ELSE UNCHANGED backups
    BY <1>2, <2>0 DEF ConfigBackup, At, memory, world
  <2>2. c.pc = "cfg_write" /\ c.tok = task[t].tok /\ c.k = task[t].k
    BY <1>0, <2>0 DEF Calls
  <2>3. RightTool(c)
    BY <1>0, <2>1, <2>2 DEF RightTool, OfKind, Kinded, Restoring
  <2>4. /\ Item(t) = tokens[c.tok].items[c.k] /\ c.tok \in DOMAIN tokens
        /\ Item(t).res \in Resources /\ content[Item(t).res] \in Contents \cup {Absent}
    BY <2>1, <2>2, AtFileFacts DEF AtFile, Rechecked, Item, Token, Resources, TypeInv, TypeOK
  <2>5. PICK r \in Resources, v \in Contents \cup {Absent} : r = Item(t).res /\ v = content[r]
    BY <2>4
  <2>6. UNCHANGED backups \/ (v \in Contents /\ BackUp(r, v))
    BY <2>1, <2>5
  <2>7. Covered(r, v) \/ Covered(r, v)'
    BY <2>1, <2>5, CoveredNow DEF Covered
  <2>8. \/ Covered(tokens[c.tok].items[c.k].res, content[tokens[c.tok].items[c.k].res])
        \/ Covered(tokens[c.tok].items[c.k].res, content[tokens[c.tok].items[c.k].res])'
    BY <2>1, <2>4, <2>5, <2>7 DEF Covered
  <2> QED
    BY <2>1, <2>3, <2>4, <2>6, <2>8, CallGoes
<1>3. CASE ConfigWrite(t)
  <2> DEFINE c == [task[t] EXCEPT !.pc = "cfg_commit"]
  <2>1. /\ task[t].pc = "cfg_write" /\ task' = [task EXCEPT ![t] = c]
        /\ UNCHANGED <<tokens, backups>>
        /\ Write(Item(t).res, Written(Item(t).res, Item(t).new), "apply", task[t].tok)
        /\ Replace(task[t].tok, 1, Item(t).res)
    BY <1>3 DEF ConfigWrite, At, memory, durable
  <2>2. c.pc = "cfg_commit" /\ c.tok = task[t].tok
    BY <1>0 DEF Calls
  <2> HIDE DEF c
  <2>3. RightTool(c) /\ ~AboutToWrite(c)
    BY <1>0, <2>1, <2>2 DEF RightTool, OfKind, Kinded, Restoring, AboutToWrite, Saving, Holding
  <2>4. AboutToWrite(task[t])
    BY <2>1 DEF AboutToWrite, Saving
  <2>5. task[t].tok \in DOMAIN tokens /\ task[t].k \in DOMAIN Token(t).items
    BY <2>4, WriterFacts
  <2>6. task[t].k = 1
    <3>1. Token(t).action = "config_apply" /\ Token(t).items \in Seq(Items)
      BY <1>0, <2>1, <2>5, CallFacts DEF RightTool, OfKind, Token, Tokens
    <3>2. Len(Token(t).items) = 1
      BY <2>5, <3>1 DEF TypeInv, WellFormed, SingleItem, Token
    <3> QED
      BY <2>5, <3>1, <3>2, SeqIsFun
  <2> QED
    BY <2>1, <2>3, <2>4, <2>5, <2>6, CallWrites
<1>4. CASE ConfigWriteFails(t) \/ ConfigCommit(t)
  BY <1>4, BackupEnds DEF ConfigWriteFails, ConfigCommit, Finish, memory, durable, world
<1> QED
  BY <1>1, <1>2, <1>3, <1>4 DEF ConfigStep

(* haops_dashboard_apply copies the config it was previewed on, which is   *)
(* the one it finds, or it could not find out.                             *)
LEMMA DashboardBacks ==
  ASSUME TypeInv, TokenInv, ClobberInv, BackupInv, NEW t \in Tasks,
         DashboardStep(t) \/ \E tk \in DOMAIN tokens : DashboardApply(t, tk)
  PROVE  BackupInv'
<1>0. task[t] \in Calls /\ RightTool(task[t])
  BY CallFacts, ToolKept
<1>1. ASSUME NEW tk \in DOMAIN tokens, DashboardApply(t, tk)
      PROVE  BackupInv'
  <2> DEFINE c == [Idle EXCEPT !.pc = "dash_lock", !.tok = tk, !.k = 1]
  <2>1. /\ ClaimToken(tk) /\ UNCHANGED <<backups, content, replaced, unsure>>
        /\ \/ UNCHANGED task
           \/ tokens[tk].action = "dashboard_apply" /\ task' = [task EXCEPT ![t] = c]
    BY <1>1 DEF DashboardApply, durable, world
  <2>2. c.pc = "dash_lock" /\ c.tok = tk
    BY DEF Idle
  <2> HIDE DEF c
  <2>3. tokens[tk].action = "dashboard_apply" => RightTool(c)
    BY <2>2 DEF RightTool, OfKind, Restoring
  <2>4. ~AboutToWrite(c)
    BY <2>2 DEF AboutToWrite, Saving, Holding
  <2>5. BackupsKeep(backups, backups')
    BY <2>1, BackupsGrow
  <2> QED
    BY <2>1, <2>3, <2>4, <2>5, BackupStill, CallGoes
<1>2. CASE DashboardRecheck(t)
  <2>0. PICK c : c = [task[t] EXCEPT !.pc = "dash_wait", !.txn = Len(txns) + 1]
    OBVIOUS
  <2>1. /\ task[t].pc = "dash_lock" /\ task' = [task EXCEPT ![t] = c]
        /\ UNCHANGED <<tokens, content, replaced>>
        /\ \E got \in Readings(Item(t).res) :
             /\ NotDrifted(got, Item(t).old)
             /\ unsure' = IF got = None THEN unsure \cup {task[t].tok} ELSE unsure
        /\ IF BackupOnWrite /\ Item(t).old # Empty
           THEN BackUp(Item(t).res, Item(t).old)
           ELSE UNCHANGED backups
    BY <1>2, <2>0 DEF DashboardRecheck, At
  <2>2. c.pc = "dash_wait" /\ c.tok = task[t].tok /\ c.k = task[t].k
    BY <1>0, <2>0 DEF Calls
  <2>3. RightTool(c)
    BY <1>0, <2>1, <2>2 DEF RightTool, OfKind, Kinded, Restoring
  <2>4. /\ Item(t) = tokens[c.tok].items[c.k] /\ c.tok \in DOMAIN tokens
        /\ Item(t).res \in Resources \cap Dashboards /\ Item(t).old \in Contents
    BY <2>1, <2>2, CallFacts DEF AtItem, AtDashboard, CallFits, Item, Token, Items, Resources
  <2>5. PICK r \in Resources, v \in Contents : r = Item(t).res /\ v = Item(t).old
    BY <2>4
  <2>6. UNCHANGED backups \/ BackUp(r, v)
    BY <2>1, <2>5
  <2>7. Covered(r, v) \/ Covered(r, v)'
    BY <2>1, <2>4, <2>5, CoveredNow DEF Covered
  <2>8. unsure \subseteq unsure' /\ (c.tok \notin unsure' => content[r] = v)
    BY <2>1, <2>2, <2>5 DEF Readings, NotDrifted
  <2>9. ASSUME c.tok \notin unsure'
        PROVE  \/ Covered(tokens[c.tok].items[c.k].res, content[tokens[c.tok].items[c.k].res])
               \/ Covered(tokens[c.tok].items[c.k].res, content[tokens[c.tok].items[c.k].res])'
    BY <2>1, <2>4, <2>5, <2>7, <2>8, <2>9 DEF Covered
  <2> QED
    BY <2>1, <2>3, <2>4, <2>6, <2>8, <2>9, CallGoes
<1>3. CASE DashboardRefuse(t) \/ DashboardSaved(t) \/ DashboardSaveFails(t)
  BY <1>3, BackupEnds
  DEF DashboardRefuse, DashboardSaved, DashboardSaveFails, Finish, memory, durable, world
<1> QED
  BY <1>1, <1>2, <1>3 DEF DashboardStep

(* haops_rollback writes nothing that it promised to copy.                 *)
LEMMA RollbackBacks ==
  ASSUME TypeInv, TokenInv, BackupInv, NEW t \in Tasks,
         RollbackStep(t) \/ \E x \in DOMAIN txns : RollbackEnter(t, x)
  PROVE  BackupInv'
<1>0. task[t] \in Calls /\ RightTool(task[t])
  BY CallFacts, ToolKept
<1>1. ASSUME NEW c, c.pc \in {"rb_claim", "rb_undo", "rb_wait"} PROVE ~AboutToWrite(c)
  BY <1>1 DEF AboutToWrite, Saving, Holding
<1>2. ASSUME NEW c, c.pc \in Restoring, task[t].pc \in Restoring,
             c.tok = task[t].tok, c.txn = task[t].txn
      PROVE  RightTool(c) /\ ~AboutToWrite(c)
  BY <1>0, <1>1, <1>2 DEF RightTool, OfKind, Kinded, Restoring
<1>3. ASSUME NEW x \in DOMAIN txns, RollbackEnter(t, x)
      PROVE  BackupInv'
  <2> DEFINE c == [Idle EXCEPT !.pc = "rb_claim", !.txn = x]
  <2>1. c.pc = "rb_claim" /\ task' = [task EXCEPT ![t] = c]
        /\ UNCHANGED <<tokens, backups, content, replaced, unsure>>
    BY <1>3 DEF Idle, RollbackEnter, memory, durable, world
  <2> HIDE DEF c
  <2>2. RightTool(c) /\ ~AboutToWrite(c)
    BY <1>1, <2>1, Unkinded DEF Kinded, Restoring
  <2> QED
    BY <2>1, <2>2, CallGoes
<1>4. ASSUME NEW tk \in DOMAIN tokens, RollbackClaim(t, tk)
      PROVE  BackupInv'
  <2> DEFINE n == IF ActiveSavepoints(task[t].txn) = {} THEN 0
                  ELSE Len(txns[task[t].txn].saves)
             c == [task[t] EXCEPT !.pc = "rb_undo", !.tok = tk, !.k = n, !.n = n]
  <2>1. /\ ClaimToken(tk) /\ task' = [task EXCEPT ![t] = c]
        /\ tokens[tk].action = "rollback" /\ tokens[tk].txn = task[t].txn
        /\ UNCHANGED <<backups, content, replaced, unsure>>
    BY <1>4 DEF RollbackClaim, durable, world
  <2>2. c.pc = "rb_undo" /\ c.tok = tk /\ c.txn = task[t].txn
    <3> HIDE DEF n
    <3> QED
      BY <1>0 DEF Calls
  <2> HIDE DEF c
  <2>3. RightTool(c) /\ ~AboutToWrite(c)
    BY <1>1, <2>1, <2>2 DEF RightTool, OfKind
  <2> QED
    BY <2>1, <2>3, CallGoes
<1>5. ASSUME NEW tk \in DOMAIN tokens, RollbackMismatch(t, tk)
      PROVE  BackupInv'
  BY <1>5, BackupEnds DEF RollbackMismatch, Finish, durable, world
<1>6. CASE RollbackRefuse(t) \/ RollbackCrashes(t) \/ RollbackEnd(t)
  BY <1>6, BackupEnds DEF RollbackRefuse, RollbackCrashes, RollbackEnd, Finish, memory, durable, world
<1>7. CASE RollbackFile(t)
  <2> DEFINE c == [task[t] EXCEPT !.k = @ - 1]
             v == IF Undoing(t).created THEN Absent ELSE Restored(Undoing(t).res, Undoing(t).content)
  <2>1. /\ task[t].pc = "rb_undo" /\ task' = [task EXCEPT ![t] = c]
        /\ UNCHANGED <<tokens, backups, replaced>>
        /\ Write(Undoing(t).res, v, "undo", task[t].tok)
    BY <1>7 DEF RollbackFile, At, memory, durable
  <2>2. c.pc = "rb_undo" /\ c.tok = task[t].tok /\ c.txn = task[t].txn
    BY <1>0, <2>1 DEF Calls
  <2> HIDE DEF c, v
  <2>3. RightTool(c) /\ ~AboutToWrite(c)
    BY <1>2, <2>1, <2>2 DEF Restoring
  <2>4. task[t].tok \in DOMAIN tokens
    BY <2>1, CallFacts
  <2> QED
    BY <2>1, <2>3, <2>4, CallWrites
<1>8. ASSUME NEW c, task' = [task EXCEPT ![t] = c], task[t].pc \in Restoring, c.pc \in Restoring,
             c.tok = task[t].tok, c.txn = task[t].txn,
             UNCHANGED <<tokens, backups, content, replaced, unsure>>
      PROVE  BackupInv'
  <2>1. RightTool(c) /\ ~AboutToWrite(c)
    BY <1>2, <1>8
  <2> QED
    BY <1>8, <2>1, CallGoes
<1>9. CASE RollbackFileFails(t)
  <2> DEFINE c == [task[t] EXCEPT !.k = @ - 1, !.dirty = TRUE]
  <2>1. /\ task[t].pc = "rb_undo" /\ task' = [task EXCEPT ![t] = c]
        /\ UNCHANGED <<tokens, backups, content, replaced, unsure>>
    BY <1>9 DEF RollbackFileFails, At, memory, durable, world
  <2>2. c.pc = "rb_undo" /\ c.tok = task[t].tok /\ c.txn = task[t].txn
    BY <1>0, <2>1 DEF Calls
  <2> HIDE DEF c
  <2> QED
    BY <1>8, <2>1, <2>2 DEF Restoring
<1>10. CASE RollbackDashboard(t)
  <2> DEFINE c == [task[t] EXCEPT !.pc = "rb_wait"]
  <2>1. /\ task[t].pc = "rb_undo" /\ task' = [task EXCEPT ![t] = c]
        /\ UNCHANGED <<tokens, backups, content, replaced, unsure>>
    BY <1>10 DEF RollbackDashboard, At, memory, durable
  <2>2. c.pc = "rb_wait" /\ c.tok = task[t].tok /\ c.txn = task[t].txn
    BY <1>0 DEF Calls
  <2> HIDE DEF c
  <2> QED
    BY <1>8, <2>1, <2>2 DEF Restoring
<1>11. CASE RollbackAnswered(t)
  <2> DEFINE failed == task[t].dirty \/ task[t].reply = "err"
             c == [task[t] EXCEPT !.pc = "rb_undo", !.k = @ - 1, !.reply = "none",
                                  !.dirty = failed]
  <2>1. /\ task[t].pc = "rb_wait" /\ task' = [task EXCEPT ![t] = c]
        /\ UNCHANGED <<tokens, backups, content, replaced, unsure>>
    BY <1>11 DEF RollbackAnswered, At, memory, durable, world
  <2>2. c.pc = "rb_undo" /\ c.tok = task[t].tok /\ c.txn = task[t].txn
    <3> HIDE DEF failed
    <3> QED
      BY <1>0 DEF Calls
  <2> HIDE DEF c
  <2> QED
    BY <1>8, <2>1, <2>2 DEF Restoring
<1> QED
  BY <1>3, <1>4, <1>5, <1>6, <1>7, <1>9, <1>10, <1>11 DEF RollbackStep

(* haops_backup_revert overwrites without a copy, and is no apply.         *)
LEMMA RevertBacks ==
  ASSUME TypeInv, TokenInv, BackupInv, NEW t \in Tasks,
         \/ RevertStep(t)
         \/ \E tk \in DOMAIN tokens, b \in DOMAIN backups :
               RevertConfirm(t, tk, b) \/ RevertMismatch(t, tk, b)
  PROVE  BackupInv'
<1>0. task[t] \in Calls /\ RightTool(task[t])
  BY CallFacts, ToolKept
<1>1. ASSUME NEW c, c.pc \in {"rv_write", "rv_commit", "rv_wait"},
             tokens[c.tok].action = "backup_revert", c.tok \in DOMAIN tokens
      PROVE  RightTool(c) /\ ~AboutToWrite(c)
  BY <1>1 DEF RightTool, OfKind, Restoring, AboutToWrite, Saving, Holding
<1>2. ASSUME NEW tk \in DOMAIN tokens, NEW b, RevertConfirm(t, tk, b)
      PROVE  BackupInv'
  <2> DEFINE c(pc) == [Idle EXCEPT !.pc = pc, !.tok = tk, !.txn = Len(txns) + 1, !.k = 1]
  <2>1. PICK pc \in {"rv_write", "rv_wait"} : task' = [task EXCEPT ![t] = c(pc)]
    BY <1>2 DEF RevertConfirm
  <2>2. /\ ClaimToken(tk) /\ tokens[tk].action = "backup_revert"
        /\ UNCHANGED <<backups, content, replaced, unsure>>
    BY <1>2 DEF RevertConfirm, durable
  <2>3. c(pc).pc \in {"rv_write", "rv_commit", "rv_wait"} /\ c(pc).tok = tk
    BY <2>1 DEF Idle
  <2> HIDE DEF c
  <2>4. RightTool(c(pc)) /\ ~AboutToWrite(c(pc))
    BY <1>1, <2>2, <2>3
  <2> QED
    BY <2>1, <2>2, <2>4, CallGoes
<1>3. ASSUME NEW tk \in DOMAIN tokens, NEW b, RevertMismatch(t, tk, b)
      PROVE  BackupInv'
  <2>1. ClaimToken(tk) /\ UNCHANGED <<backups, task, content, replaced, unsure>>
    BY <1>3 DEF RevertMismatch, durable, sched, world
  <2> QED
    BY <2>1, BackupsGrow, BackupStill
<1>4. CASE RevertWrite(t)
  <2> DEFINE c == [task[t] EXCEPT !.pc = "rv_commit"]
  <2>1. /\ task[t].pc = "rv_write" /\ task' = [task EXCEPT ![t] = c]
        /\ UNCHANGED <<tokens, backups>>
        /\ Write(Item(t).res, Item(t).new, "revert", task[t].tok)
        /\ Replace(task[t].tok, 1, Item(t).res)
    BY <1>4 DEF RevertWrite, At, memory, durable
  <2>2. c.pc = "rv_commit" /\ c.tok = task[t].tok
    BY <1>0 DEF Calls
  <2> HIDE DEF c
  <2>3. /\ Token(t).action = "backup_revert" /\ task[t].tok \in DOMAIN tokens
        /\ task[t].k \in DOMAIN Token(t).items /\ Token(t).items \in Seq(Items)
    BY <1>0, <2>1, CallFacts DEF RightTool, OfKind, Token, AtItem, Tokens
  <2>4. Len(Token(t).items) = 1
    BY <2>3 DEF TypeInv, WellFormed, SingleItem, Token
  <2>5. task[t].k = 1
    BY <2>3, <2>4, SeqIsFun
  <2>6. RightTool(c) /\ ~AboutToWrite(c) /\ Token(t).action \notin Applies
    BY <1>1, <2>2, <2>3 DEF Token, Applies
  <2> QED
    BY <2>1, <2>3, <2>5, <2>6, CallWrites
<1>5. CASE RevertCommit(t) \/ RevertFails(t)
  BY <1>5, BackupEnds DEF RevertCommit, RevertFails, Finish, memory, durable, world
<1> QED
  BY <1>2, <1>3, <1>4, <1>5 DEF RevertStep

(* The calls of a batch are of no kind but their own.                      *)
LEMMA BatchUnkinded ==
  ASSUME NEW c, c.pc \in Batching
  PROVE  /\ RightTool(c)
         /\ c.pc \notin {"b_write", "b_wait"} => ~AboutToWrite(c)
<1>1. c.pc \notin Kinded
  BY DEF Batching, Kinded, Restoring
<1> QED
  BY <1>1, Unkinded DEF Batching, AboutToWrite, Saving, Holding

(* haops_batch_apply copies each target before it writes the item.         *)
LEMMA BatchBacks ==
  ASSUME TypeInv, TokenInv, ClobberInv, BackupInv, NEW t \in Tasks,
         BatchStep(t) \/ \E tk \in DOMAIN tokens : BatchApply(t, tk)
  PROVE  BackupInv'
<1>0. task[t] \in Calls
  BY CallFacts
<1>1. ASSUME NEW c, c.pc \in {"b_item", "b_lock", "b_undo", "b_uwait"}
      PROVE  RightTool(c) /\ ~AboutToWrite(c)
  BY <1>1, BatchUnkinded DEF Batching
<1>2. ASSUME NEW tk \in DOMAIN tokens, BatchApply(t, tk)
      PROVE  BackupInv'
  <2> DEFINE c == [Idle EXCEPT !.pc = "b_item", !.tok = tk, !.txn = Len(txns) + 1, !.k = 1]
  <2>1. /\ ClaimToken(tk) /\ UNCHANGED <<backups, content, replaced, unsure>>
        /\ (UNCHANGED task \/ task' = [task EXCEPT ![t] = c])
    BY <1>2 DEF BatchApply, durable, world
  <2>2. c.pc = "b_item"
    BY DEF Idle
  <2> HIDE DEF c
  <2>3. RightTool(c) /\ ~AboutToWrite(c)
    BY <1>1, <2>2
  <2>4. BackupsKeep(backups, backups')
    BY <2>1, BackupsGrow
  <2> QED
    BY <2>1, <2>3, <2>4, BackupStill, CallGoes
<1>3. CASE BatchFile(t)
  <2> DEFINE b == IF BackupOnWrite /\ ~Item(t).create THEN Len(backups) + 1 ELSE 0
             bs == Append(task[t].baks, b)
  <2>0. PICK c : c = [task[t] EXCEPT !.pc = "b_write", !.baks = bs]
    OBVIOUS
  <2>1. /\ task[t].pc = "b_item" /\ MoreItems(t) /\ Item(t).res \in Files
        /\ BatchFresh(Item(t)) /\ task' = [task EXCEPT ![t] = c]
        /\ UNCHANGED <<tokens, content, replaced, unsure>>
        /\ IF BackupOnWrite /\ ~Item(t).create
           THEN BackUp(Item(t).res, Item(t).old)
           ELSE UNCHANGED backups
    BY <1>3, <2>0 DEF BatchFile, At, memory, world
  <2>2. c.pc = "b_write" /\ c.tok = task[t].tok /\ c.k = task[t].k
    <3> HIDE DEF bs
    <3> QED
      BY <1>0, <2>0 DEF Calls
  <2>3. RightTool(c)
    BY <2>2, BatchUnkinded DEF Batching
  <2>4. /\ c.tok \in DOMAIN tokens /\ Item(t) = tokens[c.tok].items[c.k]
        /\ Item(t).res \in Resources \cap Files /\ Item(t).old \in Contents
    <3>1. c.tok \in DOMAIN tokens /\ Token(t).items \in Seq(Items)
      BY <2>1, <2>2, CallFacts DEF Tokens
    <3>2. task[t].k \in DOMAIN Token(t).items
      BY <2>1 DEF MoreItems
    <3>3. Item(t) \in Items
      BY <3>1, <3>2, SeqIsFun DEF Item
    <3> QED
      BY <2>1, <2>2, <3>1, <3>3 DEF Items, Item, Token
  <2>5. PICK r \in Resources, v \in Contents : r = Item(t).res /\ v = Item(t).old
    BY <2>4
  <2>6. UNCHANGED backups \/ BackUp(r, v)
    BY <2>1, <2>5
  <2>7. content[r] = Absent \/ (content[r] = v /\ ~Item(t).create)
    BY <2>1, <2>5 DEF BatchFresh
  <2>8. \/ Covered(tokens[c.tok].items[c.k].res, content[tokens[c.tok].items[c.k].res])
        \/ Covered(tokens[c.tok].items[c.k].res, content[tokens[c.tok].items[c.k].res])'
    <3>1. CASE content[r] = Absent
      BY <2>4, <2>5, <3>1 DEF Covered
    <3>2. CASE ~BackupOnWrite
      BY <3>2 DEF Covered
    <3>3. CASE BackupOnWrite /\ content[r] = v /\ ~Item(t).create
      <4>1. Covered(r, v)'
        BY <2>1, <2>5, <3>3, CoveredNow
      <4> QED
        BY <2>1, <2>4, <2>5, <3>3, <4>1 DEF Covered
    <3> QED
      BY <2>7, <3>1, <3>2, <3>3
  <2> QED
    BY <2>1, <2>3, <2>4, <2>6, <2>8, CallGoes
<1>4. CASE BatchWrite(t)
  <2> DEFINE c == [task[t] EXCEPT !.pc = "b_item", !.k = @ + 1]
  <2>1. /\ task[t].pc = "b_write" /\ task' = [task EXCEPT ![t] = c]
        /\ UNCHANGED <<tokens, backups>>
        /\ Write(Item(t).res, Written(Item(t).res, Item(t).new), "apply", task[t].tok)
        /\ Replace(task[t].tok, task[t].k, Item(t).res)
    BY <1>4 DEF BatchWrite, At, durable
  <2>2. c.pc = "b_item"
    BY <1>0 DEF Calls
  <2> HIDE DEF c
  <2>3. RightTool(c) /\ ~AboutToWrite(c)
    BY <1>1, <2>2
  <2>4. AboutToWrite(task[t])
    BY <2>1 DEF AboutToWrite, Saving
  <2>5. task[t].tok \in DOMAIN tokens /\ task[t].k \in DOMAIN Token(t).items
    BY <2>4, WriterFacts
  <2> QED
    BY <2>1, <2>3, <2>4, <2>5, CallWrites
<1>5. CASE BatchRecheck(t)
  <2> DEFINE b == IF BackupOnWrite /\ Item(t).old # Empty THEN Len(backups) + 1 ELSE 0
             bs == Append(task[t].baks, b)
  <2>0. PICK c : c = [task[t] EXCEPT !.pc = "b_wait", !.baks = bs]
    OBVIOUS
  <2>1. /\ task[t].pc = "b_lock" /\ task' = [task EXCEPT ![t] = c]
        /\ UNCHANGED <<tokens, content, replaced>>
        /\ \E got \in Readings(Item(t).res) :
             /\ NotDrifted(got, Item(t).old)
             /\ unsure' = IF got = None THEN unsure \cup {task[t].tok} ELSE unsure
        /\ IF BackupOnWrite /\ Item(t).old # Empty
           THEN BackUp(Item(t).res, Item(t).old)
           ELSE UNCHANGED backups
    BY <1>5, <2>0 DEF BatchRecheck, At, memory
  <2>2. c.pc = "b_wait" /\ c.tok = task[t].tok /\ c.k = task[t].k
    <3> HIDE DEF bs
    <3> QED
      BY <1>0, <2>0 DEF Calls
  <2>3. RightTool(c)
    BY <2>2, BatchUnkinded DEF Batching
  <2>4. /\ Item(t) = tokens[c.tok].items[c.k] /\ c.tok \in DOMAIN tokens
        /\ Item(t).res \in Resources \cap Dashboards /\ Item(t).old \in Contents
    BY <2>1, <2>2, CallFacts DEF AtItem, AtDashboard, CallFits, Item, Token, Items, Resources
  <2>5. PICK r \in Resources, v \in Contents : r = Item(t).res /\ v = Item(t).old
    BY <2>4
  <2>6. UNCHANGED backups \/ BackUp(r, v)
    BY <2>1, <2>5
  <2>7. Covered(r, v) \/ Covered(r, v)'
    BY <2>1, <2>4, <2>5, CoveredNow DEF Covered
  <2>8. unsure \subseteq unsure' /\ (c.tok \notin unsure' => content[r] = v)
    BY <2>1, <2>2, <2>5 DEF Readings, NotDrifted
  <2>9. ASSUME c.tok \notin unsure'
        PROVE  \/ Covered(tokens[c.tok].items[c.k].res, content[tokens[c.tok].items[c.k].res])
               \/ Covered(tokens[c.tok].items[c.k].res, content[tokens[c.tok].items[c.k].res])'
    BY <2>1, <2>4, <2>5, <2>7, <2>8, <2>9 DEF Covered
  <2> QED
    BY <2>1, <2>3, <2>4, <2>6, <2>8, <2>9, CallGoes
<1>6. ASSUME NEW c, task' = [task EXCEPT ![t] = c],
             c.pc \in {"b_item", "b_lock", "b_undo", "b_uwait"},
             UNCHANGED <<tokens, backups, content, replaced, unsure>>
      PROVE  BackupInv'
  <2>1. RightTool(c) /\ ~AboutToWrite(c)
    BY <1>1, <1>6
  <2> QED
    BY <1>6, <2>1, CallGoes
<1>7. CASE BatchFileFails(t) \/ BatchRefuse(t) \/ BatchSaveFails(t)
  <2> DEFINE c == [task[t] EXCEPT !.pc = "b_undo", !.reply = "none", !.k = @ - 1,
                                  !.n = task[t].k - 1]
  <2>1. /\ task' = [task EXCEPT ![t] = c]
        /\ UNCHANGED <<tokens, backups, content, replaced, unsure>>
    BY <1>7 DEF BatchFileFails, BatchRefuse, BatchSaveFails, Abort, memory, durable, world
  <2>2. c.pc = "b_undo"
    BY <1>0 DEF Calls
  <2> HIDE DEF c
  <2> QED
    BY <1>6, <2>1, <2>2
<1>8. CASE BatchDashboard(t)
  <2> DEFINE c == [task[t] EXCEPT !.pc = "b_lock"]
  <2>1. /\ task' = [task EXCEPT ![t] = c]
        /\ UNCHANGED <<tokens, backups, content, replaced, unsure>>
    BY <1>8 DEF BatchDashboard, memory, durable, world
  <2>2. c.pc = "b_lock"
    BY <1>0 DEF Calls
  <2> HIDE DEF c
  <2> QED
    BY <1>6, <2>1, <2>2
<1>9. CASE BatchSaved(t)
  <2> DEFINE c == [task[t] EXCEPT !.pc = "b_item", !.k = @ + 1, !.reply = "none"]
  <2>1. /\ task' = [task EXCEPT ![t] = c]
        /\ UNCHANGED <<tokens, backups, content, replaced, unsure>>
    BY <1>9 DEF BatchSaved, durable, world
  <2>2. c.pc = "b_item"
    BY <1>0 DEF Calls
  <2> HIDE DEF c
  <2> QED
    BY <1>6, <2>1, <2>2
<1>10. CASE BatchUndoFile(t)
  <2> DEFINE c == [task[t] EXCEPT !.k = @ - 1]
  <2>1. /\ task[t].pc = "b_undo" /\ task' = [task EXCEPT ![t] = c]
        /\ UNCHANGED <<tokens, backups, replaced>>
        /\ Write(Item(t).res, Original(t), "undo", task[t].tok)
    BY <1>10 DEF BatchUndoFile, At, memory, durable
  <2>2. c.pc = "b_undo"
    BY <1>0, <2>1 DEF Calls
  <2> HIDE DEF c
  <2>3. RightTool(c) /\ ~AboutToWrite(c)
    BY <1>1, <2>2
  <2>4. task[t].tok \in DOMAIN tokens
    BY <2>1, CallFacts
  <2> QED
    BY <2>1, <2>3, <2>4, CallWrites
<1>11. CASE BatchUndoFileFails(t)
  <2> DEFINE c == [task[t] EXCEPT !.k = @ - 1, !.dirty = TRUE]
  <2>1. /\ task[t].pc = "b_undo" /\ task' = [task EXCEPT ![t] = c]
        /\ UNCHANGED <<tokens, backups, content, replaced, unsure>>
    BY <1>11 DEF BatchUndoFileFails, At, memory, durable, world
  <2>2. c.pc = "b_undo"
    BY <1>0, <2>1 DEF Calls
  <2> HIDE DEF c
  <2> QED
    BY <1>6, <2>1, <2>2
<1>12. CASE BatchUndoDashboard(t)
  <2> DEFINE c == [task[t] EXCEPT !.pc = "b_uwait"]
  <2>1. /\ task' = [task EXCEPT ![t] = c]
        /\ UNCHANGED <<tokens, backups, content, replaced, unsure>>
    BY <1>12 DEF BatchUndoDashboard, memory, durable
  <2>2. c.pc = "b_uwait"
    BY <1>0 DEF Calls
  <2> HIDE DEF c
  <2> QED
    BY <1>6, <2>1, <2>2
<1>13. CASE BatchUndone(t)
  <2> DEFINE failed == task[t].dirty \/ task[t].reply = "err"
             c == [task[t] EXCEPT !.pc = "b_undo", !.k = @ - 1, !.reply = "none",
                                  !.dirty = failed]
  <2>1. /\ task' = [task EXCEPT ![t] = c]
        /\ UNCHANGED <<tokens, backups, content, replaced, unsure>>
    BY <1>13 DEF BatchUndone, memory, durable, world
  <2>2. c.pc = "b_undo"
    <3> HIDE DEF failed
    <3> QED
      BY <1>0 DEF Calls
  <2> HIDE DEF c
  <2> QED
    BY <1>6, <2>1, <2>2
<1>14. CASE BatchUndoCrashes(t) \/ BatchCommit(t) \/ BatchFailed(t)
  BY <1>14, BackupEnds
  DEF BatchUndoCrashes, BatchCommit, BatchFailed, Finish, memory, durable, world
<1> QED
  BY <1>2, <1>3, <1>4, <1>5, <1>7, <1>8, <1>9, <1>10, <1>11, <1>12, <1>13, <1>14 DEF BatchStep

-----------------------------------------------------------------------------
(* What happens beside the handlers, and the theorem.                      *)

(* A save is executed: the call that waits for it had its copy, and the    *)
(* others are noted.                                                       *)
LEMMA SaveBacks ==
  ASSUME TypeInv, TokenInv, ClobberInv, BackupInv, NEW e \in inflight, HaSave(e)
  PROVE  BackupInv'
<1> DEFINE by == IF e.heard THEN e.tok ELSE 0
<1>0. e.res \in Dashboards /\ e.tok \in TokenIds /\ e.dir \in {"do", "undo"} /\ e.heard \in BOOLEAN
  BY DEF TypeInv, TypeOK, Saves
<1>1. /\ Write(e.res, e.new, SaveKind(e), by) /\ UNCHANGED <<tokens, backups>>
      /\ IF e.heard /\ e.dir = "do" THEN Replace(e.tok, e.k, e.res) ELSE UNCHANGED replaced
  BY DEF HaSave, memory, durable
<1>2. \A u \in Tasks : \/ task'[u] = task[u] /\ (e.heard => task[u].tok # e.tok)
                       \/ /\ e.heard /\ task[u].tok = e.tok
                          /\ task'[u].pc = task[u].pc /\ task'[u].tok = task[u].tok
                          /\ task'[u].txn = task[u].txn /\ task'[u].reply = "ok"
  <2> TAKE u \in Tasks
  <2>1. task[u] \in Calls
    BY CallFacts
  <2>2. \/ task'[u] = task[u] /\ (e.heard => task[u].tok # e.tok)
        \/ e.heard /\ task[u].tok = e.tok /\ task'[u] = [task[u] EXCEPT !.reply = "ok"]
    BY DEF HaSave
  <2> QED
    BY <2>1, <2>2 DEF Calls
<1>3. unsure \subseteq unsure'
  BY <1>1, WriteWarns
<1>4. Grows
  BY <1>1, <1>3, TokensGrow, BackupsGrow DEF Grows
<1>5. ASSUME e.heard
      PROVE  \E t \in Tasks : AwaitedBy(e, t) /\ \A u \in Tasks : task[u].tok = e.tok => u = t
  <2>1. PICK t \in Tasks : AwaitedBy(e, t)
    BY <1>5 DEF ClobberInv, SavesAwaited
  <2>2. e.tok # 0
    BY <1>0, ContextAssumption DEF TokenIds
  <2> QED
    BY <2>1, <2>2 DEF AwaitedBy, TokenInv, TokenDrivesOneCall
<1>6. ASSUME NEW u \in Tasks PROVE (OfKind(task[u]) /\ CopyTaken(task[u]))'
  <2>1. CASE task'[u] = task[u] /\ (e.heard => task[u].tok # e.tok)
    <3>1. AboutToWrite(task[u]) => task[u].tok # by
      BY <2>1, WriterFacts, ZeroIsNoToken
    <3>2. AboutToWrite(task[u]) =>
            content'[Item(u).res] = content[Item(u).res] \/ task[u].tok \in unsure'
      BY <1>1, <3>1, WriteWarns
    <3> QED
      BY <1>4, <2>1, <3>2, CopyStays
  <2>2. CASE /\ e.heard /\ task[u].tok = e.tok
             /\ task'[u].pc = task[u].pc /\ task'[u].tok = task[u].tok
             /\ task'[u].txn = task[u].txn /\ task'[u].reply = "ok"
    <3>1. task[u].pc \in Waiting
      BY <1>5, <2>2 DEF AwaitedBy
    <3>2. PICK c : c = task'[u]
      OBVIOUS
    <3>3. RightTool(c)
      BY <2>2, <3>2, ToolKept DEF RightTool, OfKind
    <3>4. ~AboutToWrite(c)
      BY <2>2, <3>1, <3>2 DEF AboutToWrite, Waiting, Saving
    <3>5. (OfKind(c))' /\ (CopyTaken(c))'
      BY <1>4, <3>3, <3>4, ToolStays DEF CopyTaken, AboutToWrite
    <3> QED
      BY <3>2, <3>5
  <2> QED
    BY <1>2, <2>1, <2>2
<1>7. ReplacesCovered
  <2>1. CASE e.heard /\ e.dir = "do"
    <3>1. PICK t \in Tasks : AwaitedBy(e, t)
      BY <1>5, <2>1
    <3>2. e.tok \in DOMAIN tokens /\ Replace(e.tok, e.k, e.res)
      BY <1>1, <2>1, HeardToken DEF ClobberInv
    <3>3. CASE tokens[e.tok].action = "backup_revert"
      BY <3>2, <3>3, ReplacesElse DEF Applies
    <3>4. CASE tokens[e.tok].action # "backup_revert"
      <4>1. /\ task[t].tok = e.tok /\ task[t].reply = "none" /\ task[t].pc \in Holding
            /\ e.res = Item(t).res /\ e.k = task[t].k
        BY <2>1, <3>1, <3>4 DEF AwaitedBy
      <4>2. AboutToWrite(task[t])
        BY <4>1 DEF AboutToWrite
      <4>3. task[t].tok \in DOMAIN tokens /\ task[t].k \in DOMAIN Token(t).items
        BY <4>2, WriterFacts
      <4> QED
        BY <1>4, <3>2, <4>1, <4>2, <4>3, ReplacesCopied
    <3> QED
      BY <3>3, <3>4
  <2>2. CASE ~(e.heard /\ e.dir = "do")
    BY <1>1, <2>2 DEF ReplacesCovered
  <2> QED
    BY <2>1, <2>2
<1> QED
  BY <1>4, <1>6, <1>7, BackupStep

(* A call hears of an error.                                               *)
LEMMA ErrorBacks ==
  ASSUME TypeInv, TokenInv, ClobberInv, BackupInv, NEW t \in Tasks, WsError(t)
  PROVE  BackupInv'
<1> DEFINE c == [task[t] EXCEPT !.reply = "err"]
<1>1. PICK e \in inflight :
        /\ e.heard /\ e.tok = task[t].tok /\ task' = [task EXCEPT ![t] = c]
        /\ UNCHANGED <<tokens, backups, content, replaced, unsure>>
  BY DEF WsError, memory, durable
<1>2. task[t].pc \in Waiting
  <2>1. PICK v \in Tasks : AwaitedBy(e, v)
    BY <1>1 DEF ClobberInv, SavesAwaited
  <2>2. e.tok # 0
    BY ContextAssumption DEF TypeInv, TypeOK, Saves, TokenIds
  <2>3. v = t
    BY <1>1, <2>1, <2>2 DEF AwaitedBy, TokenInv, TokenDrivesOneCall
  <2> QED
    BY <2>1, <2>3 DEF AwaitedBy
<1>3. /\ c.pc = task[t].pc /\ c.tok = task[t].tok /\ c.txn = task[t].txn
      /\ c.reply = "err"
  BY CallFacts DEF Calls
<1> HIDE DEF c
<1>4. RightTool(c)
  BY <1>3, ToolKept DEF RightTool, OfKind
<1>5. ~AboutToWrite(c)
  BY <1>2, <1>3 DEF AboutToWrite, Waiting, Saving
<1> QED
  BY <1>1, <1>4, <1>5, CallGoes

(* People write what they like: the calls on their way there are noted.    *)
LEMMA EditBacks ==
  ASSUME TypeInv, BackupInv, NEW r, NEW v, OutsideEdit(r, v)
  PROVE  BackupInv'
<1>1. Write(r, v, "outside", 0) /\ UNCHANGED <<tokens, backups, task, replaced>>
  BY DEF OutsideEdit, memory, durable, sched
<1>2. Grows
  BY <1>1, WriteWarns, TokensGrow, BackupsGrow DEF Grows
<1>3. ASSUME NEW u \in Tasks PROVE (OfKind(task[u]) /\ CopyTaken(task[u]))'
  <2>1. AboutToWrite(task[u]) =>
          content'[Item(u).res] = content[Item(u).res] \/ task[u].tok \in unsure'
    BY <1>1, WriterFacts, ZeroIsNoToken, WriteWarns
  <2> QED
    BY <1>1, <1>2, <2>1, CopyStays
<1> QED
  BY <1>1, <1>2, <1>3, BackupStep DEF ReplacesCovered

(* After a restart nobody is about to write.                               *)
LEMMA RestartBacks ==
  ASSUME TypeInv, BackupInv, Restart
  PROVE  BackupInv'
<1>1. /\ \A t \in Tasks : task'[t] = Idle
      /\ UNCHANGED <<backups, replaced, unsure>>
  BY DEF Restart, durable
<1>2. /\ TokensKeep(tokens, tokens') /\ DOMAIN tokens' = DOMAIN tokens
      /\ \A tk \in DOMAIN tokens : tokens'[tk].txn = tokens[tk].txn
  <2>1. \A i \in DOMAIN tokens : tokens[i] \in Tokens
    BY SeqIsFun DEF TypeInv, TypeOK
  <2> QED
    BY <2>1 DEF Restart, TokensKeep, Tokens
<1>3. Grows
  BY <1>1, <1>2, BackupsGrow DEF Grows
<1>4. PICK c : c = Idle
  OBVIOUS
<1>5. RightTool(c) /\ ~AboutToWrite(c)
  BY <1>4, IdleUnkinded
<1>6. (OfKind(c))' /\ (CopyTaken(c))'
  BY <1>3, <1>5, ToolStays DEF CopyTaken, AboutToWrite
<1>7. \A u \in Tasks : (OfKind(task[u]) /\ CopyTaken(task[u]))'
  BY <1>1, <1>4, <1>6
<1> QED
  BY <1>1, <1>3, <1>7, BackupStep DEF ReplacesCovered

(* A token is issued, within the bound on the items of an apply.           *)
LEMMA BackupIssue ==
  ASSUME TypeInv, BackupInv, NEW act, NEW items, NEW x, CreateToken(act, items, x),
         act \in Applies => Len(items) <= MaxItems /\ DOMAIN items \subseteq 1..MaxItems,
         UNCHANGED <<backups, task, content, replaced, unsure>>
  PROVE  BackupInv'
<1> DEFINE new == [action |-> act, items |-> items, txn |-> x, state |-> "live"]
           S   == Tokens \cup {new}
           n   == Len(tokens) + 1
<1>1. /\ tokens \in [1..Len(tokens) -> Tokens] /\ Len(tokens) \in Nat
      /\ DOMAIN tokens = 1..Len(tokens)
  BY SeqIsFun DEF TypeInv, TypeOK
<1>2. tokens \in Seq(S)
  <2>1. tokens \in [1..Len(tokens) -> S]
    BY <1>1
  <2> HIDE DEF S
  <2> QED
    BY <1>1, <2>1, FunIsSeq
<1>3. tokens' = Append(tokens, new) /\ new \in S /\ new.action = act /\ new.items = items
  BY DEF CreateToken
<1>4. n \in TokenIds /\ n \notin DOMAIN tokens
  BY <1>1, ContextAssumption DEF CreateToken, TokenIds
<1> HIDE DEF S, new
<1>5. /\ DOMAIN tokens' = DOMAIN tokens \cup {n} /\ tokens'[n] = new
      /\ \A i \in DOMAIN tokens : tokens'[i] = tokens[i]
  BY <1>1, <1>2, <1>3, SeqAppend
<1> HIDE DEF n
<1>6. \A i \in DOMAIN tokens' :
        tokens'[i].action \in Applies => Len(tokens'[i].items) <= MaxItems
  BY <1>3, <1>5 DEF BackupInv
<1>7. \A i \in TokenIds \ DOMAIN tokens', k \in 1..MaxItems : replaced'[<<i, k>>] = None
  BY <1>5 DEF BackupInv
<1>8. ASSUME NEW u \in Tasks PROVE (OfKind(task[u]) /\ CopyTaken(task[u]))'
  <2>1. PICK c : c = task[u]
    OBVIOUS
  <2>2. OfKind(c) /\ CopyTaken(c) /\ RightTool(c)
    BY <2>1, ToolKept DEF BackupInv
  <2>3. AboutToWrite(c) => c.tok \in DOMAIN tokens
    BY <2>1, WriterFacts
  <2>4. (OfKind(c))'
    BY <1>5, <2>2 DEF RightTool, OfKind, Kinded
  <2>5. (CopyTaken(c))'
    BY <1>5, <2>2, <2>3 DEF CopyTaken, AboutToWrite, Covered
  <2> QED
    BY <2>1, <2>4, <2>5
<1>9. ASSUME NEW i \in DOMAIN tokens' PROVE WriteCovered(i)'
  <2>1. CASE i = n
    <3>1. ASSUME act \in Applies, NEW k \in DOMAIN items PROVE replaced[<<n, k>>] = None
      BY <1>4, <3>1 DEF BackupInv
    <3> QED
      BY <1>3, <1>5, <2>1, <3>1 DEF WriteCovered, Covered
  <2>2. CASE i # n
    <3>1. i \in DOMAIN tokens /\ tokens'[i] = tokens[i]
      BY <1>5, <2>2
    <3>2. WriteCovered(i)
      BY <3>1 DEF BackupInv
    <3> QED
      BY <3>1, <3>2 DEF WriteCovered, Covered
  <2> QED
    BY <2>1, <2>2
<1> QED
  BY <1>6, <1>7, <1>8, <1>9 DEF BackupInv

(* No preview disturbs the copies.                                         *)
LEMMA BackupPreview == ASSUME TypeInv, BackupInv, Preview PROVE BackupInv'
<1> DEFINE Rest == UNCHANGED <<txns, durable, sched, world>>
<1>0. Rest => UNCHANGED <<backups, task, content, replaced, unsure>>
  BY DEF durable, sched, world
<1> HIDE DEF Rest
<1>1. ASSUME NEW act, act \notin Applies, NEW items, NEW x, CreateToken(act, items, x), Rest
      PROVE  BackupInv'
  BY <1>0, <1>1, BackupIssue
<1>2. ASSUME NEW act, NEW it, CreateToken(act, <<it>>, 0), Rest
      PROVE  BackupInv'
  <2>1. Len(<<it>>) <= MaxItems /\ DOMAIN <<it>> \subseteq 1..MaxItems
    BY ContextAssumption
  <2> QED
    BY <1>0, <1>2, <2>1, BackupIssue
<1>3. ASSUME NEW n \in 1..MaxItems, NEW rs \in [1..n -> Resources], NEW cs \in [1..n -> Texts],
             BatchPreview(rs, cs)
      PROVE  BackupInv'
  <2>0. n \in Nat /\ n <= MaxItems /\ 1..n \subseteq 1..MaxItems
    BY ContextAssumption
  <2> DEFINE items == [k \in DOMAIN rs |-> PreparedItem(rs, cs, k)]
  <2>1. CreateToken("batch_apply", items, 0) /\ Rest
    BY <1>3 DEF BatchPreview, Rest
  <2>2. DOMAIN items = 1..n /\ Len(items) = n
    <3>1. DOMAIN items = 1..n
      OBVIOUS
    <3>2. items \in [1..n -> {items[k] : k \in 1..n}]
      OBVIOUS
    <3> HIDE DEF items
    <3> QED
      BY <2>0, <3>1, <3>2, FunIsSeq
  <2> HIDE DEF items
  <2> QED
    BY <1>0, <2>0, <2>1, <2>2, BackupIssue
<1>4. ASSUME NEW p \in Files, NEW c, ConfigPatch(p, c) \/ ConfigCreate(p, c) PROVE BackupInv'
  BY <1>2, <1>4 DEF ConfigPatch, ConfigCreate, Rest
<1>5. ASSUME NEW d, NEW c, DashboardDiff(d, c) \/ DashboardPatch(d, c) PROVE BackupInv'
  BY <1>2, <1>5 DEF DashboardDiff, DashboardPatch, Rest
<1>6. ASSUME NEW x, RollbackPreview(x) PROVE BackupInv'
  BY <1>1, <1>6 DEF RollbackPreview, Rest, Applies
<1>7. ASSUME (\E b : RevertPreview(b)) \/ PrunePreview PROVE BackupInv'
  BY <1>1, <1>7 DEF RevertPreview, PrunePreview, Rest, Applies
<1> QED
  BY <1>3, <1>4, <1>5, <1>6, <1>7 DEF Preview

(* Pruning deletes files; what they held stays on record.                  *)
LEMMA PruneBacks ==
  ASSUME TypeInv, BackupInv, NEW tk, PruneConfirm(tk)
  PROVE  BackupInv'
<1>1. ClaimToken(tk) /\ UNCHANGED <<content, task, replaced, unsure>>
  BY DEF PruneConfirm, sched, world
<1>2. BackupsKeep(backups, backups')
  <2>1. \A b \in DOMAIN backups : backups[b] \in BackupEntries
    <3>1. backups \in Seq(BackupEntries)
      BY DEF TypeInv, TypeOK
    <3> QED
      BY <3>1, SeqIsFun
  <2> QED
    BY <2>1 DEF PruneConfirm, BackupsKeep, BackupEntries
<1> QED
  BY <1>1, <1>2, BackupStill

-----------------------------------------------------------------------------
(* Every step.                                                             *)

(* Every step keeps the copies.                                            *)
LEMMA BackupNext ==
  ASSUME TypeInv, TokenInv, ClobberInv, BackupInv, [Next]_vars
  PROVE  BackupInv'
<1>1. ASSUME NEW tk \in DOMAIN tokens, PruneConfirm(tk) PROVE BackupInv'
  BY <1>1, PruneBacks
<1>2. ASSUME NEW t \in Tasks, Start(t) \/ Step(t) PROVE BackupInv'
  BY <1>2, ConfigBacks, DashboardBacks, RollbackBacks, RevertBacks, BatchBacks
  DEF Start, Step
<1>3. ASSUME NEW t \in Tasks, Answer(t) \/ Cancel(t) PROVE BackupInv'
  <2>1. CASE Cancel(t)
    BY <2>1, BackupEnds DEF Cancel, memory, durable
  <2>2. CASE Answer(t)
    BY <2>2, SaveBacks, ErrorBacks DEF Answer
  <2> QED
    BY <1>3, <2>1, <2>2
<1>4. ASSUME Environment PROVE BackupInv'
  BY <1>4, EditBacks, SaveBacks, RestartBacks DEF Environment
<1>5. ASSUME UNCHANGED vars PROVE BackupInv'
  <2>1. UNCHANGED <<content, task, replaced, unsure, tokens, backups>>
    BY <1>5 DEF vars, memory, durable, sched, world
  <2> QED
    BY <2>1, BackupsGrow, BackupStill
<1> QED
  BY <1>1, <1>2, <1>3, <1>4, <1>5, BackupPreview DEF Next

(* Nothing is copied or replaced at the start.                             *)
LEMMA InitBackup == Init => BackupInv
<1> SUFFICES ASSUME Init PROVE BackupInv
  OBVIOUS
<1>1. /\ DOMAIN tokens = {} /\ \A t \in Tasks : task[t] = Idle
      /\ \A i \in TokenIds, k \in 1..MaxItems : replaced[<<i, k>>] = None
  BY DEF Init
<1>2. OfKind(Idle) /\ CopyTaken(Idle)
  BY IdleUnkinded DEF RightTool, CopyTaken
<1> QED
  BY <1>1, <1>2 DEF BackupInv

(* Copies are there before every guarded write, in every state.            *)
LEMMA BackupInvariant == Spec => []BackupInv
<1>1. TypeInv /\ TokenInv /\ ClobberInv /\ BackupInv /\ [Next]_vars => BackupInv'
  BY BackupNext
<1> QED
  BY <1>1, InitBackup, TokensAreSpent, ClobberInvariant, PTL DEF Spec

(* With backup_on_write a change that an apply destroyed is in the backup  *)
(* directory: for config, dashboard and batch applies, whoever else is at  *)
(* work on the same targets, and wherever a crash has stopped the server.  *)
THEOREM WritesAreCovered == Spec => []BackupCoversWrite
<1>1. BackupInv => BackupCoversWrite
  BY DEF BackupInv, WriteCovered, Covered, Applies, BackupCoversWrite
<1> QED
  BY <1>1, BackupInvariant, PTL

-----------------------------------------------------------------------------
(* What a call leaves behind so that it can be taken back.                 *)

(* Nothing of the savepoints of x is lost, and x is not committed now.     *)
SavesKeep(x) ==
  /\ x \in DOMAIN txns' /\ txns'[x].tok = txns[x].tok
  /\ txns'[x].state \in {txns[x].state, "gone"}
  /\ DOMAIN txns'[x].saves = DOMAIN txns[x].saves
  /\ Len(txns'[x].saves) = Len(txns[x].saves)
  /\ \A i \in DOMAIN txns[x].saves :
       /\ txns'[x].saves[i].res = txns[x].saves[i].res
       /\ txns'[x].saves[i].content = txns[x].saves[i].content
       /\ txns'[x].saves[i].created = txns[x].saves[i].created
       /\ txns'[x].saves[i].k = txns[x].saves[i].k

(* The tools whose writes a savepoint remembers.                           *)
Remembered == Applies \cup {"backup_revert"}

(* What the item k of tk replaced stays on record.                         *)
StillReplaced(tk) ==
  tokens[tk].action \in Remembered =>
    \A k \in DOMAIN tokens[tk].items : replaced'[<<tk, k>>] = replaced[<<tk, k>>]

(* Nobody writes a target of tk, or tk is noted.                           *)
LeftAlone(tk) ==
  \A r \in Targets(tk) : content'[r] = content[r] \/ tk \in unsure'

(* The items of a call are among those the bounds admit.                   *)
LEMMA ItemBound ==
  ASSUME TypeInv, BackupInv, NEW tk \in DOMAIN tokens,
         tokens[tk].action \in Remembered
  PROVE  tk \in TokenIds /\ DOMAIN tokens[tk].items \subseteq 1..MaxItems
<1>1. /\ tokens \in Seq(Tokens) /\ Len(tokens) <= MaxTokens
      /\ tokens[tk].action \in Applies => Len(tokens[tk].items) <= MaxItems
      /\ tokens[tk].action = "backup_revert" => Len(tokens[tk].items) = 1
  BY DEF TypeInv, TypeOK, WellFormed, BackupInv, SingleItem
<1>2. tokens[tk] \in Tokens /\ tk \in 1..Len(tokens) /\ Len(tokens) \in Nat
  BY <1>1, SeqIsFun
<1>3. tokens[tk].items \in Seq(Items)
  BY <1>2 DEF Tokens
<1>4. DOMAIN tokens[tk].items = 1..Len(tokens[tk].items) /\ Len(tokens[tk].items) \in Nat
  BY <1>3, SeqIsFun
<1>0. MaxItems \in Nat /\ MaxItems >= 1
  BY ContextAssumption
<1>5. Len(tokens[tk].items) <= MaxItems
  BY <1>0, <1>1, <1>4 DEF Remembered
<1>6. tk \in 1..MaxTokens
  BY <1>1, <1>2, ContextAssumption
<1> QED
  BY <1>4, <1>5, <1>6, ContextAssumption DEF TokenIds

(* A call that has nothing to keep.                                        *)
LEMMA NothingToKeep ==
  ASSUME NEW c, c.pc \in {"idle", "rb_claim", "dash_lock", "rv_write", "rv_commit", "rv_wait"}
  PROVE  Recovers(c) /\ Recovers(c)'
<1>1. /\ c.pc \notin Forward \cup Backward \cup Batching \cup Restoring \cup Holding \cup Saving
      /\ c.pc \notin {"cfg_backup", "cfg_commit"}
  BY DEF Forward, Backward, Batching, Restoring, Holding, Saving
<1>2. ~AboutToWrite(c) /\ \A j : ~Done(c, j)
  BY <1>1 DEF AboutToWrite, Done
<1>3. /\ FindsAsShown(c) /\ CountsItems(c) /\ RecordsDone(c)
      /\ LeavesTexts(c) /\ BringsBack(c) /\ RestoresSaves(c)
  BY <1>1, <1>2 DEF FindsAsShown, CountsItems, RecordsDone, LeavesTexts, BringsBack, RestoresSaves
<1>4. /\ FindsAsShown(c)' /\ CountsItems(c)' /\ RecordsDone(c)'
      /\ LeavesTexts(c)' /\ BringsBack(c)' /\ RestoresSaves(c)'
  BY <1>1, <1>2 DEF FindsAsShown, CountsItems, RecordsDone, LeavesTexts, BringsBack, RestoresSaves
<1> QED
  BY <1>3, <1>4 DEF Recovers

(* A call nobody disturbs keeps what it has found, counted and recorded.   *)
LEMMA FoundStays ==
  ASSUME TypeInv, Grows, NEW u \in Tasks, NEW c, c = task[u],
         c.tok \in DOMAIN tokens => LeftAlone(c.tok),
         c.pc \in Transacting => StillReplaced(c.tok) /\ tokens[c.tok].action \in Remembered,
         c.pc \in Forward => SavesKeep(c.txn),
         FindsAsShown(c), CountsItems(c), RecordsDone(c)
  PROVE  (FindsAsShown(c) /\ CountsItems(c) /\ RecordsDone(c))'
<1>1. c.tok \in DOMAIN tokens => /\ tokens'[c.tok].items = tokens[c.tok].items
                                 /\ tokens'[c.tok].action = tokens[c.tok].action
  BY DEF Grows, TokensKeep
<1>2. c.pc \in AtItem => c.tok \in DOMAIN tokens /\ c.k \in DOMAIN tokens[c.tok].items
  BY CallFacts DEF AtItem, Token
<1>3. FindsAsShown(c)'
  <2> SUFFICES ASSUME c.tok \in DOMAIN tokens', c.tok \notin unsure'
               PROVE  /\ c.pc = "cfg_backup" \/ AboutToWrite(c)
                           => AsFound(c.tok, c.k, content[tokens[c.tok].items[c.k].res])'
                      /\ \A j \in DOMAIN tokens'[c.tok].items :
                           Done(c, j) => AsFound(c.tok, j, replaced[<<c.tok, j>>])'
    BY DEF FindsAsShown, AboutToWrite, Done
  <2>1. c.tok \in DOMAIN tokens /\ c.tok \notin unsure
    BY DEF Grows
  <2>2. ASSUME c.pc = "cfg_backup" \/ AboutToWrite(c)
        PROVE  AsFound(c.tok, c.k, content[tokens[c.tok].items[c.k].res])'
    <3>1. c.k \in DOMAIN tokens[c.tok].items
      BY <1>2, <2>2 DEF AboutToWrite, Saving, Holding, AtItem
    <3>2. tokens[c.tok].items[c.k].res \in Targets(c.tok)
      BY <2>1, <3>1 DEF Targets
    <3>3. content'[tokens[c.tok].items[c.k].res] = content[tokens[c.tok].items[c.k].res]
      BY <2>1, <3>2 DEF LeftAlone
    <3>4. AsFound(c.tok, c.k, content[tokens[c.tok].items[c.k].res])
      BY <2>1, <2>2 DEF FindsAsShown
    <3> QED
      BY <1>1, <2>1, <3>3, <3>4 DEF AsFound
  <2>3. ASSUME NEW j \in DOMAIN tokens[c.tok].items, Done(c, j)
        PROVE  AsFound(c.tok, j, replaced[<<c.tok, j>>])'
    <3>2. c.pc \in Transacting
      BY <2>3 DEF Done, Transacting, Forward, Backward, Holding
    <3>1. AsFound(c.tok, j, replaced[<<c.tok, j>>]) /\ replaced'[<<c.tok, j>>] = replaced[<<c.tok, j>>]
      BY <2>1, <2>3, <3>2 DEF FindsAsShown, StillReplaced
    <3> QED
      BY <1>1, <2>1, <3>1 DEF AsFound
  <2> QED
    BY <1>1, <2>1, <2>2, <2>3
<1>4. CountsItems(c)'
  <2>1. c.pc \in Batching => c.tok \in DOMAIN tokens
    BY CallFacts DEF Batching
  <2>2. ASSUME c.pc \in Batching, NEW j \in DOMAIN c.baks, c.baks[j] # 0
        PROVE  c.baks[j] \in DOMAIN backups
    <3>1. c \in Calls /\ c.baks[j] <= Len(backups)
      BY CallFacts DEF CallFits
    <3>2. c.baks \in Seq(Nat)
      BY <3>1 DEF Calls
    <3>3. c.baks[j] \in Nat
      BY <3>2, SeqIsFun
    <3>4. backups \in Seq(BackupEntries)
      BY DEF TypeInv, TypeOK
    <3>5. DOMAIN backups = 1..Len(backups) /\ Len(backups) \in Nat
      BY <3>4, SeqIsFun
    <3> QED
      BY <2>2, <3>1, <3>3, <3>5
  <2> QED
    BY <1>1, <2>1, <2>2 DEF CountsItems, Grows, BackupsKeep
<1>5. RecordsDone(c)'
  BY DEF RecordsDone, SavesKeep
<1> QED
  BY <1>3, <1>4, <1>5

(* Nor is what it left behind, or brought back, disturbed.                 *)
LEMMA TextsStay ==
  ASSUME TypeInv, Grows, NEW u \in Tasks, NEW c, c = task[u],
         c.tok \in DOMAIN tokens => LeftAlone(c.tok),
         c.pc \in Transacting => StillReplaced(c.tok) /\ tokens[c.tok].action \in Remembered,
         LeavesTexts(c), BringsBack(c)
  PROVE  (LeavesTexts(c) /\ BringsBack(c))'
<1>1. c.pc \in Forward \cup Backward => c.tok \in DOMAIN tokens /\ c.pc \in Transacting
  BY CallFacts DEF Forward, Backward, Transacting
<1>2. ASSUME c.tok \in DOMAIN tokens, c.tok \notin unsure', c.pc \in Transacting
      PROVE  /\ c.tok \notin unsure /\ tokens'[c.tok].items = tokens[c.tok].items
             /\ \A j \in DOMAIN tokens[c.tok].items :
                  /\ content'[tokens[c.tok].items[j].res] = content[tokens[c.tok].items[j].res]
                  /\ replaced'[<<c.tok, j>>] = replaced[<<c.tok, j>>]
  <2>1. \A j \in DOMAIN tokens[c.tok].items : tokens[c.tok].items[j].res \in Targets(c.tok)
    BY <1>2 DEF Targets
  <2> QED
    BY <1>2, <2>1 DEF Grows, TokensKeep, LeftAlone, StillReplaced
<1>3. LeavesTexts(c)'
  <2> SUFFICES ASSUME c.pc \in Forward, c.tok \notin unsure',
                      NEW j \in DOMAIN tokens'[c.tok].items, Done(c, j),
                      \A i \in DOMAIN tokens'[c.tok].items :
                        Done(c, i) /\ tokens'[c.tok].items[i].res = tokens'[c.tok].items[j].res
                          => i <= j
               PROVE  content'[tokens'[c.tok].items[j].res]
                        = Written(tokens'[c.tok].items[j].res, tokens'[c.tok].items[j].new)
    BY DEF LeavesTexts, Done, Written
  <2>1. c.tok \in DOMAIN tokens /\ c.pc \in Transacting
    BY <1>1
  <2>2. /\ c.tok \notin unsure /\ tokens'[c.tok].items = tokens[c.tok].items
        /\ content'[tokens[c.tok].items[j].res] = content[tokens[c.tok].items[j].res]
    BY <1>2, <2>1
  <2>3. content[tokens[c.tok].items[j].res]
          = Written(tokens[c.tok].items[j].res, tokens[c.tok].items[j].new)
    BY <2>2 DEF LeavesTexts
  <2> QED
    BY <2>2, <2>3
<1>4. BringsBack(c)'
  <2> SUFFICES ASSUME c.pc \in Backward, c.tok \notin unsure', ~c.dirty,
                      NEW j \in DOMAIN tokens'[c.tok].items, PutBack(c, j),
                      \A i \in DOMAIN tokens'[c.tok].items :
                        PutBack(c, i) /\ tokens'[c.tok].items[i].res = tokens'[c.tok].items[j].res
                          => j <= i
               PROVE  Same(tokens'[c.tok].items[j].res, content'[tokens'[c.tok].items[j].res],
                           replaced'[<<c.tok, j>>])
    BY DEF BringsBack, PutBack, Same, Written
  <2>1. c.tok \in DOMAIN tokens /\ c.pc \in Transacting
    BY <1>1
  <2> QED
    BY <1>2, <2>1 DEF BringsBack
<1> QED
  BY <1>3, <1>4

(* Nor what a rollback restored.                                           *)
LEMMA SavesStay ==
  ASSUME TypeInv, Grows, NEW c,
         c.pc \in Restoring =>
           /\ c.tok \in DOMAIN tokens /\ LeftAlone(c.tok) /\ SavesKeep(c.txn)
           /\ c.txn \in DOMAIN txns /\ txns[c.txn].tok \in DOMAIN tokens
           /\ StillReplaced(txns[c.txn].tok)
           /\ \A i \in DOMAIN txns[c.txn].saves :
                /\ txns[c.txn].saves[i].res \in Targets(c.tok)
                /\ txns[c.txn].saves[i].k \in DOMAIN tokens[txns[c.txn].tok].items
                /\ tokens[txns[c.txn].tok].action \in Remembered,
         RestoresSaves(c)
  PROVE  RestoresSaves(c)'
<1> SUFFICES ASSUME c.pc \in Restoring PROVE RestoresSaves(c)'
  BY DEF RestoresSaves
<1>1. PICK x, tk : x = c.txn /\ tk = txns[x].tok
  OBVIOUS
<1>2. /\ txns'[x].tok = tk /\ tokens'[tk].action = tokens[tk].action
      /\ DOMAIN txns'[x].saves = DOMAIN txns[x].saves
      /\ Len(txns'[x].saves) = Len(txns[x].saves)
  BY <1>1 DEF SavesKeep, Grows, TokensKeep
<1>3. \A i \in DOMAIN txns[x].saves :
        /\ txns'[x].saves[i].res = txns[x].saves[i].res
        /\ txns'[x].saves[i].created = txns[x].saves[i].created
        /\ Before(x, i)' = Before(x, i)
  BY <1>1, <1>2 DEF SavesKeep, StillReplaced, Before
<1>4. ASSUME {c.tok, tk} \cap unsure' = {}
      PROVE  /\ {c.tok, tk} \cap unsure = {}
             /\ \A i \in DOMAIN txns[x].saves :
                  content'[txns[x].saves[i].res] = content[txns[x].saves[i].res]
  BY <1>1, <1>4 DEF LeftAlone, Grows
<1>5. \A i \in DOMAIN txns[x].saves : Promised(x, i)' => Promised(x, i)
  BY <1>1, <1>2, <1>3 DEF Promised
<1>6. c.n \in {0, Len(txns'[x].saves)} /\ c.k <= c.n
  BY <1>1, <1>2 DEF RestoresSaves
<1>7. ASSUME {c.tok, tk} \cap unsure' = {}, ~c.dirty,
             NEW j \in DOMAIN txns[x].saves, PutBack(c, j), Promised(x, j)',
             \A i \in DOMAIN txns[x].saves :
               PutBack(c, i) /\ txns[x].saves[i].res = txns[x].saves[j].res => j <= i
      PROVE  Same(txns[x].saves[j].res, content[txns[x].saves[j].res], Before(x, j))
  BY <1>1, <1>4, <1>5, <1>7 DEF RestoresSaves
<1>8. ASSUME {c.tok, tk} \cap unsure' = {}, ~c.dirty,
             NEW j \in DOMAIN txns'[x].saves, PutBack(c, j), Promised(x, j)',
             \A i \in DOMAIN txns'[x].saves :
               PutBack(c, i) /\ txns'[x].saves[i].res = txns'[x].saves[j].res => j <= i
      PROVE  Same(txns'[x].saves[j].res, content'[txns'[x].saves[j].res], Before(x, j)')
  BY <1>2, <1>3, <1>4, <1>7, <1>8
<1> QED
  <2> SUFFICES ASSUME {c.tok, tk} \cap unsure' = {}, ~c.dirty,
                      NEW j \in DOMAIN txns'[x].saves, PutBack(c, j), Promised(x, j)',
                      \A i \in DOMAIN txns'[x].saves :
                        PutBack(c, i) /\ txns'[x].saves[i].res = txns'[x].saves[j].res => j <= i
               PROVE  Same(txns'[x].saves[j].res, content'[txns'[x].saves[j].res], Before(x, j)')
    BY <1>1, <1>2, <1>6 DEF RestoresSaves, PutBack, Same, Written
  <2> QED
    BY <1>8

-----------------------------------------------------------------------------
(* A step of one call, or of nobody, and the others.                       *)

(* The call of t alone may write where the others work: it notes them.     *)
OthersLeftAlone(t) ==
  \A u \in Tasks \ {t} : task[u].tok \in DOMAIN tokens => LeftAlone(task[u].tok)

(* It replaces something for its own token only, and while its own         *)
(* transaction is open.                                                    *)
OnlyOwnReplaced(t) ==
  \A tk \in DOMAIN tokens :
    StillReplaced(tk) \/ (t \in Tasks /\ task[t].pc \in Transacting /\ tk = task[t].tok)

(* It adds savepoints to its own transaction only.                         *)
SavesKept(t) ==
  \A x \in DOMAIN txns :
    SavesKeep(x) \/ (t \in Tasks /\ task[t].pc \in Transacting /\ x = task[t].txn)

(* What is known of every call.                                            *)
KnownInv == TypeInv /\ TokenInv /\ ClobberInv /\ UndoInv /\ BackupInv

(* The transaction of a call is that of its token, and no other call works *)
(* on it or under its token.                                               *)
LEMMA TransactionIsOwn ==
  ASSUME KnownInv, NEW t \in Tasks, task[t].pc \in Transacting
  PROVE  /\ task[t].txn \in DOMAIN txns /\ txns[task[t].txn].state = "open"
         /\ txns[task[t].txn].tok = task[t].tok /\ task[t].tok \in DOMAIN tokens
         /\ Token(t).action \in Remembered
         /\ \A x \in DOMAIN txns : txns[x].tok = task[t].tok => x = task[t].txn
         /\ \A u \in Tasks \ {t} :
              /\ task[u].tok # task[t].tok
              /\ task[u].pc \in Transacting => task[u].txn # task[t].txn
<1>1. /\ task[t].txn \in DOMAIN txns /\ txns[task[t].txn].state = "open"
      /\ txns[task[t].txn].tok = task[t].tok
  BY DEF KnownInv, UndoInv, TransactionsMatch, CallMatches
<1>2. task[t].pc \notin {"idle", "rb_claim"}
  BY DEF Transacting
<1>3. task[t].tok \in DOMAIN tokens /\ \A u \in Tasks \ {t} : task[u].tok # task[t].tok
  BY <1>2, OwnToken DEF KnownInv
<1>4. \A x \in DOMAIN txns : txns[x].tok = task[t].tok => x = task[t].txn
  BY <1>1 DEF KnownInv, UndoInv, TransactionsAreOwn
<1>5. \A u \in Tasks \ {t} : task[u].pc \in Transacting => txns[task[u].txn].tok = task[u].tok
  BY DEF KnownInv, UndoInv, TransactionsMatch, CallMatches
<1>6. Token(t).action \in Remembered
  BY DEF KnownInv, BackupInv, OfKind, ClobberInv, RecheckHolds, KeepsPlace, Token,
         Remembered, Applies, Transacting, Batching
<1> QED
  BY <1>1, <1>3, <1>4, <1>5, <1>6

(* A rollback works on the savepoints of a committed transaction, and its  *)
(* token shows their targets.                                              *)
LEMMA RestoredSaves ==
  ASSUME KnownInv, RecoveryInv, NEW u \in Tasks, task[u].pc \in Restoring
  PROVE  LET x == task[u].txn
         IN  /\ task[u].tok \in DOMAIN tokens
             /\ x \in DOMAIN txns /\ txns[x].state = "committed" /\ txns[x].tok \in DOMAIN tokens
             /\ \A i \in DOMAIN txns[x].saves :
                  /\ txns[x].saves[i].res \in Targets(task[u].tok)
                  /\ txns[x].saves[i].k \in DOMAIN tokens[txns[x].tok].items
                  /\ tokens[txns[x].tok].action \in Remembered
<1>1. PICK x, tk : x = task[u].txn /\ tk = task[u].tok
  OBVIOUS
<1>2. x \in DOMAIN txns /\ txns[x].state = "committed" /\ txns[x].tok \in DOMAIN tokens
  BY <1>1 DEF KnownInv, UndoInv, TransactionsMatch, CallMatches, RollingBack, TransactionsAreOwn
<1>3. tk \in DOMAIN tokens
  BY <1>1, CallFacts DEF KnownInv, Restoring
<1>4. tokens[tk].action = "rollback" /\ tokens[tk].txn = x
  BY <1>1 DEF KnownInv, BackupInv, OfKind
<1>5. TokenFits(tk)
  BY <1>3 DEF RecoveryInv
<1>6. \A i \in DOMAIN txns[x].saves : txns[x].saves[i].res \in Targets(tk)
  BY <1>4, <1>5 DEF TokenFits
<1>7. \A i \in DOMAIN txns[x].saves : SavepointFits(x, i)
  BY <1>2 DEF RecoveryInv
<1>8. \A i \in DOMAIN txns[x].saves :
        /\ txns[x].saves[i].k \in DOMAIN tokens[txns[x].tok].items
        /\ tokens[txns[x].tok].action \in Remembered
  BY <1>7 DEF SavepointFits, Remembered
<1> QED
  BY <1>1, <1>2, <1>3, <1>6, <1>8

(* So the other calls can still go on, or back.                            *)
LEMMA OthersRecover ==
  ASSUME KnownInv, RecoveryInv, Grows, NEW t,
         OthersLeftAlone(t), OnlyOwnReplaced(t), SavesKept(t),
         NEW u \in Tasks \ {t}, task'[u] = task[u]
  PROVE  Recovers(task[u])'
<1>1. PICK c : c = task[u]
  OBVIOUS
<1>2. TypeInv /\ Recovers(c)
  BY <1>1 DEF KnownInv, RecoveryInv
<1>4. /\ c.tok \in DOMAIN tokens => LeftAlone(c.tok)
      /\ c.pc \in Transacting => StillReplaced(c.tok) /\ tokens[c.tok].action \in Remembered
  BY <1>1, TransactionIsOwn DEF OthersLeftAlone, OnlyOwnReplaced, Token
<1>5. c.pc \in Transacting => SavesKeep(c.txn)
  BY <1>1, TransactionIsOwn DEF SavesKept
<1>6. Forward \subseteq Transacting
  BY DEF Forward, Transacting
<1>7. FindsAsShown(c) /\ CountsItems(c) /\ RecordsDone(c) /\ LeavesTexts(c)
      /\ BringsBack(c) /\ RestoresSaves(c)
  BY <1>2 DEF Recovers
<1>8. (FindsAsShown(c) /\ CountsItems(c) /\ RecordsDone(c))'
  BY <1>1, <1>2, <1>4, <1>5, <1>6, <1>7, FoundStays
<1>9. (LeavesTexts(c) /\ BringsBack(c))'
  BY <1>1, <1>2, <1>4, <1>7, TextsStay
<1>10. c.pc \in Restoring =>
           /\ c.tok \in DOMAIN tokens /\ LeftAlone(c.tok) /\ SavesKeep(c.txn)
           /\ c.txn \in DOMAIN txns /\ txns[c.txn].tok \in DOMAIN tokens
           /\ StillReplaced(txns[c.txn].tok)
           /\ \A i \in DOMAIN txns[c.txn].saves :
                /\ txns[c.txn].saves[i].res \in Targets(c.tok)
                /\ txns[c.txn].saves[i].k \in DOMAIN tokens[txns[c.txn].tok].items
                /\ tokens[txns[c.txn].tok].action \in Remembered
  <2> SUFFICES ASSUME c.pc \in Restoring
               PROVE  /\ c.tok \in DOMAIN tokens /\ LeftAlone(c.tok) /\ SavesKeep(c.txn)
                      /\ c.txn \in DOMAIN txns /\ txns[c.txn].tok \in DOMAIN tokens
                      /\ StillReplaced(txns[c.txn].tok)
                      /\ \A i \in DOMAIN txns[c.txn].saves :
                           /\ txns[c.txn].saves[i].res \in Targets(c.tok)
                           /\ txns[c.txn].saves[i].k \in DOMAIN tokens[txns[c.txn].tok].items
                           /\ tokens[txns[c.txn].tok].action \in Remembered
    OBVIOUS
  <2>1. /\ c.tok \in DOMAIN tokens
        /\ c.txn \in DOMAIN txns /\ txns[c.txn].state = "committed"
        /\ txns[c.txn].tok \in DOMAIN tokens
        /\ \A i \in DOMAIN txns[c.txn].saves :
             /\ txns[c.txn].saves[i].res \in Targets(c.tok)
             /\ txns[c.txn].saves[i].k \in DOMAIN tokens[txns[c.txn].tok].items
             /\ tokens[txns[c.txn].tok].action \in Remembered
    BY <1>1, RestoredSaves
  <2>2. t \in Tasks /\ task[t].pc \in Transacting =>
          /\ txns[task[t].txn].state = "open"
          /\ \A x \in DOMAIN txns : txns[x].tok = task[t].tok => x = task[t].txn
    BY TransactionIsOwn
  <2>3. SavesKeep(c.txn)
    BY <2>1, <2>2 DEF SavesKept
  <2>4. StillReplaced(txns[c.txn].tok)
    BY <2>1, <2>2 DEF OnlyOwnReplaced
  <2> QED
    BY <1>4, <2>1, <2>3, <2>4
<1>11. RestoresSaves(c)'
  BY <1>2, <1>7, <1>10, SavesStay
<1>12. Recovers(c)'
  BY <1>8, <1>9, <1>11 DEF Recovers
<1>13. c = task'[u]
  BY <1>1
<1> QED
  BY <1>12, <1>13 DEF Recovers, FindsAsShown, CountsItems, RecordsDone, LeavesTexts, BringsBack, RestoresSaves

(* A transaction that keeps its savepoints keeps what they say.            *)
LEMMA SavepointStays ==
  ASSUME Grows, NEW x \in DOMAIN txns, SavesKeep(x), txns[x].tok \in DOMAIN tokens,
         txns[x].state = "committed" => StillReplaced(txns[x].tok),
         NEW i \in DOMAIN txns[x].saves, SavepointFits(x, i)
  PROVE  SavepointFits(x, i)'
<1>1. PICK tk, k : tk = txns[x].tok /\ k = txns[x].saves[i].k
  OBVIOUS
<1>2. txns'[x].tok = tk /\ txns'[x].saves[i].k = k
  BY <1>1 DEF SavesKeep
<1>3. tokens'[tk].action = tokens[tk].action /\ tokens'[tk].items = tokens[tk].items
  BY <1>1 DEF Grows, TokensKeep
<1>4. /\ tokens[tk].action \in Remembered
      /\ k \in DOMAIN tokens[tk].items
      /\ txns'[x].saves[i].res = tokens[tk].items[k].res
      /\ txns'[x].saves[i].content = tokens[tk].items[k].old
      /\ txns'[x].saves[i].created = tokens[tk].items[k].create
  BY <1>1 DEF SavepointFits, SavesKeep, Remembered
<1>5. ASSUME txns'[x].state = "committed", tk \notin unsure', tokens'[tk].action # "backup_revert"
      PROVE  AsFound(tk, k, replaced[<<tk, k>>])'
  <2>1. txns[x].state = "committed" /\ tk \notin unsure
    BY <1>5 DEF SavesKeep, Grows
  <2>2. replaced'[<<tk, k>>] = replaced[<<tk, k>>]
    BY <1>1, <1>4, <2>1 DEF StillReplaced, Remembered
  <2>3. AsFound(tk, k, replaced[<<tk, k>>])
    BY <1>1, <1>3, <1>5, <2>1 DEF SavepointFits
  <2> QED
    BY <1>3, <2>2, <2>3 DEF AsFound
<1> QED
  BY <1>2, <1>3, <1>4, <1>5 DEF SavepointFits, Remembered

(* So do the tokens.                                                       *)
LEMMA TokensStillFit ==
  ASSUME KnownInv, RecoveryInv, Grows, NEW t, SavesKept(t)
  PROVE  \A tk \in DOMAIN tokens' : TokenFits(tk)'
<1> SUFFICES ASSUME NEW tk \in DOMAIN tokens PROVE TokenFits(tk)'
  BY DEF Grows
<1>1. TokenFits(tk)
  BY DEF RecoveryInv
<1>2. /\ tokens'[tk].action = tokens[tk].action /\ tokens'[tk].items = tokens[tk].items
      /\ tokens'[tk].txn = tokens[tk].txn
      /\ tk \in DOMAIN tokens'
  BY DEF Grows, TokensKeep
<1>3. Targets(tk)' = Targets(tk)
  BY <1>2 DEF Targets
<1>4. ASSUME tokens[tk].action = "rollback"
      PROVE  LET x == tokens[tk].txn
             IN  /\ x \in DOMAIN txns' /\ txns'[x].state # "open"
                 /\ \A i \in DOMAIN txns'[x].saves : txns'[x].saves[i].res \in Targets(tk)
  <2>1. PICK x : x = tokens[tk].txn
    OBVIOUS
  <2>2. /\ x \in DOMAIN txns /\ txns[x].state # "open"
        /\ \A i \in DOMAIN txns[x].saves : txns[x].saves[i].res \in Targets(tk)
    BY <1>1, <1>4, <2>1 DEF TokenFits
  <2>4. SavesKeep(x)
    BY <2>2, TransactionIsOwn DEF SavesKept
  <2> QED
    BY <2>1, <2>2, <2>4 DEF SavesKeep
<1> QED
  BY <1>1, <1>2, <1>3, <1>4 DEF TokenFits

(* And a save that somebody waits for.                                     *)
LEMMA SaveStillFits ==
  ASSUME KnownInv, RecoveryInv, Grows, NEW t, SavesKept(t),
         NEW u \in Tasks \ {t}, NEW e \in inflight, NEW c, c = task[u]
  PROVE  SaveFits(e, c)'
<1>1. SaveFits(e, c) /\ TypeInv
  BY DEF RecoveryInv, KnownInv
<1>2. c.pc \in Holding \cup {"b_uwait"} => c.tok \in DOMAIN tokens
  BY <1>1, CallFacts DEF Holding
<1>3. c.tok \in DOMAIN tokens => tokens'[c.tok].items = tokens[c.tok].items
  BY DEF Grows, TokensKeep
<1>4. ASSUME c.pc = "rb_wait" PROVE SavesKeep(c.txn) /\ c.k \in DOMAIN txns[c.txn].saves
  <2>1. c.txn \in DOMAIN txns /\ txns[c.txn].state = "committed"
    BY <1>4, RestoredSaves DEF Restoring
  <2>3. SavesKeep(c.txn)
    BY <2>1, TransactionIsOwn DEF SavesKept
  <2>4. c \in Calls /\ c.k >= 1 /\ c.k <= Len(txns[c.txn].saves)
    BY <1>1, <1>4, CallFacts DEF CallFits
  <2>5. DOMAIN txns[c.txn].saves = 1..Len(txns[c.txn].saves) /\ Len(txns[c.txn].saves) \in Nat
    BY <1>1, <2>1, SavepointsOf
  <2>6. c.k \in Nat
    BY <2>4 DEF Calls
  <2> QED
    BY <2>3, <2>4, <2>5, <2>6
<1> QED
  BY <1>1, <1>2, <1>3, <1>4 DEF SaveFits, SavesKeep, Holding

(* A step of the call of t, which becomes c, keeps the invariant when c    *)
(* itself can go on and what it sends is its own save.                     *)
LEMMA RecoverActs ==
  ASSUME KnownInv, TypeInv', TokenInv', RecoveryInv, Grows, NEW t \in Tasks,
         \A u \in Tasks \ {t} : task'[u] = task[u], NEW c, task'[t] = c,
         OthersLeftAlone(t), OnlyOwnReplaced(t), SavesKept(t),
         \A x \in DOMAIN txns' :
           (x \in DOMAIN txns /\ SavesKeep(x)) \/ \A i \in DOMAIN txns'[x].saves : SavepointFits(x, i)',
         Recovers(c)',
         \A e \in inflight' :
           e.heard => \/ e \in inflight /\ e.tok # c.tok
                      \/ e.tok = c.tok /\ SaveFits(e, c)'
  PROVE  RecoveryInv'
<1>1. \A tk \in DOMAIN tokens' : TokenFits(tk)'
  BY TokensStillFit
<1>2. ASSUME NEW x \in DOMAIN txns', NEW i \in DOMAIN txns'[x].saves
      PROVE  SavepointFits(x, i)'
  <2> SUFFICES ASSUME x \in DOMAIN txns, SavesKeep(x) PROVE SavepointFits(x, i)'
    OBVIOUS
  <2>1. txns[x].tok \in DOMAIN tokens /\ i \in DOMAIN txns[x].saves
    BY DEF KnownInv, UndoInv, TransactionsAreOwn, SavesKeep
  <2>2. txns[x].state = "committed" => StillReplaced(txns[x].tok)
    BY <2>1, TransactionIsOwn DEF OnlyOwnReplaced
  <2>3. SavepointFits(x, i)
    BY <2>1 DEF RecoveryInv
  <2> QED
    BY <2>1, <2>2, <2>3, SavepointStays
<1>3. ASSUME NEW u \in Tasks PROVE Recovers(task[u])'
  <2>1. CASE u = t
    BY <2>1 DEF Recovers, FindsAsShown, CountsItems, RecordsDone, LeavesTexts, BringsBack, RestoresSaves
  <2>2. CASE u # t
    BY <2>2, OthersRecover
  <2> QED
    BY <2>1, <2>2
<1>4. ASSUME NEW e \in inflight', NEW u \in Tasks PROVE SaveFits(e, task[u])'
  <2> SUFFICES ASSUME e.heard, e.tok = task'[u].tok PROVE SaveFits(e, task[u])'
    BY DEF SaveFits
  <2>1. CASE u = t
    BY <2>1 DEF SaveFits
  <2>2. CASE u # t
    <3>1. e.tok \in TokenIds /\ e.tok # 0
      BY ContextAssumption DEF TypeInv, TypeOK, Saves, TokenIds
    <3>2. e.tok # c.tok
      BY <2>2, <3>1 DEF TokenInv, TokenDrivesOneCall
    <3>3. e \in inflight
      BY <3>2
    <3>4. PICK d : d = task[u]
      OBVIOUS
    <3>5. SaveFits(e, d)'
      BY <2>2, <3>3, <3>4, SaveStillFits
    <3>6. d = task'[u]
      BY <2>2, <3>4
    <3> QED
      BY <3>5, <3>6 DEF SaveFits
  <2> QED
    BY <2>1, <2>2
<1> QED
  BY <1>1, <1>2, <1>3, <1>4 DEF RecoveryInv

(* What nobody's call does keeps the invariant when it notes every call it *)
(* disturbs.                                                               *)
LEMMA RecoverStill ==
  ASSUME KnownInv, RecoveryInv, Grows, UNCHANGED task,
         \A u \in Tasks : task[u].tok \in DOMAIN tokens => LeftAlone(task[u].tok),
         UNCHANGED replaced, UNCHANGED txns,
         \A e \in inflight' : e.heard => e \in inflight
  PROVE  RecoveryInv'
<1>1. PICK t : t \notin Tasks
  BY ContextAssumption
<1>2. OthersLeftAlone(t) /\ OnlyOwnReplaced(t)
  BY DEF OthersLeftAlone, OnlyOwnReplaced, StillReplaced
<1>3. SavesKept(t) /\ \A x \in DOMAIN txns : SavesKeep(x)
  BY DEF SavesKept, SavesKeep
<1>4. \A tk \in DOMAIN tokens' : TokenFits(tk)'
  BY <1>3, TokensStillFit
<1>5. ASSUME NEW x \in DOMAIN txns', NEW i \in DOMAIN txns'[x].saves
      PROVE  SavepointFits(x, i)'
  <2>1. txns[x].tok \in DOMAIN tokens /\ i \in DOMAIN txns[x].saves
    BY DEF KnownInv, UndoInv, TransactionsAreOwn
  <2>2. StillReplaced(txns[x].tok)
    BY DEF StillReplaced
  <2>3. SavepointFits(x, i)
    BY <2>1 DEF RecoveryInv
  <2> QED
    BY <1>3, <2>1, <2>2, <2>3, SavepointStays
<1>6. ASSUME NEW u \in Tasks PROVE Recovers(task[u])'
  BY <1>1, <1>2, <1>3, OthersRecover
<1>7. ASSUME NEW e \in inflight', NEW u \in Tasks PROVE SaveFits(e, task[u])'
  <2> SUFFICES ASSUME e.heard PROVE SaveFits(e, task[u])'
    BY DEF SaveFits
  <2>1. PICK d : d = task[u]
    OBVIOUS
  <2>2. SaveFits(e, d)'
    BY <1>1, <1>3, <2>1, SaveStillFits
  <2> QED
    BY <2>1, <2>2 DEF SaveFits
<1> QED
  BY <1>4, <1>5, <1>6, <1>7 DEF RecoveryInv

(* A write notes every other call that works on the resource.              *)
LEMMA WriteIsNoted ==
  ASSUME KnownInv, NEW tk, NEW r, NEW v, NEW who, Write(r, v, who, tk)
  PROVE  /\ unsure \subseteq unsure'
         /\ \A u \in Tasks :
              task[u].tok \in DOMAIN tokens /\ task[u].tok # tk => LeftAlone(task[u].tok)
<1>1. /\ content \in [Resources -> Contents \cup {Absent}]
      /\ content' = [content EXCEPT ![r] = v]
      /\ unsure' = unsure \cup Bystanders(r, tk)
  BY DEF KnownInv, TypeInv, TypeOK, Write
<1>2. ASSUME NEW u \in Tasks, task[u].tok \in DOMAIN tokens, task[u].tok # tk,
             NEW s \in Targets(task[u].tok)
      PROVE  content'[s] = content[s] \/ task[u].tok \in unsure'
  <2>1. CASE s # r
    BY <1>1, <2>1
  <2>2. CASE s = r
    <3>1. task[u].tok # 0
      BY <1>2, ZeroIsNoToken DEF KnownInv
    <3>2. task[u].tok \in Bystanders(r, tk)
      BY <1>2, <2>2, <3>1 DEF Bystanders
    <3> QED
      BY <1>1, <3>2
  <2> QED
    BY <2>1, <2>2
<1> QED
  BY <1>1, <1>2 DEF LeftAlone

(* Nothing is heard for a call that does not wait, or has its answer.      *)
LEMMA NothingHeard ==
  ASSUME KnownInv, NEW t \in Tasks, task[t].pc \notin Waiting \/ task[t].reply # "none",
         NEW e \in inflight, e.heard
  PROVE  e.tok # task[t].tok /\ e.tok # 0
<1>1. e.tok \in TokenIds /\ e.tok # 0
  BY ContextAssumption DEF KnownInv, TypeInv, TypeOK, Saves, TokenIds
<1>2. PICK u \in Tasks : AwaitedBy(e, u)
  BY DEF KnownInv, ClobberInv, SavesAwaited
<1>3. task[u].tok = e.tok /\ task[u].pc \in Waiting /\ task[u].reply = "none"
  BY <1>2 DEF AwaitedBy
<1>4. u # t
  BY <1>3
<1> QED
  BY <1>1, <1>3, <1>4 DEF KnownInv, TokenInv, TokenDrivesOneCall

(* Nor for a token that is claimed now.                                    *)
LEMMA NothingHeardNew ==
  ASSUME KnownInv, NEW tk, ClaimToken(tk), NEW e \in inflight, e.heard
  PROVE  e.tok # tk
<1>1. PICK u \in Tasks : AwaitedBy(e, u)
  BY DEF KnownInv, ClobberInv, SavesAwaited
<1> QED
  BY <1>1, LiveIsNobodys DEF KnownInv, AwaitedBy

(* Marking, dropping or opening transactions keeps what the others say.    *)
LEMMA TxnsKept ==
  ASSUME TypeInv,
         \/ UNCHANGED txns
         \/ \E x : RollbackTransaction(x) \/ Discard(x)
         \/ \E tk, saves : Begin(tk, saves)
  PROVE  /\ \A x \in DOMAIN txns : SavesKeep(x)
         /\ \/ DOMAIN txns' = DOMAIN txns
            \/ \E tk, saves : Begin(tk, saves)
<1>1. txns \in Seq(Txns)
  BY DEF TypeInv, TypeOK
<1>2. CASE UNCHANGED txns
  BY <1>2 DEF SavesKeep
<1>3. ASSUME NEW x, RollbackTransaction(x)
      PROVE  DOMAIN txns' = DOMAIN txns /\ \A y \in DOMAIN txns : SavesKeep(y)
  <2> SUFFICES ASSUME NEW y \in DOMAIN txns PROVE SavesKeep(y)
    BY <1>3 DEF RollbackTransaction
  <2>1. txns[y].saves \in Seq(Savepoints) /\ txns[y] \in Txns
    BY <1>1, SavepointsOf, SeqIsFun
  <2>2. DOMAIN txns[y].saves = 1..Len(txns[y].saves) /\ Len(txns[y].saves) \in Nat
    BY SavepointsOf
  <2> DEFINE v == [i \in DOMAIN txns[y].saves |-> [txns[y].saves[i] EXCEPT !.undone = TRUE]]
  <2>3. \A i \in DOMAIN txns[y].saves : txns[y].saves[i] \in Savepoints
    BY SavepointsOf
  <2>4. \A i \in DOMAIN txns[y].saves :
          /\ v[i] \in Savepoints
          /\ v[i].res = txns[y].saves[i].res /\ v[i].content = txns[y].saves[i].content
          /\ v[i].created = txns[y].saves[i].created /\ v[i].k = txns[y].saves[i].k
    BY <2>3 DEF Savepoints
  <2>5. v \in [1..Len(txns[y].saves) -> Savepoints]
    BY <2>2, <2>4
  <2>6. Len(v) = Len(txns[y].saves) /\ DOMAIN v = DOMAIN txns[y].saves
    BY <2>2, <2>5, FunIsSeq
  <2> HIDE DEF v
  <2>7. CASE y = x
    <3>1. txns'[y] = [txns[y] EXCEPT !.saves = v]
      BY <1>1, <1>3, <2>7 DEF RollbackTransaction, v
    <3>2. txns'[y].saves = v /\ txns'[y].tok = txns[y].tok /\ txns'[y].state = txns[y].state
      BY <2>1, <3>1 DEF Txns
    <3>3. y \in DOMAIN txns'
      BY <1>3 DEF RollbackTransaction
    <3> QED
      BY <2>4, <2>6, <3>2, <3>3 DEF SavesKeep
  <2>8. CASE y # x
    <3>1. txns'[y] = txns[y] /\ y \in DOMAIN txns'
      BY <1>1, <1>3, <2>8 DEF RollbackTransaction
    <3> QED
      BY <3>1 DEF SavesKeep
  <2> QED
    BY <2>7, <2>8
<1>4. ASSUME NEW x, Discard(x) PROVE DOMAIN txns' = DOMAIN txns /\ \A y \in DOMAIN txns : SavesKeep(y)
  <2> SUFFICES ASSUME NEW y \in DOMAIN txns PROVE SavesKeep(y)
    BY <1>4 DEF Discard
  <2>1. txns[y] \in Txns
    BY <1>1, SeqIsFun
  <2>2. /\ y \in DOMAIN txns' /\ txns'[y].saves = txns[y].saves /\ txns'[y].tok = txns[y].tok
        /\ txns'[y].state \in {txns[y].state, "gone"}
    BY <1>1, <1>4, <2>1 DEF Discard, Txns
  <2> QED
    BY <2>2 DEF SavesKeep
<1>5. ASSUME NEW tk, NEW saves, Begin(tk, saves) PROVE \A y \in DOMAIN txns : SavesKeep(y)
  <2>1. \A y \in DOMAIN txns : txns'[y] = txns[y] /\ y \in DOMAIN txns'
    BY <1>1, <1>5 DEF Begin
  <2> QED
    BY <2>1 DEF SavesKeep
<1> QED
  BY <1>2, <1>3, <1>4, <1>5

(* A list of one thing, and one of none.                                   *)
LEMMA OneOrNone ==
  ASSUME NEW s, NEW i
  PROVE  /\ i \in DOMAIN <<s>> => <<s>>[i] = s
         /\ i \notin DOMAIN << >>
<1>1. DOMAIN <<s>> = {1} /\ <<s>>[1] = s
  OBVIOUS
<1>2. << >> \in Seq({}) /\ Len(<< >>) = 0
  OBVIOUS
<1>3. DOMAIN << >> = 1..0
  BY <1>2, SeqIsFun
<1> QED
  BY <1>1, <1>3

(* What is asked of the transactions in RecoverActs.                       *)
TxnsFit(t) ==
  /\ SavesKept(t)
  /\ \A x \in DOMAIN txns' :
       (x \in DOMAIN txns /\ SavesKeep(x)) \/ \A i \in DOMAIN txns'[x].saves : SavepointFits(x, i)'

(* A transaction is opened empty, or with the savepoint of the first item. *)
LEMMA BeginFits ==
  ASSUME TypeInv, NEW t, NEW tk, NEW saves, Begin(tk, saves),
         tokens'[tk].items = tokens[tk].items, tokens'[tk].action = tokens[tk].action,
         \/ saves = <<>>
         \/ /\ 1 \in DOMAIN tokens[tk].items /\ ~tokens[tk].items[1].create
            /\ tokens[tk].items[1] \in Items
            /\ tokens[tk].action \in Remembered
            /\ saves = <<Savepoint(tokens[tk].items[1].res, tokens[tk].items[1].old, FALSE, 1)>>
  PROVE  TxnsFit(t)
<1>1. \A x \in DOMAIN txns : SavesKeep(x)
  BY TxnsKept
<1>2. txns \in Seq(Txns)
  BY DEF TypeInv, TypeOK
<1>7. PICK n : n = Len(txns) + 1
  OBVIOUS
<1> DEFINE new == [state |-> "open", tok |-> tk, saves |-> saves]
<1>3. txns' = Append(txns, new)
  BY DEF Begin
<1>4. new.state = "open" /\ new.tok = tk /\ new.saves = saves
  OBVIOUS
<1> HIDE DEF new
<1>5. DOMAIN txns' = DOMAIN txns \cup {n} /\ txns'[n] = new
  BY <1>2, <1>3, <1>7
<1>6. ASSUME NEW i \in DOMAIN saves PROVE SavepointFits(n, i)'
  <2> DEFINE sp == Savepoint(tokens[tk].items[1].res, tokens[tk].items[1].old, FALSE, 1)
  <2>1. /\ 1 \in DOMAIN tokens[tk].items /\ ~tokens[tk].items[1].create
        /\ tokens[tk].items[1] \in Items
        /\ tokens[tk].action \in Remembered
        /\ saves = <<sp>>
    BY <1>6, OneOrNone
  <2>2. /\ sp.res = tokens[tk].items[1].res /\ sp.content = tokens[tk].items[1].old
        /\ sp.created = FALSE /\ sp.k = 1
    BY DEF Savepoint
  <2> HIDE DEF sp
  <2>3. saves[i] = sp
    BY <1>6, <2>1, OneOrNone
  <2>4. tokens[tk].items[1].create \in BOOLEAN
    BY <2>1 DEF Items
  <2> QED
    BY <1>4, <1>5, <2>1, <2>2, <2>3, <2>4 DEF SavepointFits, Remembered
<1> QED
  BY <1>1, <1>4, <1>5, <1>6 DEF TxnsFit, SavesKept

(* Transactions nobody opens, extends or commits.                          *)
LEMMA SameTxnsFit ==
  ASSUME TypeInv, NEW t, UNCHANGED txns \/ \E x : RollbackTransaction(x) \/ Discard(x)
  PROVE  TxnsFit(t)
<1>1. /\ \A x \in DOMAIN txns : SavesKeep(x)
      /\ \/ DOMAIN txns' = DOMAIN txns
         \/ \E tk, saves : Begin(tk, saves)
  BY TxnsKept
<1>2. DOMAIN txns' = DOMAIN txns
  BY DEF RollbackTransaction, Discard
<1> QED
  BY <1>1, <1>2 DEF TxnsFit, SavesKept

(* A transaction that is committed says of every item what it replaced.    *)
LEMMA CommitFits ==
  ASSUME KnownInv, RecoveryInv, NEW t \in Tasks, NEW c, c = task[t], c.pc \in Transacting,
         Commit(c.txn), UNCHANGED <<tokens, replaced, unsure>>,
         \/ tokens[c.tok].action = "backup_revert"
         \/ \A i \in DOMAIN txns[c.txn].saves : Done(c, txns[c.txn].saves[i].k)
  PROVE  TxnsFit(t)
<1>1. PICK x, tk : x = c.txn /\ tk = c.tok
  OBVIOUS
<1>2. x \in DOMAIN txns /\ txns[x].tok = tk /\ tk \in DOMAIN tokens
  BY <1>1, TransactionIsOwn
<1>3. txns \in Seq(Txns)
  BY DEF KnownInv, TypeInv, TypeOK
<1>4. txns[x] \in Txns
  BY <1>2, <1>3, SeqIsFun
<1>5. /\ DOMAIN txns' = DOMAIN txns
      /\ \A y \in DOMAIN txns \ {x} : txns'[y] = txns[y]
      /\ txns'[x].saves = txns[x].saves /\ txns'[x].tok = txns[x].tok
  BY <1>1, <1>2, <1>3, <1>4 DEF Commit, Txns
<1>6. \A y \in DOMAIN txns \ {x} : SavesKeep(y)
  BY <1>5 DEF SavesKeep
<1>7. ASSUME NEW i \in DOMAIN txns'[x].saves PROVE SavepointFits(x, i)'
  <2>1. SavepointFits(x, i) /\ FindsAsShown(c)
    BY <1>2, <1>5, <1>7 DEF RecoveryInv, Recovers
  <2>2. PICK k : k = txns[x].saves[i].k
    OBVIOUS
  <2>3. ASSUME tk \notin unsure, tokens[tk].action # "backup_revert"
        PROVE  AsFound(tk, k, replaced[<<tk, k>>])
    <3>1. Done(c, k) /\ k \in DOMAIN tokens[tk].items
      BY <1>1, <1>2, <1>5, <1>7, <2>1, <2>2, <2>3 DEF SavepointFits
    <3> QED
      BY <1>1, <1>2, <2>1, <2>3, <3>1 DEF FindsAsShown
  <2>4. ASSUME tk \notin unsure', tokens'[tk].action # "backup_revert"
        PROVE  AsFound(tk, k, replaced[<<tk, k>>])'
    BY <2>3, <2>4 DEF AsFound
  <2> QED
    BY <1>2, <1>5, <2>1, <2>2, <2>4 DEF SavepointFits
<1> QED
  BY <1>1, <1>5, <1>6, <1>7 DEF TxnsFit, SavesKept

(* A batch adds the savepoint of the item it has executed.                 *)
LEMMA AddFits ==
  ASSUME KnownInv, RecoveryInv, NEW t \in Tasks, task[t].pc \in {"b_write", "b_wait"},
         UNCHANGED tokens, NEW o,
         AddSavepoint(task[t].txn, Savepoint(Item(t).res, o, Item(t).create, task[t].k)),
         o = Item(t).old
  PROVE  /\ TxnsFit(t)
         /\ LET x == task[t].txn
            IN  \A i \in DOMAIN txns'[x].saves :
                  \/ i \in DOMAIN txns[x].saves /\ txns'[x].saves[i].k = txns[x].saves[i].k
                  \/ txns'[x].saves[i].k = task[t].k
<1>1. PICK x, tk, k : x = task[t].txn /\ tk = task[t].tok /\ k = task[t].k
  OBVIOUS
<1>2. /\ x \in DOMAIN txns /\ txns[x].tok = tk /\ tk \in DOMAIN tokens
      /\ txns[x].state = "open"
  BY <1>1, TransactionIsOwn DEF Transacting
<1>3. txns \in Seq(Txns)
  BY DEF KnownInv, TypeInv, TypeOK
<1>14. txns[x] \in Txns
  BY <1>2, <1>3, SeqIsFun
<1>4. txns[x] \in Txns /\ txns[x].saves \in Seq(Savepoints)
  BY <1>14 DEF Txns
<1>5. k \in DOMAIN tokens[tk].items /\ Item(t) = tokens[tk].items[k] /\ Item(t) \in Items
  BY <1>1, CallFacts DEF KnownInv, AtItem, Item, Token
<1>6. tokens[tk].action = "batch_apply"
  BY <1>1 DEF KnownInv, ClobberInv, RecheckHolds, KeepsPlace, Batching, Token
<1> DEFINE sp == Savepoint(Item(t).res, o, Item(t).create, k)
           s == Append(txns[x].saves, sp)
<1>7. sp \in Savepoints
  <2>1. Item(t).res \in Resources /\ Item(t).old \in Contents /\ Item(t).create \in BOOLEAN
    BY <1>5 DEF Items
  <2>2. k \in Nat
    BY <1>1, CallFacts DEF KnownInv, Calls
  <2> QED
    BY <2>1, <2>2, NewSavepoint
<1>8. sp.res = Item(t).res /\ sp.content = Item(t).old /\ sp.created = Item(t).create /\ sp.k = k
  BY DEF Savepoint
<1> HIDE DEF sp
<1>9. /\ DOMAIN s = DOMAIN txns[x].saves \cup {Len(txns[x].saves) + 1}
      /\ \A i \in DOMAIN txns[x].saves : s[i] = txns[x].saves[i]
      /\ s[Len(txns[x].saves) + 1] = sp
  BY <1>4, <1>7, SeqAppend
<1>10. txns' = [txns EXCEPT ![x].saves = s]
  BY <1>1 DEF AddSavepoint, sp
<1> HIDE DEF s
<1>11. /\ DOMAIN txns' = DOMAIN txns
       /\ \A y \in DOMAIN txns \ {x} : txns'[y] = txns[y]
       /\ txns'[x].saves = s /\ txns'[x].tok = tk /\ txns'[x].state = "open"
  BY <1>2, <1>3, <1>4, <1>10 DEF Txns
<1>12. \A y \in DOMAIN txns \ {x} : SavesKeep(y)
  BY <1>11 DEF SavesKeep
<1>13. ASSUME NEW i \in DOMAIN s PROVE SavepointFits(x, i)'
  <2>1. CASE i \in DOMAIN txns[x].saves
    <3>1. SavepointFits(x, i)
      BY <1>2, <2>1 DEF RecoveryInv
    <3> QED
      BY <1>2, <1>9, <1>11, <2>1, <3>1 DEF SavepointFits
  <2>2. CASE i = Len(txns[x].saves) + 1
    BY <1>5, <1>6, <1>8, <1>9, <1>11, <2>2 DEF SavepointFits, Applies
  <2> QED
    BY <1>9, <2>1, <2>2
<1> QED
  BY <1>1, <1>8, <1>9, <1>11, <1>12, <1>13 DEF TxnsFit, SavesKept, Transacting

(* What a call may do to the tokens and the backups.                       *)
LEMMA CallGrows ==
  ASSUME TypeInv, UNCHANGED tokens \/ \E tk : ClaimToken(tk),
         UNCHANGED backups \/ \E r \in Resources, v \in Contents : BackUp(r, v),
         unsure \subseteq unsure'
  PROVE  Grows
BY TokensGrow, BackupsGrow DEF Grows

(* Nothing is heard for the call that acts, whether it keeps its token or  *)
(* claims one.                                                             *)
LEMMA ActorIsUnheard ==
  ASSUME KnownInv, NEW t \in Tasks, task[t].pc \notin Waiting \/ task[t].reply # "none",
         NEW tk, tk \in {0, task[t].tok} \/ ClaimToken(tk),
         NEW e \in inflight, e.heard
  PROVE  e.tok # tk
BY NothingHeard, NothingHeardNew

(* The call goes on, and writes nothing.                                   *)
LEMMA RecoverGoes ==
  ASSUME KnownInv, TypeInv', TokenInv', RecoveryInv, NEW t \in Tasks,
         NEW c, task' = [task EXCEPT ![t] = c],
         UNCHANGED tokens \/ \E tk : ClaimToken(tk),
         UNCHANGED backups \/ \E r \in Resources, v \in Contents : BackUp(r, v),
         UNCHANGED <<content, replaced, unsure, inflight>>, TxnsFit(t),
         task[t].pc \notin Waiting \/ task[t].reply # "none",
         c.tok \in {0, task[t].tok} \/ ClaimToken(c.tok),
         Recovers(c)'
  PROVE  RecoveryInv'
<1>1. Grows
  BY CallGrows DEF KnownInv
<1>2. (\A u \in Tasks \ {t} : task'[u] = task[u]) /\ task'[t] = c
  BY DEF KnownInv, TypeInv, TypeOK
<1>3. OthersLeftAlone(t) /\ OnlyOwnReplaced(t)
  BY DEF OthersLeftAlone, OnlyOwnReplaced, LeftAlone, StillReplaced
<1>4. \A e \in inflight' : e.heard => e \in inflight /\ e.tok # c.tok
  BY ActorIsUnheard
<1> QED
  BY <1>1, <1>2, <1>3, <1>4, RecoverActs DEF TxnsFit

(* It sends a save of its own.                                             *)
LEMMA RecoverSends ==
  ASSUME KnownInv, TypeInv', TokenInv', RecoveryInv, NEW t \in Tasks,
         NEW c, task' = [task EXCEPT ![t] = c],
         UNCHANGED tokens \/ \E tk : ClaimToken(tk),
         UNCHANGED backups \/ \E r \in Resources, v \in Contents : BackUp(r, v),
         UNCHANGED <<content, replaced>>, unsure \subseteq unsure', TxnsFit(t),
         task[t].pc \notin Waiting,
         c.tok \in {0, task[t].tok} \/ ClaimToken(c.tok),
         NEW tk, tk = c.tok, NEW k, NEW dir, NEW r, NEW v, NEW checked,
         Send(tk, k, dir, r, v, checked),
         \A e : /\ e.tok = tk /\ e.k = k /\ e.dir = dir /\ e.res = r /\ e.new = v
                => SaveFits(e, c)',
         Recovers(c)'
  PROVE  RecoveryInv'
<1>1. Grows
  BY CallGrows DEF KnownInv
<1>2. (\A u \in Tasks \ {t} : task'[u] = task[u]) /\ task'[t] = c
  BY DEF KnownInv, TypeInv, TypeOK
<1>3. OthersLeftAlone(t) /\ OnlyOwnReplaced(t)
  BY DEF OthersLeftAlone, OnlyOwnReplaced, LeftAlone, StillReplaced
<1>4. ASSUME NEW e \in inflight', e.heard
      PROVE  \/ e \in inflight /\ e.tok # c.tok
             \/ e.tok = c.tok /\ SaveFits(e, c)'
  <2>1. CASE e \in inflight
    BY <1>4, <2>1, ActorIsUnheard
  <2>2. CASE e \notin inflight
    <3>1. e = [tok |-> tk, k |-> k, dir |-> dir, res |-> r, new |-> v, heard |-> TRUE,
               checked |-> checked]
      BY <2>2 DEF Send
    <3>2. e.tok = tk /\ e.k = k /\ e.dir = dir /\ e.res = r /\ e.new = v
      BY <3>1
    <3> QED
      BY <3>2
  <2> QED
    BY <2>1, <2>2
<1> QED
  BY <1>1, <1>2, <1>3, <1>4, RecoverActs DEF TxnsFit

(* What is replaced for one token leaves the record of the others alone.   *)
LEMMA OwnReplaced ==
  ASSUME KnownInv, NEW t \in Tasks, task[t].pc \in Transacting, NEW k, NEW r,
         Replace(task[t].tok, k, r)
  PROVE  OnlyOwnReplaced(t)
<1> SUFFICES ASSUME NEW tk \in DOMAIN tokens, tk # task[t].tok, tokens[tk].action \in Remembered,
                    NEW j \in DOMAIN tokens[tk].items
             PROVE  replaced'[<<tk, j>>] = replaced[<<tk, j>>]
  BY DEF OnlyOwnReplaced, StillReplaced
<1>1. tk \in TokenIds /\ j \in 1..MaxItems
  BY ItemBound DEF KnownInv
<1>2. replaced \in [TokenIds \X (1..MaxItems) -> Contents \cup {Absent, None}]
  BY DEF KnownInv, TypeInv, TypeOK
<1>3. <<tk, j>> \in DOMAIN replaced /\ <<tk, j>> # <<task[t].tok, k>>
  BY <1>1, <1>2
<1> QED
  BY <1>2, <1>3 DEF Replace

(* It writes a target of its token.                                        *)
LEMMA RecoverWrites ==
  ASSUME KnownInv, TypeInv', TokenInv', RecoveryInv, NEW t \in Tasks,
         NEW c, task' = [task EXCEPT ![t] = c], c.tok = task[t].tok,
         UNCHANGED <<tokens, backups, inflight>>, TxnsFit(t),
         task[t].pc \notin Waiting, task[t].pc \in Transacting \cup Restoring,
         NEW r, NEW v, NEW who, Write(r, v, who, task[t].tok),
         \/ UNCHANGED replaced
         \/ task[t].pc \in Transacting /\ \E k : Replace(task[t].tok, k, r),
         Recovers(c)'
  PROVE  RecoveryInv'
<1>1. unsure \subseteq unsure' /\ OthersLeftAlone(t)
  <2>1. \A u \in Tasks \ {t} : task[u].tok # task[t].tok
    BY OwnToken DEF KnownInv, Transacting, Restoring
  <2> QED
    BY <2>1, WriteIsNoted DEF OthersLeftAlone
<1>2. Grows
  BY <1>1, CallGrows DEF KnownInv
<1>3. (\A u \in Tasks \ {t} : task'[u] = task[u]) /\ task'[t] = c
  BY DEF KnownInv, TypeInv, TypeOK
<1>4. OnlyOwnReplaced(t)
  BY OwnReplaced DEF OnlyOwnReplaced, StillReplaced
<1>5. \A e \in inflight' : e.heard => e \in inflight /\ e.tok # c.tok
  BY ActorIsUnheard
<1> QED
  BY <1>1, <1>2, <1>3, <1>4, <1>5, RecoverActs DEF TxnsFit

(* The call ends.                                                          *)
LEMMA RecoverEnds ==
  ASSUME KnownInv, TypeInv', TokenInv', RecoveryInv, NEW t \in Tasks,
         task' = [task EXCEPT ![t] = Idle],
         UNCHANGED tokens \/ \E tk : ClaimToken(tk),
         UNCHANGED <<backups, content, replaced, unsure, inflight>>, TxnsFit(t),
         task[t].pc \notin Waiting \/ task[t].reply # "none"
  PROVE  RecoveryInv'
<1>1. Idle.pc = "idle" /\ Idle.tok = 0
  BY DEF Idle
<1>2. Recovers(Idle)'
  BY <1>1, NothingToKeep
<1> QED
  BY <1>1, <1>2, RecoverGoes

-----------------------------------------------------------------------------
(* haops_config_apply.                                                     *)

(* A call on a single item has found what its preview showed.              *)
LEMMA SingleRecovers ==
  ASSUME NEW c, c.pc \in {"cfg_backup", "cfg_write", "cfg_commit", "dash_wait"}
  PROVE  /\ FindsAsShown(c) => Recovers(c)
         /\ FindsAsShown(c)' => Recovers(c)'
<1>1. c.pc \notin Forward \cup Backward \cup Batching \cup Restoring
  BY DEF Forward, Backward, Batching, Restoring
<1>2. CountsItems(c) /\ RecordsDone(c) /\ LeavesTexts(c) /\ BringsBack(c) /\ RestoresSaves(c)
  BY <1>1 DEF CountsItems, RecordsDone, LeavesTexts, BringsBack, RestoresSaves
<1>3. (CountsItems(c) /\ RecordsDone(c) /\ LeavesTexts(c) /\ BringsBack(c) /\ RestoresSaves(c))'
  BY <1>1 DEF CountsItems, RecordsDone, LeavesTexts, BringsBack, RestoresSaves
<1> QED
  BY <1>2, <1>3 DEF Recovers

(* What is executed at such a point is at most the item the call is at.    *)
LEMMA SingleDone ==
  ASSUME NEW c, NEW j
  PROVE  /\ c.pc \in {"cfg_backup", "cfg_write"} => ~Done(c, j)
         /\ c.pc \in Holding /\ c.reply # "ok" /\ c.pc = "dash_wait" => ~Done(c, j)
         /\ c.pc \in {"cfg_commit", "dash_wait"} /\ Done(c, j) => j = c.k
         /\ c.pc = "cfg_commit" => Done(c, c.k) /\ ~AboutToWrite(c)
BY DEF Done, Forward, Backward, Holding, AboutToWrite, Saving

(* The one item of a config apply.                                         *)
LEMMA ConfigItemIs ==
  ASSUME KnownInv, RecoveryInv, NEW t \in Tasks, task[t].pc \in {"cfg_backup", "cfg_write", "cfg_commit"}
  PROVE  /\ task[t].tok \in DOMAIN tokens /\ task[t].k = 1 /\ 1 \in DOMAIN tokens[task[t].tok].items
         /\ DOMAIN tokens[task[t].tok].items = {1}
         /\ tokens[task[t].tok].action = "config_apply"
         /\ Item(t) = tokens[task[t].tok].items[1] /\ Item(t) \in Items
         /\ Item(t).res \in Files /\ Item(t).res \in Resources
<1>1. /\ task[t].tok \in DOMAIN tokens /\ task[t].k \in DOMAIN Token(t).items
      /\ Token(t) \in Tokens /\ Item(t) \in Items
  BY CallFacts DEF KnownInv, AtItem
<1>2. Token(t).action = "config_apply"
  BY DEF KnownInv, BackupInv, OfKind, Token
<1>3. Len(Token(t).items) = 1
  BY <1>1, <1>2 DEF KnownInv, TypeInv, WellFormed, SingleItem, Token
<1>4. Token(t).items \in Seq(Items)
  BY <1>1 DEF Tokens
<1>5. DOMAIN Token(t).items = 1..1
  BY <1>3, <1>4, SeqIsFun
<1>6. DOMAIN Token(t).items = {1}
  BY <1>5
<1>7. task[t].k = 1
  BY <1>1, <1>6
<1>8. Item(t) = Token(t).items[1]
  BY <1>7 DEF Item
<1>9. Item(t).res \in Files
  BY <1>1, <1>2, <1>6, <1>8 DEF KnownInv, ClobberInv, TokensShaped, Token
<1> QED
  BY <1>1, <1>2, <1>6, <1>7, <1>8, <1>9 DEF Token, Resources

(* Every step of a config apply keeps the way back.                        *)
LEMMA ConfigRecovers ==
  ASSUME KnownInv, TypeInv', TokenInv', RecoveryInv, NEW t \in Tasks,
         ConfigStep(t) \/ \E tk \in DOMAIN tokens : ConfigApply(t, tk)
  PROVE  RecoveryInv'
<1>1. task[t].pc \in {"idle", "cfg_backup", "cfg_write", "cfg_commit"} => task[t].pc \notin Waiting
  BY DEF Waiting
<1>2. ASSUME NEW tk \in DOMAIN tokens, ConfigApply(t, tk) PROVE RecoveryInv'
  <2>1. ClaimToken(tk) /\ task[t].pc = "idle" /\ UNCHANGED <<durable, lock, world>>
    BY <1>2 DEF ConfigApply, MayStart
  <2>2. CASE UNCHANGED <<txns, loop, task>>
    <3>1. task' = [task EXCEPT ![t] = task[t]]
      BY <2>2 DEF KnownInv, TypeInv, TypeOK
    <3>2. Grows
      BY <2>1, CallGrows DEF durable, world, KnownInv
    <3> QED
      BY <2>1, <2>2, <3>2, RecoverStill DEF world, LeftAlone
  <2>3. CASE /\ tokens[tk].action = "config_apply"
             /\ LET it == tokens[tk].items[1]
                IN  /\ ConfigFresh(it)
                    /\ Begin(tk, <<Savepoint(it.res, it.old, FALSE, 1)>>)
             /\ task' = [task EXCEPT ![t] = [Idle EXCEPT !.pc = "cfg_backup",
                           !.tok = tk, !.txn = Len(txns) + 1, !.k = 1]]
    <3>1. PICK x : x = Len(txns) + 1
      OBVIOUS
    <3> DEFINE c == [Idle EXCEPT !.pc = "cfg_backup", !.tok = tk, !.txn = x, !.k = 1]
    <3>2. task' = [task EXCEPT ![t] = c]
      BY <2>3, <3>1
    <3>3. c.pc = "cfg_backup" /\ c.tok = tk /\ c.k = 1
      BY DEF Idle
    <3> HIDE DEF c
    <3>4. /\ 1 \in DOMAIN tokens[tk].items /\ tokens[tk].items[1] \in Items
          /\ tokens'[tk].items = tokens[tk].items /\ tokens'[tk].action = tokens[tk].action
      BY <2>1, <2>3, FirstItem, ClaimFacts DEF KnownInv, TokensKeep
    <3>5. ~tokens[tk].items[1].create
      BY <2>3, <3>4 DEF RecoveryInv, TokenFits
    <3>6. TxnsFit(t)
      BY <2>3, <3>4, <3>5, BeginFits DEF KnownInv, Remembered, Applies
    <3>7. AsFound(tk, 1, content[tokens[tk].items[1].res])'
      <4>1. OrEmpty(content[tokens[tk].items[1].res]) = tokens[tk].items[1].old
        BY <2>3 DEF ConfigFresh
      <4> QED
        BY <2>1, <2>3, <3>4, <3>5, <4>1 DEF AsFound, OrEmpty, world
    <3>8. FindsAsShown(c)'
      BY <3>3, <3>7, SingleDone DEF FindsAsShown
    <3>9. Recovers(c)'
      BY <3>3, <3>8, SingleRecovers
    <3> QED
      BY <1>1, <2>1, <3>2, <3>3, <3>6, <3>9, RecoverGoes DEF durable, world
  <2> QED
    BY <1>2, <2>2, <2>3 DEF ConfigApply
<1>3. CASE ConfigBackup(t)
  <2>1. /\ task[t].pc = "cfg_backup" /\ UNCHANGED <<memory, world>>
        /\ task' = [task EXCEPT ![t].pc = "cfg_write"]
        /\ IF BackupOnWrite /\ content[Item(t).res] # Absent
           THEN BackUp(Item(t).res, content[Item(t).res]) ELSE UNCHANGED backups
    BY <1>3 DEF ConfigBackup, At
  <2>2. PICK s : s = task[t]
    OBVIOUS
  <2> DEFINE c == [s EXCEPT !.pc = "cfg_write"]
  <2>3. s \in Calls
    BY <2>2, CallFacts DEF KnownInv
  <2>4. c.pc = "cfg_write" /\ c.tok = s.tok /\ c.k = s.k
    BY <2>3 DEF Calls
  <2>5. task' = [task EXCEPT ![t] = c]
    BY <2>1, <2>2
  <2> HIDE DEF c
  <2>6. UNCHANGED backups \/ \E r \in Resources, v \in Contents : BackUp(r, v)
    <3>1. Item(t).res \in Resources
      BY <2>1, ConfigItemIs
    <3>2. content[Item(t).res] # Absent => content[Item(t).res] \in Contents
      BY <3>1 DEF KnownInv, TypeInv, TypeOK
    <3> QED
      BY <2>1, <3>1, <3>2
  <2>7. FindsAsShown(s)
    BY <2>2 DEF RecoveryInv, Recovers
  <2>8. FindsAsShown(c)'
    BY <2>1, <2>2, <2>4, <2>7, SingleDone DEF FindsAsShown, AsFound, memory, world
  <2>9. Recovers(c)'
    BY <2>4, <2>8, SingleRecovers
  <2>10. TxnsFit(t)
    BY <2>1, SameTxnsFit DEF memory, KnownInv
  <2> QED
    BY <1>1, <2>1, <2>2, <2>4, <2>5, <2>6, <2>9, <2>10, RecoverGoes DEF memory, world
<1>4. CASE ConfigWrite(t)
  <2>1. /\ task[t].pc = "cfg_write" /\ UNCHANGED <<memory, durable, inflight>>
        /\ Write(Item(t).res, Written(Item(t).res, Item(t).new), "apply", task[t].tok)
        /\ Replace(task[t].tok, 1, Item(t).res)
        /\ task' = [task EXCEPT ![t].pc = "cfg_commit"]
    BY <1>4 DEF ConfigWrite, At
  <2>2. PICK s : s = task[t]
    OBVIOUS
  <2> DEFINE c == [s EXCEPT !.pc = "cfg_commit"]
  <2>3. s \in Calls
    BY <2>2, CallFacts DEF KnownInv
  <2>4. c.pc = "cfg_commit" /\ c.tok = s.tok /\ c.k = s.k
    BY <2>3 DEF Calls
  <2>5. task' = [task EXCEPT ![t] = c]
    BY <2>1, <2>2
  <2> HIDE DEF c
  <2>6. /\ s.tok \in DOMAIN tokens /\ s.k = 1 /\ DOMAIN tokens[s.tok].items = {1}
        /\ tokens[s.tok].action = "config_apply" /\ Item(t) = tokens[s.tok].items[1]
    BY <2>1, <2>2, ConfigItemIs
  <2>7. AsFound(s.tok, 1, content[tokens[s.tok].items[1].res]) \/ s.tok \in unsure
    <3>1. FindsAsShown(s)
      BY <2>2 DEF RecoveryInv, Recovers
    <3> QED
      BY <2>1, <2>2, <2>6, <3>1 DEF FindsAsShown, AboutToWrite, Saving
  <2>8. replaced'[<<s.tok, 1>>] = content[Item(t).res]
    <3>1. s.tok \in TokenIds /\ 1 \in 1..MaxItems
      BY <2>6, ItemBound DEF KnownInv, Remembered, Applies
    <3>2. replaced \in [TokenIds \X (1..MaxItems) -> Contents \cup {Absent, None}]
      BY DEF KnownInv, TypeInv, TypeOK
    <3> QED
      BY <2>1, <2>2, <3>1, <3>2 DEF Replace
  <2>9. unsure \subseteq unsure'
    BY <2>1 DEF Write
  <2>10. FindsAsShown(c)'
    <3>1. AsFound(s.tok, 1, replaced[<<s.tok, 1>>])' \/ s.tok \in unsure'
      BY <2>1, <2>6, <2>7, <2>8, <2>9 DEF AsFound, memory
    <3>2. \A j : Done(c, j) => j = 1
      BY <2>4, <2>6, SingleDone
    <3>3. c.pc # "cfg_backup" /\ ~AboutToWrite(c)
      BY <2>4, SingleDone
    <3> QED
      BY <2>4, <3>1, <3>2, <3>3 DEF FindsAsShown, AboutToWrite
  <2>11. Recovers(c)'
    BY <2>4, <2>10, SingleRecovers
  <2>12. TxnsFit(t)
    BY <2>1, SameTxnsFit DEF memory, KnownInv
  <2>13. task[t].pc \in Transacting
    BY <2>1 DEF Transacting
  <2> QED
    BY <1>1, <2>1, <2>2, <2>4, <2>5, <2>11, <2>12, <2>13, RecoverWrites DEF memory, durable
<1>5. CASE ConfigWriteFails(t)
  <2>1. /\ task[t].pc \in {"cfg_backup", "cfg_write"} /\ UNCHANGED <<memory, durable, world>>
        /\ task' = [task EXCEPT ![t] = Idle]
    BY <1>5 DEF ConfigWriteFails, Finish
  <2>2. TxnsFit(t)
    BY <2>1, SameTxnsFit DEF memory, KnownInv
  <2> QED
    BY <1>1, <2>1, <2>2, RecoverEnds DEF memory, durable, world
<1>6. CASE ConfigCommit(t)
  <2>1. /\ task[t].pc = "cfg_commit" /\ UNCHANGED <<tokens, backups, world>>
        /\ Commit(task[t].txn) /\ task' = [task EXCEPT ![t] = Idle]
    BY <1>6 DEF ConfigCommit, At, Finish
  <2>2. PICK s : s = task[t]
    OBVIOUS
  <2>3. s.k = 1 /\ DOMAIN tokens[s.tok].items = {1} /\ s.pc \in Transacting
    BY <2>1, <2>2, ConfigItemIs DEF Transacting
  <2>4. /\ s.txn \in DOMAIN txns /\ txns[s.txn].tok = s.tok
    BY <2>2, <2>3, TransactionIsOwn
  <2>5. \A i \in DOMAIN txns[s.txn].saves : txns[s.txn].saves[i].k = 1
    BY <2>3, <2>4 DEF RecoveryInv, SavepointFits
  <2>6. \A i \in DOMAIN txns[s.txn].saves : Done(s, txns[s.txn].saves[i].k)
    BY <2>1, <2>2, <2>3, <2>5, SingleDone
  <2>7. TxnsFit(t)
    BY <2>1, <2>2, <2>3, <2>6, CommitFits DEF world
  <2> QED
    BY <1>1, <2>1, <2>7, RecoverEnds DEF world
<1> QED
  BY <1>2, <1>3, <1>4, <1>5, <1>6 DEF ConfigStep

-----------------------------------------------------------------------------
(* haops_dashboard_apply.                                                  *)

(* The one item of a dashboard apply.                                      *)
LEMMA DashboardItemIs ==
  ASSUME KnownInv, RecoveryInv, NEW t \in Tasks, task[t].pc \in {"dash_lock", "dash_wait"}
  PROVE  /\ task[t].tok \in DOMAIN tokens /\ task[t].tok \in TokenIds
         /\ task[t].k = 1 /\ DOMAIN tokens[task[t].tok].items = {1}
         /\ tokens[task[t].tok].action = "dashboard_apply"
         /\ Item(t) = tokens[task[t].tok].items[1] /\ Item(t) \in Items
         /\ Item(t).res \in Dashboards /\ Item(t).res \in Resources
         /\ Item(t).old \in Contents /\ Item(t).new \in Contents
         /\ ~tokens[task[t].tok].items[1].create
<1>1. /\ task[t].tok \in DOMAIN tokens /\ task[t].tok \in TokenIds
      /\ Token(t) \in Tokens
      /\ task[t].k \in DOMAIN Token(t).items /\ Item(t) \in Items
  BY CallFacts DEF KnownInv, AtItem
<1>2. Token(t).action = "dashboard_apply"
  BY DEF KnownInv, BackupInv, OfKind, Token
<1>3. Len(Token(t).items) = 1 /\ Token(t).items[1].res \in Dashboards
  BY <1>1, <1>2 DEF KnownInv, TypeInv, WellFormed, SingleItem, Token
<1>4. Token(t).items \in Seq(Items)
  BY <1>1 DEF Tokens
<1>5. DOMAIN Token(t).items = 1..1
  BY <1>3, <1>4, SeqIsFun
<1>6. DOMAIN Token(t).items = {1}
  BY <1>5
<1>7. task[t].k = 1
  BY <1>1, <1>6
<1>8. Item(t) = Token(t).items[1]
  BY <1>7 DEF Item
<1>9. ~Token(t).items[1].create
  BY <1>1, <1>2, <1>6 DEF RecoveryInv, TokenFits, Token
<1>10. Item(t).old \in Contents /\ Item(t).new \in Contents
  BY <1>1 DEF Items
<1> QED
  BY <1>1, <1>2, <1>3, <1>6, <1>7, <1>8, <1>9, <1>10 DEF Token, Resources

(* Every step of a dashboard apply keeps the way back.                     *)
LEMMA DashboardRecovers ==
  ASSUME KnownInv, TypeInv', TokenInv', RecoveryInv, NEW t \in Tasks,
         DashboardStep(t) \/ \E tk \in DOMAIN tokens : DashboardApply(t, tk)
  PROVE  RecoveryInv'
<1>1. task[t].pc \in {"idle", "dash_lock"} => task[t].pc \notin Waiting
  BY DEF Waiting
<1>2. ASSUME NEW tk \in DOMAIN tokens, DashboardApply(t, tk) PROVE RecoveryInv'
  <2>1. /\ ClaimToken(tk) /\ task[t].pc = "idle" /\ UNCHANGED <<txns, durable, world>>
        /\ \/ UNCHANGED task
           \/ task' = [task EXCEPT ![t] = [Idle EXCEPT !.pc = "dash_lock", !.tok = tk, !.k = 1]]
    BY <1>2 DEF DashboardApply, MayStart
  <2>2. CASE UNCHANGED task
    <3>1. Grows
      BY <2>1, CallGrows DEF durable, world, KnownInv
    <3> QED
      BY <2>1, <2>2, <3>1, RecoverStill DEF world, LeftAlone
  <2>3. CASE task' = [task EXCEPT ![t] = [Idle EXCEPT !.pc = "dash_lock", !.tok = tk, !.k = 1]]
    <3> DEFINE c == [Idle EXCEPT !.pc = "dash_lock", !.tok = tk, !.k = 1]
    <3>1. c.pc = "dash_lock" /\ c.tok = tk
      BY DEF Idle
    <3>2. task' = [task EXCEPT ![t] = c]
      BY <2>3
    <3> HIDE DEF c
    <3>3. Recovers(c)'
      BY <3>1, NothingToKeep
    <3>4. TxnsFit(t)
      BY <2>1, SameTxnsFit DEF KnownInv
    <3> QED
      BY <1>1, <2>1, <3>1, <3>2, <3>3, <3>4, RecoverGoes DEF durable, world
  <2> QED
    BY <2>1, <2>2, <2>3
<1>3. CASE DashboardRecheck(t)
  <2>1. PICK s : s = task[t]
    OBVIOUS
  <2>2. s.pc = "dash_lock" /\ s \in Calls
    BY <1>3, <2>1, CallFacts DEF DashboardRecheck, At, KnownInv
  <2>3. PICK it : it = Item(t)
    OBVIOUS
  <2>4. /\ s.tok \in DOMAIN tokens /\ s.k = 1 /\ DOMAIN tokens[s.tok].items = {1}
        /\ tokens[s.tok].action = "dashboard_apply" /\ it = tokens[s.tok].items[1]
        /\ it.res \in Dashboards /\ it.res \in Resources
        /\ it.old \in Contents /\ ~it.create /\ it \in Items
    BY <2>1, <2>2, <2>3, DashboardItemIs
  <2>5. PICK got \in Readings(it.res) :
          /\ NotDrifted(got, it.old)
          /\ Begin(s.tok, <<Savepoint(it.res, it.old, FALSE, 1)>>)
          /\ IF BackupOnWrite /\ it.old # Empty
             THEN BackUp(it.res, it.old)
             ELSE UNCHANGED backups
          /\ Send(s.tok, 1, "do", it.res, it.new, got # None)
          /\ unsure' = IF got = None THEN unsure \cup {s.tok} ELSE unsure
    BY <1>3, <2>1, <2>3 DEF DashboardRecheck
  <2>6. PICK x : x = Len(txns) + 1
    OBVIOUS
  <2> DEFINE c == [s EXCEPT !.pc = "dash_wait", !.txn = x]
  <2>7. task' = [task EXCEPT ![t] = c] /\ UNCHANGED <<tokens, content, replaced>>
    BY <1>3, <2>1, <2>6 DEF DashboardRecheck
  <2>8. c.pc = "dash_wait" /\ c.tok = s.tok /\ c.k = s.k /\ c.reply = s.reply
    BY <2>2 DEF Calls
  <2> HIDE DEF c
  <2>9. s.reply = "none"
    BY <1>1, <2>1, <2>2, NoReplyYet DEF KnownInv
  <2>10. UNCHANGED backups \/ \E r \in Resources, v \in Contents : BackUp(r, v)
    BY <2>4, <2>5
  <2>11. unsure \subseteq unsure' /\ (s.tok \notin unsure' => content[it.res] = it.old)
    BY <2>5 DEF Readings, NotDrifted
  <2>12. TxnsFit(t)
    BY <2>4, <2>5, <2>7, BeginFits DEF KnownInv, Remembered, Applies
  <2>13. FindsAsShown(c)'
    <3>1. s.tok \notin unsure' => AsFound(s.tok, 1, content[it.res])'
      BY <2>4, <2>7, <2>11 DEF AsFound
    <3>2. \A j : ~Done(c, j)
      BY <2>8, <2>9, SingleDone DEF Holding
    <3> QED
      BY <2>4, <2>7, <2>8, <3>1, <3>2 DEF FindsAsShown
  <2>14. Recovers(c)'
    BY <2>8, <2>13, SingleRecovers
  <2>15. ASSUME NEW e, e.tok = s.tok, e.k = 1, e.dir = "do", e.res = it.res, e.new = it.new
         PROVE  SaveFits(e, c)'
    BY <2>4, <2>7, <2>8, <2>15 DEF SaveFits, Holding
  <2>16. \A e : /\ e.tok = s.tok /\ e.k = 1 /\ e.dir = "do" /\ e.res = it.res /\ e.new = it.new
                => SaveFits(e, c)'
    BY <2>15
  <2> QED
    BY <1>1, <2>1, <2>2, <2>5, <2>7, <2>8, <2>10, <2>11, <2>12, <2>14, <2>16, RecoverSends
<1>4. CASE DashboardRefuse(t)
  <2>1. /\ task[t].pc = "dash_lock" /\ UNCHANGED <<memory, durable, world>>
        /\ task' = [task EXCEPT ![t] = Idle]
    BY <1>4 DEF DashboardRefuse, At, Finish
  <2>2. TxnsFit(t)
    BY <2>1, SameTxnsFit DEF memory, KnownInv
  <2> QED
    BY <1>1, <2>1, <2>2, RecoverEnds DEF memory, durable, world
<1>5. CASE DashboardSaved(t)
  <2>1. /\ task[t].pc = "dash_wait" /\ task[t].reply = "ok" /\ UNCHANGED <<tokens, backups, world>>
        /\ Commit(task[t].txn) /\ task' = [task EXCEPT ![t] = Idle]
    BY <1>5 DEF DashboardSaved, At, Finish
  <2>2. PICK s : s = task[t]
    OBVIOUS
  <2>3. s.k = 1 /\ DOMAIN tokens[s.tok].items = {1} /\ s.pc \in Transacting
    BY <2>1, <2>2, DashboardItemIs DEF Transacting
  <2>4. /\ s.txn \in DOMAIN txns /\ txns[s.txn].tok = s.tok
    BY <2>2, <2>3, TransactionIsOwn
  <2>5. \A i \in DOMAIN txns[s.txn].saves : txns[s.txn].saves[i].k = 1
    BY <2>3, <2>4 DEF RecoveryInv, SavepointFits
  <2>6. \A i \in DOMAIN txns[s.txn].saves : Done(s, txns[s.txn].saves[i].k)
    BY <2>1, <2>2, <2>3, <2>5 DEF Done, Holding
  <2>7. TxnsFit(t)
    BY <2>1, <2>2, <2>3, <2>6, CommitFits DEF world
  <2> QED
    BY <2>1, <2>7, RecoverEnds DEF world
<1>6. CASE DashboardSaveFails(t)
  <2>1. /\ task[t].reply = "err" /\ UNCHANGED <<memory, durable, world>>
        /\ task' = [task EXCEPT ![t] = Idle]
    BY <1>6 DEF DashboardSaveFails, At, Finish
  <2>2. TxnsFit(t)
    BY <2>1, SameTxnsFit DEF memory, KnownInv
  <2> QED
    BY <2>1, <2>2, RecoverEnds DEF memory, durable, world
<1> QED
  BY <1>2, <1>3, <1>4, <1>5, <1>6 DEF DashboardStep

-----------------------------------------------------------------------------
(* haops_backup_revert.                                                    *)

(* A revert is not promised to be taken back: it keeps the others' way.    *)
LEMMA RevertRecovers ==
  ASSUME KnownInv, TypeInv', TokenInv', RecoveryInv, NEW t \in Tasks,
         \/ RevertStep(t)
         \/ \E tk \in DOMAIN tokens, b \in DOMAIN backups :
               RevertConfirm(t, tk, b) \/ RevertMismatch(t, tk, b)
  PROVE  RecoveryInv'
<1>1. task[t].pc \in {"idle", "rv_write", "rv_commit"} => task[t].pc \notin Waiting
  BY DEF Waiting
<1>2. ASSUME NEW tk, NEW b, RevertConfirm(t, tk, b) PROVE RecoveryInv'
  <2>1. /\ ClaimToken(tk) /\ task[t].pc = "idle" /\ tokens[tk].action = "backup_revert"
        /\ UNCHANGED <<durable, lock, content, writer, replaced, unsure>>
    BY <1>2 DEF RevertConfirm, MayStart
  <2>2. PICK it, x : it = tokens[tk].items[1] /\ x = Len(txns) + 1
    OBVIOUS
  <2>3. /\ 1 \in DOMAIN tokens[tk].items /\ it \in Items
        /\ tokens'[tk].items = tokens[tk].items /\ tokens'[tk].action = tokens[tk].action
        /\ tk \in DOMAIN tokens
    BY <2>1, <2>2, FirstItem, ClaimFacts DEF KnownInv, TokensKeep
  <2>4. ~it.create
    BY <2>1, <2>2, <2>3 DEF RecoveryInv, TokenFits
  <2>5. Begin(tk, <<Savepoint(it.res, it.old, FALSE, 1)>>)
    BY <1>2, <2>2 DEF RevertConfirm
  <2>6. TxnsFit(t)
    BY <2>1, <2>2, <2>3, <2>4, <2>5, BeginFits DEF KnownInv, Remembered
  <2>7. CASE /\ task' = [task EXCEPT ![t] = [Idle EXCEPT !.pc = "rv_write",
                               !.tok = tk, !.txn = Len(txns) + 1, !.k = 1]]
             /\ UNCHANGED inflight
    <3> DEFINE c == [Idle EXCEPT !.pc = "rv_write", !.tok = tk, !.txn = x, !.k = 1]
    <3>1. c.pc = "rv_write" /\ c.tok = tk
      BY DEF Idle
    <3>2. task' = [task EXCEPT ![t] = c]
      BY <2>2, <2>7
    <3> HIDE DEF c
    <3>3. Recovers(c)'
      BY <3>1, NothingToKeep
    <3> QED
      BY <1>1, <2>1, <2>6, <2>7, <3>1, <3>2, <3>3, RecoverGoes DEF durable
  <2>8. CASE /\ task' = [task EXCEPT ![t] = [Idle EXCEPT !.pc = "rv_wait",
                               !.tok = tk, !.txn = Len(txns) + 1, !.k = 1]]
             /\ Send(tk, 1, "do", it.res, it.new, FALSE)
    <3> DEFINE c == [Idle EXCEPT !.pc = "rv_wait", !.tok = tk, !.txn = x, !.k = 1]
    <3>1. c.pc = "rv_wait" /\ c.tok = tk
      BY DEF Idle
    <3>2. task' = [task EXCEPT ![t] = c]
      BY <2>2, <2>8
    <3> HIDE DEF c
    <3>3. Recovers(c)'
      BY <3>1, NothingToKeep
    <3>4. \A e : SaveFits(e, c)'
      BY <3>1 DEF SaveFits, Holding
    <3>5. \A e : /\ e.tok = tk /\ e.k = 1 /\ e.dir = "do" /\ e.res = it.res /\ e.new = it.new
                 => SaveFits(e, c)'
      BY <3>4
    <3>6. unsure \subseteq unsure' /\ UNCHANGED backups
      BY <2>1 DEF durable
    <3> QED
      BY <1>1, <2>1, <2>6, <2>8, <3>1, <3>2, <3>3, <3>5, <3>6, RecoverSends
  <2> QED
    BY <1>2, <2>2, <2>7, <2>8 DEF RevertConfirm
<1>3. ASSUME NEW tk, NEW b, RevertMismatch(t, tk, b) PROVE RecoveryInv'
  <2>1. ClaimToken(tk) /\ UNCHANGED <<txns, durable, sched, world>>
    BY <1>3 DEF RevertMismatch
  <2>2. Grows
    BY <2>1, CallGrows DEF durable, world, KnownInv
  <2> QED
    BY <2>1, <2>2, RecoverStill DEF world, sched, LeftAlone
<1>4. CASE RevertWrite(t)
  <2>1. /\ task[t].pc = "rv_write" /\ UNCHANGED <<memory, durable, inflight>>
        /\ Write(Item(t).res, Item(t).new, "revert", task[t].tok)
        /\ Replace(task[t].tok, 1, Item(t).res)
        /\ task' = [task EXCEPT ![t].pc = "rv_commit"]
    BY <1>4 DEF RevertWrite, At
  <2>2. PICK s : s = task[t]
    OBVIOUS
  <2> DEFINE c == [s EXCEPT !.pc = "rv_commit"]
  <2>3. s \in Calls
    BY <2>2, CallFacts DEF KnownInv
  <2>4. c.pc = "rv_commit" /\ c.tok = s.tok
    BY <2>3 DEF Calls
  <2>5. task' = [task EXCEPT ![t] = c]
    BY <2>1, <2>2
  <2> HIDE DEF c
  <2>6. Recovers(c)'
    BY <2>4, NothingToKeep
  <2>7. TxnsFit(t)
    BY <2>1, SameTxnsFit DEF memory, KnownInv
  <2>8. task[t].pc \in Transacting
    BY <2>1 DEF Transacting
  <2> QED
    BY <1>1, <2>1, <2>2, <2>4, <2>5, <2>6, <2>7, <2>8, RecoverWrites DEF memory, durable
<1>5. CASE RevertCommit(t)
  <2>1. /\ task[t].pc = "rv_commit" \/ (task[t].pc = "rv_wait" /\ task[t].reply = "ok")
        /\ UNCHANGED <<tokens, backups, world>>
        /\ Commit(task[t].txn) /\ task' = [task EXCEPT ![t] = Idle]
    BY <1>5 DEF RevertCommit, At, Finish
  <2>2. PICK s : s = task[t]
    OBVIOUS
  <2>3. s.pc \in Transacting /\ tokens[s.tok].action = "backup_revert"
    BY <2>1, <2>2 DEF Transacting, KnownInv, BackupInv, OfKind
  <2>4. TxnsFit(t)
    BY <2>1, <2>2, <2>3, CommitFits DEF world
  <2> QED
    BY <1>1, <2>1, <2>4, RecoverEnds DEF world
<1>6. CASE RevertFails(t)
  <2>1. /\ task[t].pc = "rv_write" \/ task[t].reply = "err"
        /\ UNCHANGED <<memory, durable, world>> /\ task' = [task EXCEPT ![t] = Idle]
    BY <1>6 DEF RevertFails, At, Finish
  <2>2. TxnsFit(t)
    BY <2>1, SameTxnsFit DEF memory, KnownInv
  <2> QED
    BY <1>1, <2>1, <2>2, RecoverEnds DEF memory, durable, world
<1> QED
  BY <1>2, <1>3, <1>4, <1>5, <1>6 DEF RevertStep

-----------------------------------------------------------------------------
(* haops_rollback.                                                         *)

(* A rollback keeps the way back of the transaction it undoes.             *)
LEMMA RestoringRecovers ==
  ASSUME NEW c, c.pc \in Restoring, RestoresSaves(c)'
  PROVE  Recovers(c)'
<1>1. /\ c.pc \notin Forward \cup Backward \cup Batching \cup Holding \cup Saving
      /\ c.pc \notin {"cfg_backup", "cfg_commit"}
  BY DEF Restoring, Forward, Backward, Batching, Holding, Saving
<1>2. ~AboutToWrite(c) /\ \A j : ~Done(c, j)
  BY <1>1 DEF AboutToWrite, Done
<1>3. (FindsAsShown(c) /\ CountsItems(c) /\ RecordsDone(c) /\ LeavesTexts(c) /\ BringsBack(c))'
  BY <1>1, <1>2 DEF FindsAsShown, CountsItems, RecordsDone, LeavesTexts, BringsBack
<1> QED
  BY <1>3 DEF Recovers

(* Where a rollback stands.                                                *)
LEMMA RollbackIs ==
  ASSUME KnownInv, RecoveryInv, NEW t \in Tasks, task[t].pc \in Restoring,
         NEW s, s = task[t], NEW x, x = s.txn
  PROVE  /\ s \in Calls /\ s.k \in Nat /\ s.n \in Nat /\ RestoresSaves(s)
         /\ x \in DOMAIN txns /\ txns[x].state = "committed"
         /\ s.n \in {0, Len(txns[x].saves)} /\ s.k <= s.n
         /\ DOMAIN txns[x].saves = 1..Len(txns[x].saves) /\ Len(txns[x].saves) \in Nat
         /\ s.k > 0 => s.k \in DOMAIN txns[x].saves /\ txns[x].saves[s.k] \in Savepoints
         /\ s.k > 0 => Undoing(t) = txns[x].saves[s.k]
<1>1. s \in Calls /\ TypeInv
  BY CallFacts DEF KnownInv
<1>2. s.k \in Nat /\ s.n \in Nat
  BY <1>1 DEF Calls
<1>3. RestoresSaves(s)
  BY DEF RecoveryInv, Recovers
<1>4. x \in DOMAIN txns /\ txns[x].state = "committed"
  BY RestoredSaves
<1>5. s.n \in {0, Len(txns[x].saves)} /\ s.k <= s.n
  BY <1>3 DEF RestoresSaves
<1>6. DOMAIN txns[x].saves = 1..Len(txns[x].saves) /\ Len(txns[x].saves) \in Nat
      /\ \A i \in DOMAIN txns[x].saves : txns[x].saves[i] \in Savepoints
  BY <1>1, <1>4, SavepointsOf
<1>7. s.k > 0 => s.k \in 1..Len(txns[x].saves)
  BY <1>2, <1>5, <1>6
<1> QED
  BY <1>1, <1>2, <1>3, <1>4, <1>5, <1>6, <1>7 DEF Undoing

(* A call that goes on without a write has restored what it had.           *)
LEMMA RestoringGoes ==
  ASSUME NEW c, NEW d, c.pc \in Restoring, RestoresSaves(c),
         d.txn = c.txn, d.tok = c.tok, d.n = c.n, d.k <= d.n,
         UNCHANGED <<content, tokens, txns, replaced, unsure>>,
         ~d.dirty => ~c.dirty /\ \A j \in DOMAIN txns[c.txn].saves : PutBack(d, j) <=> PutBack(c, j)
  PROVE  RestoresSaves(d)'
<1>1. PICK x : x = c.txn
  OBVIOUS
<1>2. c.n \in {0, Len(txns[x].saves)}
  BY <1>1 DEF RestoresSaves
<1>3. ASSUME {c.tok, txns[x].tok} \cap unsure = {}, ~d.dirty,
             NEW j \in DOMAIN txns[x].saves, PutBack(d, j), Promised(x, j),
             \A i \in DOMAIN txns[x].saves :
               PutBack(d, i) /\ txns[x].saves[i].res = txns[x].saves[j].res => j <= i
      PROVE  Same(txns[x].saves[j].res, content[txns[x].saves[j].res], Before(x, j))
  BY <1>1, <1>3 DEF RestoresSaves
<1>4. RestoresSaves(d)
  BY <1>1, <1>2, <1>3 DEF RestoresSaves
<1> QED
  BY <1>4 DEF RestoresSaves, Promised, Before, Same, Written, PutBack

(* A savepoint that is restored brings back what it promised.              *)
LEMMA RestoringWrites ==
  ASSUME NEW c, NEW d, c.pc \in Restoring, RestoresSaves(c),
         d.txn = c.txn, d.tok = c.tok, d.n = c.n, d.k <= d.n, d.dirty = c.dirty,
         UNCHANGED <<tokens, txns, replaced>>, unsure \subseteq unsure',
         NEW x, x = c.txn, NEW k \in DOMAIN txns[x].saves, DOMAIN txns[x].saves \subseteq Nat,
         \A j \in DOMAIN txns[x].saves : PutBack(d, j) => j = k \/ PutBack(c, j),
         \A j \in DOMAIN txns[x].saves : PutBack(c, j) => PutBack(d, j) /\ k < j,
         PutBack(d, k),
         NEW r, r = txns[x].saves[k].res, \A q : q # r => content'[q] = content[q],
         txns[x].tok \notin unsure /\ Promised(x, k) => Same(r, content'[r], Before(x, k))
  PROVE  RestoresSaves(d)'
<1>1. c.n \in {0, Len(txns[x].saves)}
  BY DEF RestoresSaves
<1>2. ASSUME {c.tok, txns[x].tok} \cap unsure' = {}, ~c.dirty,
             NEW j \in DOMAIN txns[x].saves, PutBack(d, j), Promised(x, j),
             \A i \in DOMAIN txns[x].saves :
               PutBack(d, i) /\ txns[x].saves[i].res = txns[x].saves[j].res => j <= i
      PROVE  Same(txns[x].saves[j].res, content'[txns[x].saves[j].res], Before(x, j))
  <2>1. {c.tok, txns[x].tok} \cap unsure = {}
    BY <1>2
  <2>2. CASE j = k
    BY <1>2, <2>1, <2>2
  <2>3. CASE j # k
    <3>1. PutBack(c, j) /\ k < j
      BY <1>2, <2>3
    <3>2. txns[x].saves[j].res # r
      <4> SUFFICES ASSUME txns[x].saves[j].res = r PROVE FALSE
        OBVIOUS
      <4>1. j <= k /\ j \in Nat /\ k \in Nat
        BY <1>2
      <4> QED
        BY <3>1, <4>1
    <3>3. \A i \in DOMAIN txns[x].saves :
            PutBack(c, i) /\ txns[x].saves[i].res = txns[x].saves[j].res => j <= i
      BY <1>2
    <3>4. Same(txns[x].saves[j].res, content[txns[x].saves[j].res], Before(x, j))
      BY <1>2, <2>1, <3>1, <3>3 DEF RestoresSaves
    <3> QED
      BY <3>2, <3>4
  <2> QED
    BY <2>2, <2>3
<1>3. /\ d.n \in {0, Len(txns'[x].saves)} /\ d.k <= d.n
      /\ DOMAIN txns'[x].saves = DOMAIN txns[x].saves
  BY <1>1
<1>4. \A j : (Before(x, j)' = Before(x, j)) /\ (Promised(x, j)' <=> Promised(x, j))
  BY DEF Before, Promised
<1> QED
  <2> SUFFICES ASSUME {d.tok, txns'[d.txn].tok} \cap unsure' = {}, ~d.dirty,
                      NEW j \in DOMAIN txns'[d.txn].saves, PutBack(d, j), Promised(d.txn, j)',
                      \A i \in DOMAIN txns'[d.txn].saves :
                        PutBack(d, i) /\ txns'[d.txn].saves[i].res = txns'[d.txn].saves[j].res
                          => j <= i
               PROVE  Same(txns'[d.txn].saves[j].res, content'[txns'[d.txn].saves[j].res],
                           Before(d.txn, j)')
    BY <1>3 DEF RestoresSaves, PutBack, Same, Written
  <2>1. x = d.txn /\ {c.tok, txns[x].tok} \cap unsure' = {} /\ ~c.dirty
    OBVIOUS
  <2>2. Promised(d.txn, j)
    BY <1>4
  <2>3. Same(txns[x].saves[j].res, content'[txns[x].saves[j].res], Before(x, j))
    BY <1>2, <2>1, <2>2
  <2>4. Before(d.txn, j)' = Before(x, j)
    BY <1>4, <2>1
  <2> QED
    BY <2>1, <2>3, <2>4

(* Putting back what a savepoint holds brings back what was there before.  *)
LEMMA SavepointBringsBack ==
  ASSUME KnownInv, RecoveryInv, NEW x \in DOMAIN txns, txns[x].state = "committed",
         NEW i \in DOMAIN txns[x].saves, txns[x].tok \notin unsure, Promised(x, i),
         NEW sp, sp = txns[x].saves[i], NEW v,
         \/ v = IF sp.created THEN Absent ELSE Restored(sp.res, sp.content)
         \/ sp.res \in Dashboards /\ v = sp.content
  PROVE  Same(sp.res, v, Before(x, i))
<1>1. PICK tk, k, b : tk = txns[x].tok /\ k = sp.k /\ b = Before(x, i)
  OBVIOUS
<1>2. tk \in DOMAIN tokens
  BY <1>1 DEF KnownInv, UndoInv, TransactionsAreOwn
<1>3. sp \in Savepoints
  BY SavepointsOf DEF KnownInv
<1>4. SavepointFits(x, i) /\ TokenFits(tk)
  BY <1>2 DEF RecoveryInv
<1>5. PICK it : it = tokens[tk].items[k]
  OBVIOUS
<1>6. /\ tokens[tk].action \in Remembered /\ k \in DOMAIN tokens[tk].items
      /\ sp.res = it.res /\ sp.content = it.old /\ sp.created = it.create
  BY <1>1, <1>4, <1>5 DEF SavepointFits, Remembered
<1>7. b = replaced[<<tk, k>>] /\ tokens[tk].action # "backup_revert" /\ (b # Absent \/ sp.created)
  BY <1>1 DEF Promised, Before
<1>8. AsFound(tk, k, b)
  BY <1>1, <1>4, <1>7 DEF SavepointFits
<1>9. \/ b = Absent
      \/ b = it.old /\ ~it.create
  BY <1>5, <1>8 DEF AsFound
<1>10. it.create => it.res \in Files
  BY <1>4, <1>5, <1>6 DEF TokenFits, Remembered, Applies
<1>11. sp.created => sp.res \notin Dashboards
  BY <1>6, <1>10, ContextAssumption
<1>12. CASE sp.created
  <2>1. v = Absent /\ b = Absent
    BY <1>6, <1>9, <1>11, <1>12
  <2> QED
    BY <1>1, <2>1 DEF Same
<1>13. CASE ~sp.created
  <2>1. b = sp.content /\ b \in Contents /\ b # Absent
    BY <1>3, <1>6, <1>7, <1>9, <1>13, ContextAssumption DEF Savepoints
  <2>2. v = b \/ v = Written(sp.res, b)
    BY <1>13, <2>1 DEF Restored
  <2>3. /\ Written(sp.res, b) \in Contents
        /\ Written(sp.res, Written(sp.res, b)) = Written(sp.res, b)
    BY <2>1, ContextAssumption DEF Written
  <2>4. Written(sp.res, b) # Absent
    BY <2>3, ContextAssumption
  <2>5. CASE v = b
    BY <1>1, <2>5 DEF Same
  <2>6. CASE v = Written(sp.res, b)
    BY <1>1, <2>1, <2>3, <2>4, <2>6 DEF Same
  <2> QED
    BY <2>2, <2>5, <2>6
<1> QED
  BY <1>12, <1>13

(* Which savepoints a rollback has put back as it goes.                    *)
LEMMA RollbackCounts ==
  ASSUME NEW c, NEW d, c.k \in Nat, c.n \in Nat, c.k > 0, c.k <= c.n,
         d.n = c.n, d.pc \in Restoring, c.pc \in Restoring, NEW j \in Nat
  PROVE  /\ d.pc = "rb_undo" /\ d.k = c.k - 1 => (PutBack(d, j) <=> j \in c.k..c.n)
         /\ d.pc = "rb_wait" /\ d.k = c.k /\ d.reply = "ok" => (PutBack(d, j) <=> j \in c.k..c.n)
         /\ d.pc = "rb_wait" /\ d.k = c.k /\ d.reply # "ok" => (PutBack(d, j) <=> j \in (c.k + 1)..c.n)
         /\ c.pc = "rb_undo" \/ c.reply # "ok" => (PutBack(c, j) <=> j \in (c.k + 1)..c.n)
         /\ c.pc = "rb_wait" /\ c.reply = "ok" => (PutBack(c, j) <=> j \in c.k..c.n)
BY DEF PutBack, Restoring

(* Every step of a rollback keeps the way back.                            *)
LEMMA RollbackRecovers ==
  ASSUME KnownInv, TypeInv', TokenInv', RecoveryInv, NEW t \in Tasks,
         RollbackStep(t) \/ \E x \in DOMAIN txns : RollbackEnter(t, x)
  PROVE  RecoveryInv'
<1>1. task[t].pc \in {"idle", "rb_claim", "rb_undo"} => task[t].pc \notin Waiting
  BY DEF Waiting
<1>2. PICK s : s = task[t]
  OBVIOUS
<1>3. s \in Calls
  BY <1>2, CallFacts DEF KnownInv
<1>4. PICK x : x = s.txn
  OBVIOUS
<1>5. s.pc \in Restoring =>
        /\ s.k \in Nat /\ s.n \in Nat /\ RestoresSaves(s)
        /\ x \in DOMAIN txns /\ txns[x].state = "committed"
        /\ s.n \in {0, Len(txns[x].saves)} /\ s.k <= s.n
        /\ DOMAIN txns[x].saves = 1..Len(txns[x].saves) /\ Len(txns[x].saves) \in Nat
        /\ s.k > 0 => s.k \in DOMAIN txns[x].saves /\ txns[x].saves[s.k] \in Savepoints
        /\ s.k > 0 => Undoing(t) = txns[x].saves[s.k]
  BY <1>2, <1>4, RollbackIs
<1>6. UNCHANGED txns => TxnsFit(t)
  BY SameTxnsFit DEF KnownInv
<1>7. ASSUME NEW y \in DOMAIN txns, RollbackEnter(t, y) PROVE RecoveryInv'
  <2> DEFINE c == [Idle EXCEPT !.pc = "rb_claim", !.txn = y]
  <2>1. /\ task[t].pc = "idle" /\ task' = [task EXCEPT ![t] = c]
        /\ UNCHANGED <<memory, durable, world>>
    BY <1>7 DEF RollbackEnter, MayStart
  <2>2. c.pc = "rb_claim" /\ c.tok = 0
    BY DEF Idle
  <2> HIDE DEF c
  <2>3. Recovers(c)'
    BY <2>2, NothingToKeep
  <2> QED
    BY <1>1, <1>6, <2>1, <2>2, <2>3, RecoverGoes DEF memory, durable, world
<1>8. ASSUME NEW tk, RollbackClaim(t, tk) PROVE RecoveryInv'
  <2>1. PICK n : n = IF ActiveSavepoints(x) = {} THEN 0 ELSE Len(txns[x].saves)
    OBVIOUS
  <2> DEFINE c == [s EXCEPT !.pc = "rb_undo", !.tok = tk, !.k = n, !.n = n]
  <2>2. /\ s.pc = "rb_claim" /\ ClaimToken(tk) /\ RollbackTransaction(x)
        /\ task' = [task EXCEPT ![t] = c] /\ UNCHANGED <<durable, world>>
    BY <1>2, <1>4, <1>8, <2>1 DEF RollbackClaim, At
  <2>3. c.pc = "rb_undo" /\ c.tok = tk /\ c.k = n /\ c.n = n /\ c.txn = x
    BY <1>3, <1>4 DEF Calls
  <2> HIDE DEF c
  <2>4. x \in DOMAIN txns
    BY <1>2, <1>4, <2>2 DEF KnownInv, UndoInv, TransactionsMatch, CallMatches, RollingBack
  <2>5. SavesKeep(x)
    BY <2>2, <2>4, TxnsKept DEF KnownInv
  <2>6. n \in {0, Len(txns'[x].saves)} /\ n \in Nat
    BY <2>1, <2>4, <2>5, SavepointsOf DEF SavesKeep, KnownInv
  <2>7. \A j : ~PutBack(c, j)
    BY <2>3, <2>6 DEF PutBack
  <2>8. RestoresSaves(c)'
    <3>1. \A j : ~PutBack(c, j)'
      BY <2>7 DEF PutBack
    <3> QED
      BY <2>3, <2>6, <3>1 DEF RestoresSaves
  <2>9. Recovers(c)'
    BY <2>3, <2>8, RestoringRecovers DEF Restoring
  <2>10. TxnsFit(t)
    BY <2>2, SameTxnsFit DEF KnownInv
  <2> QED
    BY <1>1, <1>2, <2>2, <2>3, <2>9, <2>10, RecoverGoes DEF durable, world
<1>9. ASSUME NEW tk, RollbackMismatch(t, tk) PROVE RecoveryInv'
  <2>1. /\ task[t].pc = "rb_claim" /\ ClaimToken(tk) /\ task' = [task EXCEPT ![t] = Idle]
        /\ UNCHANGED <<txns, durable, world>>
    BY <1>9 DEF RollbackMismatch, At, Finish
  <2> QED
    BY <1>1, <1>6, <2>1, RecoverEnds DEF durable, world
<1>10. CASE RollbackRefuse(t)
  <2>1. /\ task[t].pc = "rb_claim" /\ task' = [task EXCEPT ![t] = Idle]
        /\ UNCHANGED <<memory, durable, world>>
    BY <1>10 DEF RollbackRefuse, At, Finish
  <2> QED
    BY <1>1, <1>6, <2>1, RecoverEnds DEF memory, durable, world
<1>11. CASE RollbackFile(t)
  <2>1. PICK k, sp, v : /\ k = s.k /\ sp = txns[x].saves[k]
                        /\ v = IF sp.created THEN Absent ELSE Restored(sp.res, sp.content)
    OBVIOUS
  <2> DEFINE c == [s EXCEPT !.k = k - 1]
  <2>2. s.pc = "rb_undo" /\ s.k > 0 /\ s.pc \in Restoring
    BY <1>2, <1>11 DEF RollbackFile, At, Restoring
  <2>3. Undoing(t) = sp /\ sp \in Savepoints /\ k \in DOMAIN txns[x].saves
    BY <1>5, <2>1, <2>2
  <2>4. /\ Write(sp.res, v, "undo", s.tok) /\ task' = [task EXCEPT ![t] = c]
        /\ UNCHANGED <<memory, durable, inflight, replaced>>
    BY <1>2, <1>11, <2>1, <2>3 DEF RollbackFile
  <2>5. /\ c.pc = "rb_undo" /\ c.k = k - 1 /\ c.n = s.n /\ c.txn = x /\ c.tok = s.tok
        /\ c.dirty = s.dirty
    BY <1>3, <1>4, <2>2 DEF Calls
  <2> HIDE DEF c
  <2>6. c.pc \in Restoring
    BY <2>5 DEF Restoring
  <2>7. /\ content' = [content EXCEPT ![sp.res] = v] /\ unsure \subseteq unsure'
        /\ sp.res \in DOMAIN content
    BY <2>3, <2>4 DEF Write, Savepoints, KnownInv, TypeInv, TypeOK
  <2>8. \A j \in Nat : /\ PutBack(c, j) <=> j \in k..s.n
                       /\ PutBack(s, j) <=> j \in (k + 1)..s.n
    BY <1>5, <2>1, <2>2, <2>5, <2>6, RollbackCounts
  <2>9. DOMAIN txns[x].saves \subseteq Nat /\ k \in Nat /\ s.n \in Nat /\ k <= s.n
    BY <1>5, <2>1, <2>2
  <2>10. txns[x].tok \notin unsure /\ Promised(x, k) => Same(sp.res, content'[sp.res], Before(x, k))
    BY <1>5, <2>1, <2>2, <2>3, <2>7, SavepointBringsBack
  <2>11. RestoresSaves(c)'
    <3>1. \A j \in DOMAIN txns[x].saves : PutBack(c, j) => j = k \/ PutBack(s, j)
      BY <2>8, <2>9
    <3>2. \A j \in DOMAIN txns[x].saves : PutBack(s, j) => PutBack(c, j) /\ k < j
      BY <2>8, <2>9
    <3>3. PutBack(c, k) /\ c.k <= c.n
      BY <2>5, <2>8, <2>9
    <3>4. \A q : q # sp.res => content'[q] = content[q]
      BY <2>7
    <3>5. RestoresSaves(s) /\ UNCHANGED <<tokens, txns, replaced>>
      BY <1>5, <2>2, <2>4 DEF memory
    <3>6. /\ s.pc \in Restoring /\ c.txn = s.txn /\ c.tok = s.tok /\ c.n = s.n
          /\ c.k <= c.n /\ c.dirty = s.dirty /\ unsure \subseteq unsure'
      BY <1>4, <2>2, <2>5, <2>7, <3>3
    <3>7. /\ x = s.txn /\ k \in DOMAIN txns[x].saves /\ DOMAIN txns[x].saves \subseteq Nat
          /\ sp.res = txns[x].saves[k].res
      BY <1>4, <2>1, <2>3, <2>9
    <3> QED
      BY <2>10, <3>1, <3>2, <3>3, <3>4, <3>5, <3>6, <3>7, RestoringWrites
  <2>12. Recovers(c)'
    BY <2>6, <2>11, RestoringRecovers
  <2> QED
    BY <1>1, <1>2, <1>6, <2>2, <2>4, <2>5, <2>12, RecoverWrites DEF memory, durable
<1>12. CASE RollbackFileFails(t)
  <2> DEFINE c == [s EXCEPT !.k = s.k - 1, !.dirty = TRUE]
  <2>1. /\ s.pc = "rb_undo" /\ s.k > 0 /\ task' = [task EXCEPT ![t] = c]
        /\ UNCHANGED <<memory, durable, world>>
    BY <1>2, <1>12 DEF RollbackFileFails, At
  <2>2. /\ c.pc = "rb_undo" /\ c.k = s.k - 1 /\ c.n = s.n /\ c.txn = s.txn /\ c.tok = s.tok
        /\ c.dirty
    BY <1>3, <2>1 DEF Calls
  <2> HIDE DEF c
  <2>3. s.pc \in Restoring /\ c.pc \in Restoring
    BY <2>1, <2>2 DEF Restoring
  <2>4. c.k <= c.n
    BY <1>5, <2>2, <2>3
  <2>5. RestoresSaves(c)'
    BY <1>5, <2>1, <2>2, <2>3, <2>4, RestoringGoes DEF memory, world
  <2>6. Recovers(c)'
    BY <2>3, <2>5, RestoringRecovers
  <2> QED
    BY <1>1, <1>2, <1>6, <2>1, <2>2, <2>6, RecoverGoes DEF memory, durable, world
<1>13. CASE RollbackCrashes(t)
  <2>1. /\ task[t].pc = "rb_undo" /\ task' = [task EXCEPT ![t] = Idle]
        /\ UNCHANGED <<memory, durable, world>>
    BY <1>13 DEF RollbackCrashes, At, Finish
  <2> QED
    BY <1>1, <1>6, <2>1, RecoverEnds DEF memory, durable, world
<1>14. CASE RollbackDashboard(t)
  <2>1. PICK sp : sp = txns[x].saves[s.k]
    OBVIOUS
  <2> DEFINE c == [s EXCEPT !.pc = "rb_wait"]
  <2>2. /\ s.pc = "rb_undo" /\ s.k > 0 /\ task' = [task EXCEPT ![t] = c]
        /\ Send(s.tok, s.k, "undo", Undoing(t).res, Undoing(t).content, FALSE)
        /\ UNCHANGED <<memory, durable, content, replaced, unsure>>
    BY <1>2, <1>14 DEF RollbackDashboard, At
  <2>3. /\ c.pc = "rb_wait" /\ c.k = s.k /\ c.n = s.n /\ c.txn = s.txn /\ c.tok = s.tok
        /\ c.dirty = s.dirty /\ c.reply = s.reply
    BY <1>3 DEF Calls
  <2> HIDE DEF c
  <2>4. s.pc \in Restoring /\ c.pc \in Restoring /\ s.reply = "none"
    BY <1>1, <1>2, <2>2, <2>3, NoReplyYet DEF Restoring, KnownInv
  <2>5. Undoing(t) = sp
    BY <1>5, <2>1, <2>2, <2>4
  <2>6. \A j : PutBack(c, j) <=> PutBack(s, j)
    BY <2>2, <2>3, <2>4 DEF PutBack
  <2>7. RestoresSaves(c)'
    BY <1>5, <2>2, <2>3, <2>4, <2>6, RestoringGoes DEF memory
  <2>8. Recovers(c)'
    BY <2>4, <2>7, RestoringRecovers
  <2>9. ASSUME NEW e, e.tok = s.tok, e.k = s.k, e.dir = "undo", e.res = sp.res, e.new = sp.content
        PROVE  SaveFits(e, c)'
    BY <1>4, <2>1, <2>2, <2>3, <2>9 DEF SaveFits, Holding, memory
  <2>10. \A e : /\ e.tok = s.tok /\ e.k = s.k /\ e.dir = "undo" /\ e.res = sp.res /\ e.new = sp.content
                => SaveFits(e, c)'
    BY <2>9
  <2>11. Send(s.tok, s.k, "undo", sp.res, sp.content, FALSE)
    BY <2>2, <2>5
  <2>12. /\ UNCHANGED tokens /\ UNCHANGED backups /\ UNCHANGED <<content, replaced>>
         /\ unsure \subseteq unsure' /\ task[t].pc \notin Waiting /\ TxnsFit(t)
         /\ c.tok = task[t].tok /\ s.tok = c.tok
    BY <1>1, <1>2, <1>6, <2>2, <2>3 DEF memory, durable
  <2> QED
    BY <2>2, <2>8, <2>10, <2>11, <2>12, RecoverSends
<1>15. CASE RollbackAnswered(t)
  <2> DEFINE c == [s EXCEPT !.pc = "rb_undo", !.k = s.k - 1, !.reply = "none",
                            !.dirty = s.dirty \/ s.reply = "err"]
  <2>1. /\ s.pc = "rb_wait" /\ s.reply # "none" /\ task' = [task EXCEPT ![t] = c]
        /\ UNCHANGED <<memory, durable, world>>
    BY <1>2, <1>15 DEF RollbackAnswered, At
  <2>2. /\ c.pc = "rb_undo" /\ c.k = s.k - 1 /\ c.n = s.n /\ c.txn = s.txn /\ c.tok = s.tok
        /\ (c.dirty <=> s.dirty \/ s.reply = "err")
    BY <1>3, <2>1 DEF Calls
  <2> HIDE DEF c
  <2>3. s.pc \in Restoring /\ c.pc \in Restoring
    BY <2>1, <2>2 DEF Restoring
  <2>4. s.k >= 1
    BY <1>2, <2>1, CallFacts DEF CallFits, KnownInv
  <2>5. c.k <= c.n /\ s.k > 0 /\ s.k \in Nat /\ s.n \in Nat /\ s.k <= s.n
    BY <1>5, <2>2, <2>3, <2>4
  <2>6. ASSUME ~c.dirty, NEW j \in Nat PROVE PutBack(c, j) <=> PutBack(s, j)
    <3>1. s.reply = "ok"
      BY <1>3, <2>1, <2>2, <2>6 DEF Calls
    <3> QED
      BY <2>1, <2>2, <2>3, <2>5, <3>1, RollbackCounts
  <2>7. DOMAIN txns[x].saves \subseteq Nat
    BY <1>5, <2>3
  <2>8. RestoresSaves(c)'
    BY <1>4, <1>5, <2>1, <2>2, <2>3, <2>5, <2>6, <2>7, RestoringGoes DEF memory, world
  <2>9. Recovers(c)'
    BY <2>3, <2>8, RestoringRecovers
  <2> QED
    BY <1>2, <1>6, <2>1, <2>2, <2>9, RecoverGoes DEF memory, durable, world
<1>16. CASE RollbackEnd(t)
  <2>1. /\ task[t].pc = "rb_undo" /\ task' = [task EXCEPT ![t] = Idle]
        /\ UNCHANGED <<memory, backups, world>>
    BY <1>16 DEF RollbackEnd, At, Finish
  <2> QED
    BY <1>1, <1>6, <2>1, RecoverEnds DEF memory, world
<1> QED
  BY <1>7, <1>8, <1>9, <1>10, <1>11, <1>12, <1>13, <1>14, <1>15, <1>16 DEF RollbackStep
=============================================================================
