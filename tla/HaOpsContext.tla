---------------------------- MODULE HaOpsContext ----------------------------
(***************************************************************************)
(* The state every tool handler of ha-ops-mcp reaches through HaOpsContext *)
(* (server.py): the confirmation tokens (safety/confirmation.py), the      *)
(* in-memory transactions (safety/rollback.py), the backup manifest        *)
(* (safety/backup.py), the audit log (safety/audit.py), the per-dashboard  *)
(* mutation locks, the WebSocket connection to Home Assistant, and the     *)
(* configuration files and dashboards all of them are about.               *)
(*                                                                         *)
(* A tool call is a task of one asyncio event loop.  A handler gives the   *)
(* loop up only where it really waits: for a contended lock or for a       *)
(* WebSocket reply.  Between two such points `loop` holds the task, so no  *)
(* other task runs; people, Home Assistant and a crash do not ask the loop *)
(* and may act between any two steps.                                      *)
(*                                                                         *)
(* A `file:` lock is taken and released within one such stretch and so     *)
(* never leaves a trace; only the dashboard locks are state here.          *)
(***************************************************************************)
EXTENDS Naturals, Sequences, FiniteSets

CONSTANTS
  Files,          (* configuration files under the config root             *)
  YamlFiles,      (* those of them that are written by a ruamel round trip *)
  Dashboards,     (* Lovelace dashboards, saved over the WebSocket         *)
  Contents,       (* texts of files and configs of dashboards              *)
  Empty,          (* the content "" of a file, {} of a dashboard           *)
  Absent,         (* the resource does not exist                           *)
  Texts,          (* those of them that sessions and people write          *)
  Canon,          (* Canon[c]: what ruamel emits for the YAML text c       *)
  Broken,         (* texts that ruamel cannot load                         *)
  Tasks,          (* tool calls that can be in progress at a time          *)
  None,           (* no task, no value                                     *)
  Tools,          (* the tool families that the sessions use               *)
  Faults,         (* what befalls the server: edit, cancel, restart, log   *)
  BackupOnWrite,  (* config.safety.backup_on_write                         *)
  MaxPerType,     (* BackupManager retention, entries of one type          *)
  MaxTokens,      (* bound: previews that issue a token                    *)
  MaxItems        (* bound: items of one batch                             *)

Resources == Files \cup Dashboards

ASSUME ContextAssumption ==
  /\ Files \cap Dashboards = {}
  /\ YamlFiles \subseteq Files
  /\ Empty \in Contents
  /\ Absent \notin Contents
  /\ Texts \subseteq Contents
  /\ Broken \subseteq Contents \ {Empty}
  /\ Canon \in [Contents -> Contents]
  /\ \A c \in Contents : Canon[Canon[c]] = Canon[c]
  /\ \A c \in Contents : IF c \in Broken THEN Canon[c] = c ELSE Canon[c] \notin Broken
  /\ None \notin Contents \cup Tasks \cup {Absent}
  /\ BackupOnWrite \in BOOLEAN
  /\ MaxPerType \in Nat \ {0}
  /\ MaxTokens \in Nat \ {0}
  /\ MaxItems \in Nat \ {0}

VARIABLES
  content,   (* content of each resource, on disk or in Home Assistant     *)
  tokens,    (* SafetyManager._tokens, in the order they were issued       *)
  txns,      (* RollbackManager._transactions, in the order they began     *)
  backups,   (* the backup manifest with the files it names                *)
  audit,     (* operations.jsonl                                           *)
  lock,      (* holder of each dashboard's mutation lock                   *)
  loop,      (* the task that holds the event loop between two awaits      *)
  task,      (* the tool calls in progress                                 *)
  inflight,  (* lovelace/config/save commands sent and not yet executed    *)
  writer,    (* history: who wrote each resource last                      *)
  replaced,  (* history: what the write of item k of a token replaced      *)
  unsure     (* history: tokens whose call met a foreign write or could    *)
             (* not read what it was to check                              *)

memory  == <<tokens, txns>>
durable == <<backups, audit>>
sched   == <<lock, loop, task>>
world   == <<content, inflight, writer, replaced, unsure>>
vars    == <<memory, durable, sched, world>>

-----------------------------------------------------------------------------
(* Types.                                                                  *)

TokenIds == 1..MaxTokens
Items    == [res : Resources, old : Contents, new : Contents, create : BOOLEAN]
Actions  == {"config_apply", "dashboard_apply", "batch_apply",
             "rollback", "backup_revert", "backup_prune"}
Tokens   == [action : Actions, items : Seq(Items), txn : Nat,
             state : {"live", "spent", "gone"}]

(* An UndoEntry of type FILE or DASHBOARD; `tok` and `k` say which item it *)
(* was recorded for.                                                       *)
Savepoints == [res : Resources, content : Contents, created : BOOLEAN,
               k : Nat, undone : BOOLEAN]
Txns       == [state : {"open", "committed", "gone"}, tok : TokenIds,
               saves : Seq(Savepoints)]

BackupEntries == [res : Resources, text : Contents, kept : BOOLEAN]
AuditEntries  == [tok : TokenIds, ok : BOOLEAN, dirty : BOOLEAN]

Points == {"idle", "cfg_backup", "cfg_write", "cfg_commit",
           "dash_lock", "dash_wait", "rb_claim", "rb_undo", "rb_wait",
           "rv_write", "rv_commit", "rv_wait",
           "b_item", "b_write", "b_lock", "b_wait", "b_undo", "b_uwait"}

(* pc: where the call stands; tok: the token it claimed; txn: the          *)
(* transaction it works on; k: the current item; n: the items it has to    *)
(* restore; reply: the answer of Home Assistant it was given; dirty: some  *)
(* restore failed; baks: backup of each executed item, 0 for none.         *)
Calls == [pc : Points, tok : {0} \cup TokenIds, txn : Nat, k : Nat, n : Nat,
          reply : {"none", "ok", "err"}, dirty : BOOLEAN, baks : Seq(Nat)]

Saves == [tok : TokenIds, k : Nat, dir : {"do", "undo"}, res : Dashboards,
          new : Contents, heard : BOOLEAN, checked : BOOLEAN]

Writers == {"outside", "apply", "revert", "undo", "late"}

TypeOK ==
  /\ content \in [Resources -> Contents \cup {Absent}]
  /\ tokens \in Seq(Tokens)
  /\ txns \in Seq(Txns)
  /\ backups \in Seq(BackupEntries)
  /\ audit \in Seq(AuditEntries)
  /\ lock \in [Dashboards -> Tasks \cup {None}]
  /\ loop \in Tasks \cup {None}
  /\ task \in [Tasks -> Calls]
  /\ inflight \subseteq Saves
  /\ writer \in [Resources -> Writers]
  /\ replaced \in [TokenIds \X (1..MaxItems) -> Contents \cup {Absent, None}]
  /\ unsure \subseteq TokenIds

-----------------------------------------------------------------------------
(* Contents.                                                               *)

(* What is on disk after the new text c of r was written: YAML is emitted  *)
(* from the parsed data, any other file gets the text itself.              *)
Written(r, c) == IF r \in YamlFiles THEN Canon[c] ELSE c

(* ruamel can load the text; other files are not parsed.                   *)
Loads(r, c) == r \in YamlFiles => c \notin Broken

(* Two contents a reader of the resource cannot tell apart.                *)
Same(r, a, b) ==
  a = b \/ (a # Absent /\ b # Absent /\ Written(r, a) = Written(r, b))

(* Variant: a missing resource is not told from its content.               *)
AsRead(c) == c

(* A missing file reads as "", a missing dashboard as {}.                  *)
OrEmpty(c) == IF c = Absent THEN Empty ELSE c

-----------------------------------------------------------------------------
(* SafetyManager.                                                          *)

CreateToken(action, items, x) ==
  /\ Len(tokens) < MaxTokens
  /\ tokens' = Append(tokens, [action |-> action, items |-> items, txn |-> x,
                               state |-> "live"])

Live(tk) == tk \in DOMAIN tokens /\ tokens[tk].state = "live"

(* Two bugs that TLC must tell from ClaimToken:                            *)
(* validate and leave the mark for later; mark without the check.          *)
ClaimUnmarked(tk) == Live(tk) /\ UNCHANGED tokens

ClaimUnchecked(tk) ==
  /\ tk \in DOMAIN tokens
  /\ tokens' = [tokens EXCEPT ![tk].state = "spent"]

(* The check and the mark are one synchronous step.  A claim of a spent or *)
(* unknown token raises, and the call ends without having done anything.   *)
ClaimToken(tk) ==
  /\ Live(tk)
  /\ tokens' = [tokens EXCEPT ![tk].state = "spent"]

(* What the call of a token is about to write.                             *)
Targets(tk) ==
  IF tk \in DOMAIN tokens
  THEN {tokens[tk].items[k].res : k \in DOMAIN tokens[tk].items}
  ELSE {}

-----------------------------------------------------------------------------
(* RollbackManager.                                                        *)

Savepoint(r, c, created, k) ==
  [res |-> r, content |-> c, created |-> created, k |-> k, undone |-> FALSE]

Begin(tk, saves) ==
  txns' = Append(txns, [state |-> "open", tok |-> tk, saves |-> saves])

AddSavepoint(x, sp) ==
  txns' = [txns EXCEPT ![x].saves = Append(@, sp)]

Commit(x)  == txns' = [txns EXCEPT ![x].state = "committed"]
Discard(x) == txns' = [txns EXCEPT ![x].state = "gone"]

(* Variant: a savepoint is active whether or not it was undone.            *)
AllSavepoints(x) == DOMAIN txns[x].saves

ActiveSavepoints(x) ==
  {i \in DOMAIN txns[x].saves : ~txns[x].saves[i].undone}

RollbackTransaction(x) ==
  txns' = [txns EXCEPT ![x].saves =
             [i \in DOMAIN @ |-> [@[i] EXCEPT !.undone = TRUE]]]

-----------------------------------------------------------------------------
(* BackupManager: a copy is made, a manifest line appended, and retention  *)
(* then drops all but the newest MaxPerType entries of a type.             *)

SameType(r, s) == (r \in Files) = (s \in Files)

Retained(bs, i) ==
  Cardinality({j \in (i + 1)..Len(bs) :
                 bs[j].kept /\ SameType(bs[j].res, bs[i].res)}) < MaxPerType

(* Variant: two copies of one resource get the same file name.             *)
BackUpSameName(r, c) ==
  backups' = Append([i \in DOMAIN backups |->
                       IF backups[i].res = r THEN [backups[i] EXCEPT !.text = c]
                                             ELSE backups[i]],
                    [res |-> r, text |-> c, kept |-> TRUE])

BackUp(r, c) ==
  LET bs == Append(backups, [res |-> r, text |-> c, kept |-> TRUE])
  IN  backups' = [i \in DOMAIN bs |->
                    [bs[i] EXCEPT !.kept = @ /\ Retained(bs, i)]]

-----------------------------------------------------------------------------
(* AuditLog.  No caller catches what opening the file or writing to it     *)
(* raises: then nothing is logged and the call ends with the exception,    *)
(* after everything else it did.                                           *)

LogOperation(tk, ok, dirty) ==
  \/ audit' = Append(audit, [tok |-> tk, ok |-> ok, dirty |-> dirty])
  \/ "log" \in Faults /\ UNCHANGED audit

-----------------------------------------------------------------------------
(* Tasks.                                                                  *)

Idle == [pc |-> "idle", tok |-> 0, txn |-> 0, k |-> 0, n |-> 0,
         reply |-> "none", dirty |-> FALSE, baks |-> <<>>]

(* t may run: the loop is free, or t is the one that holds it.             *)
MayRun(t) == loop \in {None, t}

At(t, pc) == task[t].pc = pc /\ MayRun(t)

MayStart(t) == task[t].pc = "idle" /\ loop = None

(* t ends its call and gives the loop up.                                  *)
Finish(t) ==
  /\ task' = [task EXCEPT ![t] = Idle]
  /\ loop' = None

Token(t) == tokens[task[t].tok]
Item(t)  == Token(t).items[task[t].k]

-----------------------------------------------------------------------------
(* Writing a resource, and what that does to the calls that are at work on *)
(* it.  tk is the token of the writing call, 0 for anyone else.            *)

Bystanders(r, tk) ==
  {task[u].tok : u \in {v \in Tasks : /\ task[v].tok # 0
                                     /\ task[v].tok # tk
                                     /\ r \in Targets(task[v].tok)}}

Write(r, c, who, tk) ==
  /\ content' = [content EXCEPT ![r] = c]
  /\ writer'  = [writer EXCEPT ![r] = who]
  /\ unsure'  = unsure \cup Bystanders(r, tk)

Replace(tk, k, r) == replaced' = [replaced EXCEPT ![<<tk, k>>] = content[r]]

-----------------------------------------------------------------------------
(* The WebSocket: send_command puts a command on the connection and waits  *)
(* for the reply with the same id, for a lost connection, or for 30        *)
(* seconds.  Home Assistant may execute a command nobody waits for.        *)

Send(tk, k, dir, r, c, checked) ==
  inflight' = inflight \cup {[tok |-> tk, k |-> k, dir |-> dir, res |-> r,
                              new |-> c, heard |-> TRUE, checked |-> checked]}

Unheard(tk) ==
  {IF e.tok = tk THEN [e EXCEPT !.heard = FALSE] ELSE e : e \in inflight}

(* HaOpsContext.mutation_lock, entered when it is free.                    *)
Acquire(t, r) == lock[r] = None /\ lock' = [lock EXCEPT ![r] = t]

(* Variants: the lock of the call's target is freed, whoever holds it; a   *)
(* lock is kept.                                                           *)
ReleaseTarget(t) == lock' = [lock EXCEPT ![Item(t).res] = None]
ReleaseNothing(t) == UNCHANGED lock

Release(t) ==
  lock' = [d \in Dashboards |-> IF lock[d] = t THEN None ELSE lock[d]]

(* What the writer of a save is to the other callers.                      *)
SaveKind(e) ==
  CASE ~e.heard                                 -> "late"
    [] e.heard /\ e.dir = "undo"                -> "undo"
    [] e.heard /\ e.dir = "do" /\ tokens[e.tok].action = "backup_revert"
                                                -> "revert"
    [] OTHER                                    -> "apply"

(* Home Assistant executes a save; its reply reaches the call, if it still *)
(* waits for it.                                                           *)
HaSave(e) ==
  /\ Write(e.res, e.new, SaveKind(e), IF e.heard THEN e.tok ELSE 0)
  /\ inflight' = inflight \ {e}
  /\ IF e.heard
     THEN task' = [t \in Tasks |-> IF task[t].tok = e.tok
                                   THEN [task[t] EXCEPT !.reply = "ok"]
                                   ELSE task[t]]
     ELSE UNCHANGED task
  /\ IF e.heard /\ e.dir = "do"
     THEN Replace(e.tok, e.k, e.res)
     ELSE UNCHANGED replaced
  /\ UNCHANGED <<memory, durable, lock, loop>>

(* The call of t gets a WebSocketError: the save was refused or never left *)
(* (it is gone), or the reply was lost or is late (it may still execute).  *)
WsError(t) ==
  \E e \in inflight :
    /\ e.heard /\ e.tok = task[t].tok
    /\ inflight' \in {inflight \ {e}, Unheard(e.tok)}
    /\ task' = [task EXCEPT ![t].reply = "err"]
    /\ UNCHANGED <<memory, durable, lock, loop, content, writer, replaced,
                   unsure>>

-----------------------------------------------------------------------------
(* The world around the server.                                            *)

(* A person or Home Assistant edits, creates or deletes a resource.        *)
OutsideEdit(r, c) ==
  /\ "edit" \in Faults
  /\ c # content[r]
  /\ Write(r, c, "outside", 0)
  /\ UNCHANGED <<memory, durable, sched, inflight, replaced>>

(* The client cancels a call, or disconnects, while the call waits.  The   *)
(* CancelledError passes every `except Exception`; `async with` releases.  *)
Cancel(t) ==
  /\ "cancel" \in Faults
  /\ task[t].pc # "idle" /\ loop = None
  /\ task' = [task EXCEPT ![t] = Idle]
  /\ inflight' = Unheard(task[t].tok)
  /\ Release(t)
  /\ UNCHANGED <<memory, durable, loop, content, writer, replaced, unsure>>

(* The add-on stops, in the middle of whatever it does, and starts again:  *)
(* tokens and transactions were in memory only.  (A spent token is refused *)
(* like a forgotten one and keeps its mark here.)                          *)
Restart ==
  /\ "restart" \in Faults
  /\ tokens' = [i \in DOMAIN tokens |->
                  [tokens[i] EXCEPT !.state = IF @ = "live" THEN "gone" ELSE @]]
  /\ txns' = [i \in DOMAIN txns |-> [txns[i] EXCEPT !.state = "gone"]]
  /\ lock' = [d \in Dashboards |-> None]
  /\ loop' = None
  /\ task' = [t \in Tasks |-> Idle]
  /\ inflight' = {[e EXCEPT !.heard = FALSE] : e \in inflight}
  /\ UNCHANGED <<durable, content, writer, replaced, unsure>>

Init ==
  /\ content \in [Resources -> Texts \cup {Absent}]
  /\ tokens = <<>>
  /\ txns = <<>>
  /\ backups = <<>>
  /\ audit = <<>>
  /\ lock = [d \in Dashboards |-> None]
  /\ loop = None
  /\ task = [t \in Tasks |-> Idle]
  /\ inflight = {}
  /\ writer = [r \in Resources |-> "outside"]
  /\ replaced = [p \in TokenIds \X (1..MaxItems) |-> None]
  /\ unsure = {}
=============================================================================
