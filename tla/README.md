# ha-ops-mcp: a TLA+ verification

ha-ops-mcp is an MCP server that gives AI assistants access to a Home
Assistant installation. It is one asyncio process. Tools that change something
work in two phases: a preview that returns a diff and a confirmation token, and
an apply that claims the token, rechecks, backs up, writes and logs. Several
sessions share one process, so tool calls run concurrently, next to people who
edit the same files and dashboards, and next to Home Assistant itself.

The development has three layers:

- the **mutation pipeline** for configuration files and dashboards: tokens,
  backups, in-memory transactions, audit log, dashboard locks, WebSocket saves,
  and the tools config, dashboard, batch, rollback and backup, composed;
- the **connection** to Home Assistant under it: socket, listener, pending
  commands, reconnection, and the registry reads that rest on it, composed;
- the **components** beside them that share no state with the pipeline: stores
  under crashes, OAuth, logs, entity and helper tools up to their rollback, the
  tools that send commands, ESPHome builds, database connections, browser
  captures, patches, rename plans, the shared reference index and the graph it builds.

TLC checks all of it on small instances. For all instances TLAPS proves that
the pipeline implements its contract and keeps every invariant the runs check, the four
properties of the connection, and twenty-three of the components' (section 5). Liveness is only
model-checked.

## 1. Inventory

Paths are below `src/src/ha_ops_mcp/`.

### Modelled

| part | state | operations | correct when |
|---|---|---|---|
| Confirmation tokens, `safety/confirmation.py` | `_tokens` in memory | create, claim | a token drives at most one call |
| Rollback manager, `safety/rollback.py` | `_transactions` in memory | begin, savepoint, commit, discard, roll back | a transaction is undone at most once, newest savepoint first |
| Backup manager, `safety/backup.py` | manifest and copies | back up, retain, prune | what a write destroys was copied before; the newest copies stay |
| Audit log, `safety/audit.py` | two `.jsonl` files | append, rotate, clear, merged tail | one report per token; the timeline shows the newest |
| Mutation locks, `server.py` | one lock per resource | lock around recheck and write | two applies never overwrite each other's work; nobody waits in a circle |
| WebSocket client, `connections/websocket.py` | socket, listener, futures, lock | connect, send, listen, fail, time out | calls of a dead socket fail, a live one is left alone |
| Storage registry, `storage_registry.py` | clock of our last write | read from file or live | acknowledged writes are shown or the answer carries a note |
| Config tools, `tools/config.py` | none of their own | patch, create, apply | only the previewed content is overwritten |
| Dashboard tools, `tools/dashboard.py` | none | diff, patch, apply | the same, across a wait for Home Assistant |
| Batch tools, `tools/batch.py` | none | preview, apply | all items or none |
| Rollback tool, `tools/rollback.py` | none | preview, confirm | targets are as they were before the transaction |
| Backup tools, `tools/backup.py` | none | revert, prune | a revert can itself be undone |
| Patch algorithm, `utils/diff.py` | none | apply a diff to a file that moved | a hunk lands on the lines it was written for |
| Output stores, `safety/captures.py`, `safety/shell_output.py` | manifest and files | save, retain, sweep, delete, annotate | nothing piles up, nothing young is lost |
| OAuth, `auth/provider.py`, `auth/store.py` | memory and `oauth.json` | register, authorize, exchange, refresh, verify, revoke | credentials are single-use, revocation final, active sessions stay |
| Entity tools, `tools/entity.py` | a transaction each | remove, toggle, rename | one rollback undoes all of it; references follow |
| Rename plan, `refactor_rename.py` | none | plan rewrites | every reference is rewritten or reported, under the right name |
| Helper tools, `tools/helper.py` | a transaction each | create, update, delete | only the named helper changes, and the answer names it |
| Command tools, 12 files in `tools/` | tokens | preview, confirm, or call at once | what was shown is done, and success means done |
| ESPHome builds, `tools/esphome.py` | build lock | build | artifacts listed are the build's own |
| Database connections, `connections/database.py` | pooled connections | query, execute, explain | a statement runs in the mode it needs |
| Browser captures, `ui/capture.py`, `tools/ui_suite.py` | semaphore, browsers | screenshot, perf, interact, trace | one browser at a time, nothing left behind |
| Shared index, `refindex/__init__.py`, `tools/refs.py` | `ctx.request_index` | build, share, reset | files behind an answer are current |
| Reference graph, `refindex/builder.py`, `utils/ha_yaml.py` | none | build | every mention in sight is found, no file walked by two passes that exclude each other |

The pipeline's parts interact through `HaOpsContext`: a handler calls the
managers directly, and the managers share nothing but the context. Two kinds of
wait exist: a contended `asyncio.Lock`, and a reply over a connection.
Everything between two waits is one uninterrupted stretch of the event loop.
Only files, dashboards, Home Assistant's registries, the stores and the logs
survive a restart.

Hard here: concurrent calls on one target; a command that times out and
executes later; cancellation in the middle of a call; a crash between any two
disk accesses; batches and renames that fail half-way; a preview approved long
before it is confirmed; three namings of one helper; a YAML writer that changes
the text it is given. `PROJECT.json` lists each at its line under "hazards",
with the properties about it.

### Not modelled

| part | why |
|---|---|
| Parsing and emitting YAML, JSON, SQL; what a page shows; what counts as a reference within a file, and the registry pass (`refindex/`) | functions of their input whose detail no property here is about; what they preserve and change is modelled (`Canon`, `Substituted`, `Mentions`) |
| Path guard, classification, Lovelace validation, static token | stateless predicates that refuse a call |
| Read-only tools, self-tests, sidebar UI | they ask and render; what the sidebar deletes or clears is in `OutputStores` and `ActivityLog` |
| Tool registration, wiring, configuration | glue |

## 2. Modules

```
HaOpsContext            shared state, managers, locks, WebSocket, environment
  ConfigTools           haops_config_patch, _create, _apply
  DashboardTools        haops_dashboard_diff, _patch, _apply
    BatchTools          haops_batch_preview, _apply
  RollbackTools         haops_rollback
  BackupTools           haops_backup_revert, haops_backup_prune
MutationPipeline        Next, Spec, FairSpec, the properties, KeepsContract
  DocumentedPromises    what the documents say and the code does not do
    MCMutationPipeline  instances for TLC
  PipelineInvariants    inductive invariants
    MutationPipelineProofs   sequences, tables, type correctness; single use of
                             tokens, locks, rechecks
      ContractProofs         single undo, the refinement of ChangeLedger
        RecoveryProofs       backups ahead of every write; the way back of files,
                             dashboards and rollbacks
          RestoreProofs      the way back of batches; whole batches, rollbacks
ChangeLedger            abstract contract of a change
  ChangeLedgerProofs    what the contract implies

WsClient                socket, listener, futures, reconnection
  StorageRegistry       registry reads and the write clock; RegistrySpec
    ConnectionProofs    socket, lock, reads
    MCConnection        instances for TLC

ManifestStore           directory and manifest of a store, crashes, start-up
  BackupStore           backups: retention by type, prune by hand
  OutputStores          captures and shell outputs: retention, sweep, deletion
    DiskStores          the three as one specification, its inductive invariant
OAuthProvider           ActivityLog         EntityTools        HelperTools
TwoPhaseTools           EsphomeBuilds       DatabasePool       BrowserCapture
PatchTools              RenamePlan          RequestIndex       ReferenceGraph
MCComponents            all of these, one at a time, for TLC
ToolsProofs             about TwoPhaseTools, HelperTools, EntityTools
ComponentProofs         about OAuthProvider, DatabasePool, BrowserCapture, RequestIndex,
                        EsphomeBuilds, DiskStores, ActivityLog, RenamePlan,
                        PatchTools, ReferenceGraph
```

### How the pipeline corresponds to the code

**Tasks.** A tool call is an element of `Tasks`; `task[t].pc` says where in its
handler it stands. `loop` names the task that holds the event loop between two
waits: while it is not `None` no other task moves, but people, Home Assistant
and a crash may. So a handler is cut into several actions wherever the disk is
touched twice, without allowing interleavings asyncio does not have. A `file:`
lock is taken and given back within one such stretch and leaves no trace;
dashboard locks are the variable `lock`. Acquiring a dashboard lock is always a
point where other tasks may run (an uncontended acquire does not wait, so this
allows slightly more). The order in which waiters get a lock is not tracked.

**Contents.** A file's text or a dashboard's config is a model value. `Canon[c]`
is the text ruamel emits for the YAML text `c`: loading and dumping may change
layout, and doing it again changes nothing more, which is what
`ContextAssumption` says of `Canon`. `Broken` texts do not load. Config and
batch applies write `Canon[c]`; rollback does too, unless the text holds no data,
which it writes as it is; revert writes bytes. `Empty` is "" or `{}`, and
`Absent` no file or dashboard; several handlers take one for the other, and the
model takes them so where the code does (`OrEmpty`).

**Tokens and transactions** are sequences in the order of creation; ids are
positions. A spent or forgotten one keeps its place with a mark. A token
carries the items (target, old, new content, whether it is created) that the
handler's `details` dict carries. `auto_apply=true` is a preview with the apply
right after it.

**Backups** are a sequence of copies with a `kept` mark; retention keeps the
newest `MaxPerType` of each type, as `_prune_sync` does; age-based retention and
the steps of a pass are `BackupStore`'s. Prune is the `clear_all` form; a `backup_prune` confirm with a
token of another tool runs with the defaults and is logged, as in the code.

**WebSocket.** `inflight` is the set of `lovelace/config/save` commands sent and
not executed. A waiting call gets "ok" when Home Assistant executes its command
(`HaSave`), or an error (`WsError`), after which the command is gone (refused,
never sent) or still there but unheard: it may execute at any later time, or
never. `_get_dashboard_config` followed by the compare and the send is one
step; its result is the current content or `None` (no config, or a failed
read). An edit between that read and the send is the same as one between the
send and the execution, which the model has.

**Environment.** `OutsideEdit` changes, creates or deletes any target at any
time. `Cancel` ends a waiting call as `CancelledError` does: locks are
released by `async with`, `except Exception` handlers do not run, the command
it waited for goes on unheard. `Restart` loses tokens, transactions, locks
and calls. A log entry may fail to be written (`Log`): `AuditLog.log` opens and writes
a file (`audit.py:109`), nobody catches what that raises, and the call ends with it, after
all else it did. `Faults` selects which of the four (edit, cancel, restart, log) an
instance has. A file write can
fail (`ConfigWriteFails`, `BatchFileFails`, ...); it is one step and does not
leave a partial file. That is right for `atomic_write_text`, which config and
batch applies use; rollback and revert use `Path.write_text`, whose truncated
state after a crash is not modelled.

**History variables.** `writer` (who wrote a target last), `replaced` (what the
write of an item overwrote) and `unsure` (calls that met somebody else's write
to one of their targets while they ran, or could not read what they were to
check) influence no action. The properties use them.

**Variants.** Some operators are commented "Variant": a plausible bug in the
operator next to it. No action uses them. Put in place of that operator, each
makes TLC report the property it is listed with in `PROJECT.json`, so no
property holds only because the model could not do otherwise.

### How the connection and the components correspond to the code

A line of a store, a row of a registry, a lease of a lock or a statement is a
member of a small set. Each module's actions are the pieces of a handler
between two waits, or between two disk accesses where a crash is modelled.

**`WsClient`** (`connections/websocket.py`). `send_command` is a program:
look at `_conn`, take `_reconnect_lock`, open (`connecting`), authenticate
(`greeting`, `proving`), send, wait for the future. The message id is chosen and
the future registered in one step, as there is no `await` between. The listener
reads `inbox`; it ends by failing every future, or crashes when it resolves a
future that was cancelled (`websocket.py:146`). `WsFaults` has the
loss of a socket and the cancellation of a caller. A future registered before
the listener starts (`early`) exists because `_conn` is set before
authentication ends. Home Assistant executes `sent` in order of arrival.

**`StorageRegistry`** composes with it: each command is a registry write or a
read; a read goes to the `.storage` file unless its mtime is behind
`_last_write_ts`. Home Assistant writes that file some time after a change (`Flush`).
`now` moves only with what happens, so two events within one tick of the file
system's clock are not modelled.

**`ManifestStore`, `BackupStore`, `OutputStores`**. A save is copy, append; a
retention pass is plan, unlink by unlink, rewrite (`step`). Between any two of
them the process may crash, and each of them may fail (`StoreFaults`). A broken
append leaves half a line (`torn`); the next line is written onto it and lost with
it (`swallowed`). Of the manifest the model keeps the set of entries whose line parses
(`listed`) and, while the file ends without a newline, the entry of that last line
(`tail`, 0 when it does not parse): ids are given out in the order of the lines, and
retention and the output stores' readers skip what does not parse
(`BackupManager.list_backups`, which changes nothing, raises on it,
`backup.py:187`). `byHand` are the entries
of prunes and deletions on request. A rewrite is atomic in all three stores.

**`OAuthProvider`** keeps what `OAuthStore._data` holds and what the file
holds; every operation saves, and a save may fail, leaving memory ahead of
disk. When the process stops, `outdated` notes the access tokens whose entry in the file
is not that of memory; their next verification takes them out. `NextSecond` is the clock, `StartServing` loads the file and drops what has expired.
PKCE, scopes and the static token are checks of the library or of one string.

**`ActivityLog`** numbers the entries, so that a number is also a timestamp; a file is
a sequence of numbers, 0 for a broken line; `cut` files end without a newline. What a
reader gets is the set of numbers: the code sorts by timestamp last (`audit.py:215`).

**`EntityTools`** follows one transaction: preview, token, items one by one with
savepoint and command, rewrite of a file and a dashboard, end, rollback undo by undo,
and the retry of a rollback. A command may be refused, or be carried out with
its reply lost. Outside changes may touch the registry, the file or the
dashboard in any of these places.

**`HelperTools`** has the storage id, entity id and name of each helper, because the
code goes from one to another: a collection command takes the storage id, the
registry is asked for the entity id, and a new helper's entity id is derived
from its name and then asked for again. A name is a pair of slugs (`Names`), as two
programs make one of it: `_slugify`, which keeps every letter (`helper.py:103`), and
Home Assistant, which transliterates. `Derived` has the former, `Assigned` the latter.

**`TwoPhaseTools`** is a table. `Tools[t]` says where tool `t` takes its request
from (the token, the call, or the call compared with the token), and what it makes of a failed command;
`Commands(t, r)` lists what it sends. A request is what is acted on, and the `rest`: working
directory, user, time limit, data of a service call. `loose` tools compare the former only and
take the rest from the call; `flagged` ones say `success: True` beside `status: "initiated"`. The action `RunCommand` sends the next one: it
is answered, refused, or carried out with the reply lost.

**`EsphomeBuilds`**. A call that times out or is cancelled leaves its compile
running in the container and gives the node's lock back; `haunted` marks the
builds that met such a compile.

**`DatabasePool`** has for each connection the mode that outlives a transaction
and the mode of the open one. SQLite (`PRAGMA query_only`) and MariaDB (`SET
SESSION TRANSACTION`) change the former, PostgreSQL the latter only, as the
rollback that follows undoes what it sets. The pool takes a connection back with
a rollback and keeps its session.

**`BrowserCapture`**. Every `await` of a capture may raise or be cancelled
(`Raises`, `StopsWaiting`); `CloseBrowser` is the `finally`.

**`PatchTools`** has `ApplyPatch`, `apply_patch` of `utils/diff.py` with its search
outward, as a recursive function over the hunks; a hunk is its start and four runs of
lines: before, removed, added, after. A client writes a patch of one or two hunks against
the file it read (`WritePatch`), others insert and delete lines (`Drift`), and `home` remembers where
the patch's own lines have gone.

**`RenamePlan`** computes in one step, for every text, mapping and
place of the instance, what `plan_reference_rewrites` returns. `indexed` says whether
the index could be built; when the build raises, it reports nothing
(`refactor_rename.py:349`).

**`RequestIndex`**. A build awaits registry after registry and then reads the
files; calls that overlap share `ctx.request_index`.

**`ReferenceGraph`** has what such a build does with the files. An installation is a
set of lines; a walk is the lines that lead from a file over includes to one
that names the entity. A chain is lines that include file after file, none twice: that is
how far `HaYamlLoader` goes, which follows every include but into a file on the stack of those
being loaded, so the chains from a file are that stack at each of its moments. `Load` has those
that end in the entity, `Reads` the files they lead to; `YamlLayer`, `YamlDashboards` and
`LooseYaml` are the passes, and each skips what `CoveredFiles` has. `automations.yaml`
stands for the five files that are read beside `configuration.yaml`, packages and
`!include_dir_*` for includes.

In `HelperTools` and `EntityTools` the lists of `helper_delete`, `entity_remove` and
`entity_toggle` may name one id twice, as the handlers do not check.

Each component has a specification of its own (`OAuthSpec`, `ToolsSpec`,
`HelperSpec`, `EntitySpec`, `DbSpec`, `CaptureSpec`, `IndexSpec`, `EsphomeSpec`), which
the theorems are about.

**`MCComponents`** puts thirteen independent parts into one instance: the variable
`part` says which one a behaviour is about. This is a convenience of the
configuration; no property relates two of them.

## 3. Properties

### The pipeline

Safety, in `MutationPipeline`:

- `TokenDrivesOneCall`: of all calls in progress and all log entries at most one
  belongs to any token.
- `LockCoversSave`: a call that waits for the reply to a guarded save holds the
  dashboard's lock.
- `WaitersHoldNoLock`: nobody waits for a lock with one in hand.
- `AppliesDoNotClobberApplies`: what an apply overwrites is what its preview
  showed, unless somebody who takes no lock (a person, a revert, a rollback, a
  save that comes late) wrote in between.
- `BackupCoversWrite`: with `backup_on_write`, what a guarded write destroyed had
  been copied, at whatever point the server stops.
- `BatchAllOrNothing`: a successful batch left each target with its last item's
  content; a failed one with nothing reported dirty left each target as before.
- `RollbackRestores`: an undisturbed rollback that reports success has put each
  target back to what the transaction first replaced, up to the layout of a YAML file
  (`Canon`): the tool says "exact" (`rollback.py:244`), and rollback dumps what it loads.
- `RollbackOnce`: two rollbacks of one transaction never both restore.
- `TypeOK`.

`KeepsContract` is refinement: every step of the pipeline is a step of
`ChangeLedger`, with each token a change, its stage computed from tokens, tasks
and log (`Stage`) and its undo from the transactions (`UndoOf`). The contract: a
change is shown before it runs, runs at most once, ends at most one way, and is
undone at most once, after it was carried out to its end and before the next restart. It does not promise
a report: handlers commit the transaction and then append to the log, unguarded
(`config.py:888` and `:895`, `dashboard.py:1111` and `:1116`, `batch.py:660` and `:661`,
`backup.py:252` and `:254`), so a change whose append fails can be undone and is in no log. That is
the stage "unreported". `ApplyAtOnce`, a prune, has its step in the theorem only, as
`rollback_race` has no prunes.

`EveryCallEnds` is liveness under `FairSpec`.

Provisos are part of the properties where the code promises no more:
`BatchAllOrNothing`, `RollbackRestores` and `BackupCoversWrite` speak of calls
that met no foreign write (`unsure`); `RollbackRestores` leaves out targets that
did not exist and reverts (see the disagreements below).

### The connection

- `LockIsGivenBack`: the reconnect lock is held by a call that is reconnecting,
  however calls fail or are cancelled.
- `LostSocketFailsItsCalls`: a command does not sit out its time-out on a socket
  known to be closed. Exempt are what the code does not reach: a command sent
  before the listener was started, and a listener that has crashed.
- `FreshConnectionStays` (action property): an open, authenticated socket that is listened to is
  never replaced by a caller that saw its predecessor fail.
- `AcknowledgedWritesAreRead`: a read without a warning shows every write that
  had been acknowledged when it began.

### The components

- `RetentionKeepsNewest`, `ListedFilesExist`, `NothingPilesUp`: retention removes
  only what is too old or displaced, at whatever point a pass before it was
  interrupted; after a pass nothing is over its limits, and captures and shell
  outputs have no stray files. Lines written onto a broken one
  (`swallowed`) and what was deleted by hand and comes back are exempt.
- `CredentialsAreSingleUse`, `RevocationIsFinal`, `NoTokenOutlivesItsClient`,
  `ActiveTokensStay`: across failing saves and restarts, a code or a refresh
  token is answered once, a confirmed revocation stays, eviction takes tokens
  along, and a token used twice per lifetime does not expire. The last holds whatever saves
  fail while the server runs. A restart goes back to the file, with the expiry it has, so a
  token whose extension never reached it is exempt (`outdated`) until it is
  verified again.
- `TimelineIsNewest`: the merged tail is the newest of both files, if no more
  than `Limit` lines of each are broken. The tail of each file is read at a
  fixed length, so more broken lines than that hide good ones.
- `RenameIsUndoneWhole`: after a rollback that reports success the registry and the
  references are as before, whatever failed on the way, if nobody else
  interfered. Removals are left out, as their undo only enables.
- `ReferencesFollow`: a successful rename leaves every planned reference on an
  existing entity, whoever edits the file meanwhile. Dashboards are rewritten
  without a check.
- `AnswerNamesTheHelper`, `OnlyNamedHelpersChange` (action property): with three namings of one helper,
  the answer names the helper that was changed, and no other changed. Both
  require `named`: the call named a helper of the registry, confirmed what it
  previewed, and found the derived id free. The answer of a creation moreover requires
  that the two slugs of the name agree (`SlugsAgree`).
- `OnlyTheShownIsDone`: what a call with a token of its own tool does is what the
  preview showed, the rest of its arguments included. Tools that take their request from the call (`binds =
  "call"`) promise less and are exempt; so are tokens of other tools, which
  several tools accept, and `exec_shell` and `container_exec` for the rest (`loose`).
- `SuccessMeansDone`: success is answered when each command was carried out, and
  for `system_backup` when one of the three ways was. `system_core` and `zigbee_scan`
  also answer `success: True` with status "initiated", when no reply came: that promises
  only that no command was refused whose answer counts.
- `CoreIsAsAsked`: a stop leaves Core stopped although the watchdog would revive
  it, and a start leaves it up and guarded, if every step was answered.
- `ListedIsOwn`: a build lists its own artifacts, unless `haunted`.
- `StatementsMeetTheirMode`: a query meets a read-only connection and a write a
  writable one, whatever ran on it before.
- `OneBrowserAtATime`: at most one browser is alive, and a call that is over left
  no browser, no file and no place in the semaphore.
- `UniqueHunksLandAtHome`: a hunk whose lines stand once in the file, within the
  fuzz, is applied there, whatever was inserted and deleted around it.
- `PlanAccountsForReferences`: every reference in a readable place is rewritten or
  shown for review, but for files of skipped directories that are only included, and a dashboard is rewritten under its own url path.
  When the index could not be built, registered dashboards in skipped directories are exempt.
  `RewriteReverses`: a mapping that swaps or chains ids is one simultaneous substitution.
- `IndexFilesAreCurrent`: the files behind an answer were read after its call began,
  also when another call's graph is shared. Registries may be older.
- `MentionsAreFoundOnce`: a build that does not fail has an edge for every line
  that names the entity in a file it can read, whatever includes and cycles lead
  there; and a file read because no earlier pass had read it was not also walked by
  one. Sections without a walk, and what is reached only from them, are exempt.

## 4. Runs

The runs of the pipeline use `MCMutationPipeline`; `connection` uses
`MCConnection`, `components` uses `MCComponents`, and `v_rename_references` uses
`EntityTools`. `plain`, `other`, `empty` are contents, `nulldoc` is what ruamel
writes for an empty YAML document, `mistake` is a text with a syntax error.
"Hand" means `Canon` maps `other` to `plain`.

| run | instance | states | checks |
|---|---|---|---|
| `dashboards` | 1 dashboard, 2 tasks, 2 tokens; dashboard, rollback; edit, cancel, restart | 155,000 | TokenDrivesOneCall, LockCoversSave, AppliesDoNotClobberApplies, RollbackRestores |
| `files` | 1 YAML file, hand, 1 task, 2 tokens; config, rollback, revert, prune; edit, restart | 1,418,000 | TypeOK, RollbackRestores, BackupCoversWrite |
| `rollback_race` | 1 dashboard, 2 tasks, 3 tokens; dashboard, rollback, revert; cancel, restart, log | 383,000 | RollbackOnce, KeepsContract |
| `batches` | 1 YAML file and 1 dashboard, hand, 1 batch of up to 2 items; edit | 111,000 | BatchAllOrNothing |
| `batch_rollback` | 1 YAML file with `mistake`, hand, 1 task, 2 tokens, up to 2 items, no backups; batch, rollback | 12,000 | RollbackRestores |
| `liveness` | 1 dashboard, 2 tasks, 2 tokens, up to 2 items; dashboard, rollback, revert, batch; cancel | 225,000 | WaitersHoldNoLock, EveryCallEnds |
| `connection` | 2 callers, 2 commands, 2 sockets; loss, cancel | 947,000 | the 4 of the connection |
| `components` | below | 2,194,000 | the 23 of the components |

The parts of `components`:

| part | instance | states |
|---|---|---|
| stores | 3 files of 2 types, limits 1 file and 1 day, 3 days; crash, failing disk | 792,000 |
| oauth | 1 client at most, 5 ids, 6 seconds, lifetimes 4 and 1 (codes), `OAuthBound`; crash, failing disk | 210,000 |
| log | 7 entries, rotation at 3 lines, timeline of 2 | 14,000 |
| entities | 2 rows, 3 ids, up to 2 items, 1 outside change | 137,000 |
| helpers | 3 helpers, names of 2 slugs (the 4 pairs), 1 outside change | 327,000 |
| tools | every tool of the 12 files, 1 token, requests of 2 values, and 2 of the rest | 257,000 |
| esphome | 3 builds of 1 node | 105,000 |
| database | 3 backends, 2 calls, 2 connections | 2,000 |
| captures | 2 calls of the 4 tools | 2,000 |
| patches | files of up to 4 lines of 2 kinds, 2 changes, fuzz 1 | 71,000 |
| renames | texts of up to 2 references, 3 ids, the 7 kinds of places, without an index where it matters | 140,000 |
| index | 2 calls, 2 registries, 1 change of each | 87,000 |
| graph | 3 files, every installation of up to 4 lines | 51,000 |

**Bounds.** `Tasks` bounds the calls in progress, `MaxTokens` the previews,
`MaxItems` the items of a batch, `Texts` what is written. The hazards are
between two calls on one target, so two tasks and one target show them; two
tokens are a change and its undoing, or two competing changes; three are a change
and two competing undoings. Two items show chaining, ordering and half-way failure.
`MaxPerType` = 2 lets retention remove a copy where three are made. Two contents
differ in what a property compares; `nulldoc`, `other` under `HandWritten` and
`mistake` add the three ways ruamel departs from the identity. A single file
task is enough in `files` because a file handler never gives the loop up:
concurrency there comes from `edit` and `restart`.

In `connection`, two sockets are one that is lost and its successor, and two
commands are a write and a read, or two calls that meet. In `components`: a limit
of one with three files lets an entry be displaced twice, and with a limit of one day an
entry of the first is too old on the third; five ids are a client, a code, its pair and two rotations; a lifetime of 4
tells the sliding threshold of a half from one of a quarter, and six seconds are enough for
a token to be issued, verified and expire (`OAuthBound`: all five ids by the fourth, or a
client and its first pair until the sixth); seven entries
over a rotation at 3 fill both activity files, and the next rotation drops the
first; two entities, three ids make swaps, chains and a collision; three
helpers are the one named, the one whose slug is taken and the one made; one
token suffices where no call disturbs another's token; three builds are one
abandoned, one running and one refused; the code's fuzz is 5, and 1 keeps the
ratio of a change inside to a change beyond it; four lines are two includes that
form a cycle, the way in and a mention. Loss of replies is possible at every command.

**Symmetry.** Permutations of the tasks and of the callers, in safety runs without
a temporal formula that needs fairness. The liveness run uses none.

**Deadlock** is checked where edits never stop (`dashboards`, `files`,
`batches`). Elsewhere the sessions may have used all their tokens, the callers
their commands, or a component its bounds, which is no deadlock of the program;
that the pipeline's calls end is `EveryCallEnds`.

**Fairness.** `WF(Step(t))`: the event loop runs every task that is ready.
`WF(Answer(t))`: `send_command` waits at most 30 seconds and the listener fails
pending commands when the connection goes, so a waiting call gets an answer.
Weak fairness is enough although another task may hold the loop or the lock,
because each holder is itself at most one answer from giving it up and there
are finitely many tokens. Nothing is assumed of previews, edits, cancellations
or late saves.

### Disagreements between documents and code

Four are runs that TLC finds violated (`v_`).

- `v_rollback_exact` (`RollbackIsExact`). Create a file with
  `haops_config_create`, roll it back: the file stays, empty.
  `haops_config_apply` records the savepoint without `was_created`
  (`config.py:861`), while `haops_batch_apply` does record it.
- `v_batch_cancel` (`NoBatchLeftHalfApplied`). A batch is cancelled while it
  waits for its second item. The first stays written, the transaction open,
  and nothing is logged (`batch.py:616`, against `batch.py:450`).
- `v_deaf_socket` (`OpenMeansUsable`). A call times out or is cancelled, its
  reply arrives: the listener sets a result on a cancelled future, and the
  exception ends it without failing anything or closing the socket
  (`websocket.py:146`, against `:159`). The connection looks alive from then on,
  and every command waits out its time-out.
- `v_rename_references` (`ReferencesResolve`). A rename whose registry update is
  refused still rewrites the references (`entity.py:1211`, against `:1205`):
  they name an entity that does not exist.

Others were met while modelling. The models do what the code does; no run states
them as broken promises.

In the pipeline:

- *Chained items.* A batch changes one YAML file twice. The second item was
  prepared on the first item's text, the file holds ruamel's version of it, and the
  recheck refuses (`batch.py:305`, against the comment at `batch.py:286`).
- *Batch restore overwriting.* A batch writes a dashboard, releases its lock and
  waits for its next item; another apply of that dashboard passes its own
  recheck and saves; the batch fails and restores the old config over it
  (`batch.py:622`, against `server.py:108`).
- *Rollback raising, then "already rolled back".* Repair a file with a syntax
  error and roll the repair back: the parser's exception leaves `haops_rollback`
  after every savepoint was marked; the next attempt is refused
  (`rollback.py:170`, `:327`). Undoing a helper ends the same way with a
  `KeyError` (`rollback.py:203`).
- *Preview-not-rechecked rollback.* The confirm of a rollback overwrites whatever
  is there by then, although the description says the diff shows "exactly what
  the rollback will change" (`rollback.py:253`, `:333`).
- *Revert undo entry.* The undo entry of a revert is what its preview read
  (`backup.py:237`), so rolling a revert back can bring an older content than the
  one it replaced. `RollbackRestores` exempts reverts for this reason.
- *Changes without a report.* An apply, a batch or a revert whose audit append fails
  raises after it committed its transaction (`config.py:888`, `:895`): the change is in place and in
  no log, although this is the "audit log for all confirmed mutations" (`audit.py:1`). The
  transaction could be rolled back, but the answer with its id never arrives.
- *Late saves.* A dashboard save of a batch that timed out may execute after the
  batch reported its failure with nothing dirty (`batch.py:598`).
- `docs/HA_QUIRKS.md:314` still says that `haops_dashboard_apply` does not
  recheck the live config; `DashboardRefuse` is that recheck.

In patches, plans and the index:

- `apply_patch` documents an error where a hunk "matches multiple positions"
  (`diff.py:57`) and takes the nearest (`:232-256`). A pure insertion without context
  lands one line early (`:113`).
- Two dashboards whose url paths differ only in `-` and `_` share one
  storage-file name, and the one listed last wins (`refactor_rename.py:262`).
  A new id that is already a key of the same map merges the two (`:126`).
  Unreadable YAML is skipped without a word. Of duplicate ids in one rename the last
  counts.
- The index is said to report references "that live somewhere we refuse to write"
  (`refactor_rename.py:16`). An edge names the section's usual file, or the file
  that includes (`ha_yaml.py:29` promises otherwise), and that file is
  rewritten, so a file of a skipped directory that is only included is neither
  rewritten nor shown (`refactor_rename.py:359`).
- "The builder never crashes on malformed config" (`builder.py:11`): a syntax error
  in `configuration.yaml`, or in anything it or a dashboard includes, leaves
  `build_index`, as the loader catches only `OSError` (`ha_yaml.py:153`).
- Files included from sections the builder does not walk, and from outside a
  dashboard's `views`, count as covered and are not indexed (`builder.py:370`, `:804`).
- When the index build raises, the plan goes on without it (`refactor_rename.py:349`), and
  a registered dashboard in a skipped directory is neither rewritten nor shown.
- A call may answer from a graph whose registries were read before it began
  (`refindex/__init__.py:283`).

In stores and logs:

- A malformed manifest line is said to be kept and is dropped by the next
  rewrite (`backup.py:254`). A save whose manifest line was lost is swept as a
  stray (`captures.py:287`).
- Access tokens are extended "so active sessions never time out" (`provider.py:315`). When the save
  of an extension fails (`:322`) and the server restarts before another save, the old expiry is back,
  and an active session times out.
- The merged timeline reads only `activity.jsonl`, so reads vanish from it right
  after a rotation.

In entity and helper tools:

- *Dashboards rewritten by a rename without check.* They are saved as planned at
  the preview, whatever was edited since (files are compared, `entity.py:1267`).
- `entity_remove` says "removals can be undone" (`entity.py:666`); the undo only
  enables. Rolling a toggle back turns `disabled_by: integration` into `user`.
- `helper_create` renames somebody else's helper when the slug is taken
  (`helper.py:338`).
- `_slugify` is called "HA's friendly-name → object_id derivation" (`helper.py:104`), and keeps
  every letter where Home Assistant transliterates. For a name like "Küche" `helper_create` reports an
  id that no helper has (`helper.py:267`, `:320`, `:362`).
- The "Live read" of `entity_rename` may come from the file (`entity.py:1033`).

In the tools that send commands:

- Tokens are said to bind an operation to its preview (`confirmation.py:3`).
  Several tools claim any token (`user_delete` one of `user_update`, for
  instance), and `addon_restart` (`addon.py:401`), `system_restart`
  (`system.py:480`), `container_exec` (workdir, user, timeout: `container.py:309`) and `exec_shell` (cwd,
  timeout: `shell.py:95`) take part of the request from the confirming call, although the token holds it.
- `system_core` (`system.py:545`, `:665`) and `zigbee_scan` (`zigbee.py:459`) answer `success: True`
  with status "initiated" when no reply came, also when nothing was executed.
- `system_core` stops Core whether or not the watchdog could be turned off
  (`system.py:630`, `:653`).
- Failures go unaudited in several tools (`db_execute` at `db.py:168`,
  `docker_prune` when its second command fails); `addon_restart` and
  `assign_area` audit a success when there was an error.
- `system_backup` may make two backups after a lost reply. A cancelled
  `exec_shell` leaves its process running, a cancelled or late `esphome_build`
  its compile. In PostgreSQL a failed statement of `table_sizes` aborts the
  transaction of what follows (`database.py:149`, `:385`). A failing
  `tracing.stop` skips `browser.close`.

## 5. Proofs

| theorem | module | says |
|---|---|---|
| `TypeCorrect` | `MutationPipelineProofs` | `Spec => []TypeOK` |
| `OneCallPerToken` | `MutationPipelineProofs` | `Spec => []TokenDrivesOneCall` |
| `SavesAreCovered` | `MutationPipelineProofs` | `Spec => []LockCoversSave` |
| `WaitersAreFree` | `MutationPipelineProofs` | `Spec => []WaitersHoldNoLock` |
| `RechecksStillHold` | `MutationPipelineProofs` | `Spec => []AppliesDoNotClobberApplies` |
| `TransactionsAreUndoneOnce` | `ContractProofs` | `Spec => []RollbackOnce` |
| `PipelineKeepsContract` | `ContractProofs` | `Spec => KeepsContract` |
| `WritesAreCovered` | `RecoveryProofs` | `Spec => []BackupCoversWrite` |
| `BatchesAreWhole` | `RestoreProofs` | `Spec => []BatchAllOrNothing` |
| `RollbacksRestore` | `RestoreProofs` | `Spec => []RollbackRestores` |
| `UndoFollowsApply` | `ChangeLedgerProofs` | `Spec => []UndoNeedsApply`, of the contract |
| `ReconnectLockComesBack` | `ConnectionProofs` | `RegistrySpec => []LockIsGivenBack` |
| `NobodyWaitsOnAGivenUpSocket` | `ConnectionProofs` | `RegistrySpec => []LostSocketFailsItsCalls` |
| `ReadsShowAcknowledgedWrites` | `ConnectionProofs` | `RegistrySpec => []AcknowledgedWritesAreRead` |
| `PeersKeepTheConnection` | `ConnectionProofs` | `RegistrySpec => FreshConnectionStays` |
| `SingleUse` | `ComponentProofs` | `OAuthSpec => []CredentialsAreSingleUse` |
| `EvictionIsComplete` | `ComponentProofs` | `OAuthSpec => []NoTokenOutlivesItsClient` |
| `RevokedForGood` | `ComponentProofs` | `OAuthSpec => []RevocationIsFinal` |
| `SessionsStay` | `ComponentProofs` | `OAuthSpec => []ActiveTokensStay` |
| `WhatIsDoneWasShown` | `ToolsProofs` | `ToolsSpec => []OnlyTheShownIsDone` |
| `SuccessIsEarned` | `ToolsProofs` | `ToolsSpec => []SuccessMeansDone` |
| `CoreEndsAsAsked` | `ToolsProofs` | `ToolsSpec => []CoreIsAsAsked` |
| `HelpersAnswerTruly` | `ToolsProofs` | `HelperSpec => []AnswerNamesTheHelper` |
| `OthersStay` | `ToolsProofs` | `HelperSpec => OnlyNamedHelpersChange` |
| `RollbackUndoesTheWhole` | `ToolsProofs` | `EntitySpec => []RenameIsUndoneWhole` |
| `ReferencesAreMovedLast` | `ToolsProofs` | `EntitySpec => []ReferencesFollow` |
| `QueriesAreReadOnly` | `ComponentProofs` | `DbSpec => []StatementsMeetTheirMode` |
| `BrowsersTakeTurns` | `ComponentProofs` | `CaptureSpec => []OneBrowserAtATime` |
| `NobodyAnswersFromOldFiles` | `ComponentProofs` | `IndexSpec => []IndexFilesAreCurrent` |
| `BuildsListTheirOwn` | `ComponentProofs` | `EsphomeSpec => []ListedIsOwn` |
| `NothingIsLost` | `ComponentProofs` | `StoreSpec => []RetentionKeepsNewest` |
| `ListedIsThere` | `ComponentProofs` | `StoreSpec => []ListedFilesExist` |
| `StoresStaySmall` | `ComponentProofs` | `StoreSpec => []NothingPilesUp` |
| `TimelineShowsTheNewest` | `ComponentProofs` | `LogSpec => []TimelineIsNewest` |
| `NothingIsOverlooked` | `ComponentProofs` | `RenameSpec => []PlanAccountsForReferences` |
| `RenamesReverse` | `ComponentProofs` | `RenameSpec => []RewriteReverses` |
| `HunksFindTheirLines` | `ComponentProofs` | `PatchSpec => []UniqueHunksLandAtHome` |
| `MentionsAreFound` | `ComponentProofs` | `GraphSpec => []MentionsAreFoundOnce` |

Everything assumed is on constants, and TLC evaluates it in every run:

- `ContextAssumption`: files and dashboards are disjoint, `Canon` is idempotent and
  loads what loads, the bounds are positive, `None` is nothing else;
- `WsAssumption`: `None` is neither a caller nor a socket;
- `OAuthAssumption`, `EntityAssumption`, `HelperAssumption`, `IndexAssumption`,
  `DbAssumption`, `StoreAssumption`, `LogAssumption`, `RenameAssumption`, `PatchAssumption`,
  `GraphAssumption`: bounds are natural
  numbers, at least one client is allowed, and the words the model uses as marks ("none", "files", "torn", the targets of a command) are not
  connections, registries or entity ids. The line a patch adds is none of the file's; the YAML files
  beside `configuration.yaml` and `automations.yaml` are finitely many and have other names.

Beyond that the theorems are for any sets of files, dashboards, contents, calls,
connections, entities, and any bounds. Most of the properties are not
inductive by themselves; the invariants that are, and why they are needed:

### The pipeline (`PipelineInvariants`)

**Type correctness.** A call indexes the items of
its token, the savepoints of its transaction and the backups of the items it
executed, and those indices have to be in range for the next state to be
well-typed. `TypeInv` adds `WellFormed`: each call's indices fit (`CallFits`,
by program point) and the single-item tools have one item, of the right kind
(`SingleItem`). Most of the work is that a step of one task, which may extend
tokens, transactions and backups, keeps the indices of all the others in range.

**Single use.** `TokenInv` adds `SpentTokens`: the token of every call in
progress and of every log entry is marked spent. A claim needs a live token,
so it can meet neither; marks are never removed, by a restart either.

**Locks.** `LockInv` adds `LocksHeld`: a lock is held only by a call that waits
for its save. So a call that takes a lock held none before, `Release` frees what
its own call holds and nothing of another's, and a cancelled or stopped call
leaves none behind. `WaitersHoldNoLock` follows from `LocksHeld`, because a
waiter for a lock is not a waiter for a save.

**Rechecks.** `AppliesDoNotClobberApplies` speaks of the moment of a write, the
recheck was some waits earlier. `ClobberInv` says what holds in between.
`RecheckHolds`: a file handler keeps the event loop from its recheck to its write, so
the file is as the token says unless a person was there. `SavesAwaited`: a save that
somebody waits for is that of the one call that waits under its token, and if
it was checked, or counts as an apply, this call holds the lock of the
dashboard. `SavesFresh`: a checked save somebody waits for, on a
dashboard an apply wrote last, will find what its token says; by the lock no other apply can land
in the meantime. When the call gives up, the save is unheard, and its write is
"late" rather than an apply's: that is the exemption the property has.

**Single undo.** `UndoInv` says that a working call has its own open
transaction under its token, that an undoing call found a committed one and marked
every savepoint of it before it restored the first (`CallMatches`), and that a
token has one transaction, with nothing undone in it while it is open
(`TransactionsAreOwn`). Two rollbacks that restore the same transaction would both have
had to find unmarked savepoints.

**The contract.** Dozens of operations are, to `ChangeLedger`, a dozen kinds of
steps (`LedgerStep`: a preview issues a token, a claim spends one, a call
ends with a report or without one, marks a transaction, ...). Each operation is
shown to be of one kind; each kind is shown to keep `UndoInv` and to be one
step of the contract, or none that it sees. `Stage` is a CASE over tokens, calls and log, and
`TokenInv` is what makes its arms exclude each other.

**Backups.** `BackupCoversWrite` is about what a write destroyed; `BackupInv`
follows the copy there. A call that is about to write, or waits for its save,
has copied what is there now (`CopyTaken`), unless its token is among the
`unsure`. A step that changes the content of such a call's target is a write by
somebody else, and `Write` notes the calls it met: so the content stays the one
that was copied, or the call is exempt. Retention and pruning delete files and leave
the record of what they held, which is what the property is about: the copy was
there at the write. The invariant also says of which tool the token of each
handler is (`OfKind`), as only config, dashboard and batch applies promise a
copy, and that nothing is noted as replaced under a token not yet issued.

**The way back.** `BatchAllOrNothing` and `RollbackRestores` are about the end of a
call; `RecoveryInv` follows what is promised from the preview on, on top of all
the invariants above.

- `FindsAsShown`: what a call is about to replace, and what it has replaced, is
  what the preview found (`AsFound`).
- `CountsItems`, `RecordsDone`: a batch has noted a copy for each item it
  executed, its copies hold the items' old texts, and its savepoints are of
  executed items.
- `LeavesTexts`: on the way forward the last item executed on a target has left
  its text there. With every item executed this is the first half of
  `BatchAllOrNothing`. Items may share a target, so it has to be the last one.
- `BringsBack`: on the way back the items are put back newest first, so of those put
  back on a target the oldest was last, and what that one replaced is there.
  With none left this is the second half.
- `RestoresSaves`: the same, savepoint by savepoint, for a rollback.
- `SavepointFits`: a savepoint says what its item says of the content before, and
  once its transaction is committed this is what the item replaced. It is the bridge
  from one call to a later one: the rollback knows the savepoint only.
- `TokenFits`: which tools create files, and that the preview of a rollback names
  every target of the transaction, so that a foreign write to one of them is noted.
- `SaveFits`: a save a call still waits for is that of its current item or savepoint.

A step of one call keeps the promises of the others because a write notes each
call it meets (`Write`, and `LeftAlone` in the proofs), and because a transaction is
extended by its own call only. Three lemmas say so once, for a step that writes
nothing, one that sends a save and one that writes (`RecoverGoes`, `RecoverSends`,
`RecoverWrites`); what remains for each handler is its own call.

### The connection

`WsInv`: one caller reconnects, and it holds the lock (`OneReconnects`); ids of
waiting calls differ and were given out (`OwnIds`); a waiting call waits
for a registered future on the current socket, with a listener to fail it
(`WaitsOnTheSocket`). `RegistryInv` adds what each message on the wire stands for
(`Messages`: a reply still on its way shows what was acknowledged when its reader
asked) and the clocks: the file is not behind the last write only if it holds
every acknowledged one.

### The components

- `OAuthInv` is about both copies of the data at once: `Sound` is true of memory
  and of the file, each by itself, as a save copies the one to the other and
  a failed save changes memory only. It has the numbering of ids, that a token's
  client exists, that a used credential is gone, that a token and its counterpart agree. The
  sliding expiry (`Sliding`) is true of memory, and of the file only while the server is down:
  what the file is behind by is in `outdated` from then on.
- `ToolsInv` says of the call what has been done and what is left of the commands of
  its request (`OnCourse`), what each answer needs (`Succeeded`), and of Core what those
  commands have made of it so far (`CoreOnCourse`). It is proved for the
  table as a whole, from `RowOK`, the form of a row.
- `HelperInv`: while nobody interfered, entity ids are unique, and the call is
  on the helper it named (`OnTheHelper`, by stage). A creation under a name with two slugs
  may have `Strayed`: then no helper has the id it is about to rename (`NothingFound`).
- `EntityInv`: `CanGoBack` relates the undo entries there are and the items to come to the
  registry and the references of the preview: applying the undos that remain
  brings each row and each reference back. `EntitiesFirst`: a reference is not
  planned to move to an id that has no row and no item to come that makes it.
- `DbInv`: a connection serves one call; a free one is rolled back, and the
  session's mode is the one the backend leaves behind. `CaptureInv`: a browser belongs
  to the call in its turn. `IndexInv`: what a build has read is since its
  beginning, and so is what it shares. `EsphomeInv`: one build per node, and while
  no stray compile is about, the firmware is that of the build that holds the lock.
- `StoreInv`: a pass that was planned deletes only what was asked for or what is
  `Spent` (too old, or with `Cap` newer ones of its kind), and keeps a set that is
  within the limits and whose files exist (`PassIsSound`). A crash forgets the plan, not what
  it has unlinked; so `MissingAreSpent`: an entry whose file is missing is one that the next
  pass takes away, because what is spent stays so as time goes on and entries are
  added. That a pass keeps no more than `Cap` of a kind is a fact about finite sets:
  the oldest entry kept has fewer than `Cap` newer ones, and every other one kept is newer.
- `LogInv`: in each file the numbers that are not 0 rise. What a tail leaves out of its file
  is then older than `Limit` entries it keeps (`TailHasTheNewest`: either the cut at the
  limit dropped it, or it stands before the lines that were read, at most `Limit` of
  which are broken). Such entries cannot be among the newest of both files, so leaving
  them out changes nothing (`NewestOfAPart`).
- `RenameInv`: the plan is that of one mapping, which keeps its ids apart. The two substitutions
  together change each reference at most once, as they look for different forms
  (`AppliedIs`), and so the hits they count are disjoint (`CountIsExact`). Two
  keys become one only if a new id was there before (`NoKeyIsLost`).
- `PatchInv`: hunks that still stand together stand one behind the other, however lines come and
  go between them (`Ascending`). So when each has one place, none lies before what the hunks
  before it consumed (`HunksGoHome`), and the search outward, which may find nothing else, ends
  there (`LocatedAtHome`). `ApplyPatch` and the reference `Spliced` are recursions over
  the hunks; that they are defined and agree at each hunk is by a least counterexample
  (`HasLeast`).
- `GraphInv`: the edges of a built graph are those of the passes, and what is to be shown is about
  the chains. A chain is no longer than there are files, so `Chains` has them all (`ChainsAre`). Every line
  of a file that was read ends one (`ReadLinesAreReached`), whose first line is in a
  section that is walked, or the line would be out of sight (`InSight`). A walk never comes back to the file
  it began in, nor to `configuration.yaml` (`WalksEnd`), so a file that is read because it was not read
  before is at the end of no earlier walk (`NoneIsFoundTwice`).

Each invariant is proved one action at a time, one lemma per action or
family of actions that touch the same variables. TLC checks every conclusion in
the runs named above. The invariants of the pipeline are in a module without
proofs, so that a configuration can name them, too.

### Only model-checked

- `EveryCallEnds`: it is liveness under fairness, which needs ENABLED, and TLAPS cannot reason about that.
- What parsing makes of the texts, and the loader's recursion itself: `ReferenceGraph` states its result as
  the set of chains.

## 6. Plan

Modelling is complete up to these, in order of weight:

1. `HaOpsContext`'s `Send`, `HaSave` and `WsError` as an abstraction that `WsClient`
   implements.
2. The storage file that Home Assistant writes late, behind the recheck of a
   dashboard (`dashboard.py:277`).
3. Torn writes of `Path.write_text` in rollback and revert (`rollback.py:158`).

Every safety and action property the runs check has its theorem.
