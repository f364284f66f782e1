------------------------------ MODULE EntityTools ------------------------------
(***************************************************************************)
(* tools/entity.py: remove, toggle and rename, with the rewriting of       *)
(* references, and the undo entries of tools/rollback.py that belong to    *)
(* them.  One transaction is followed from preview to rollback; whatever   *)
(* other calls and people do meanwhile is an outside change.  Names and    *)
(* areas travel with a rename and are left out.                            *)
(***************************************************************************)
EXTENDS Naturals, Sequences, SequencesExt, FiniteSets

CONSTANTS
  Uids,         \* rows of the entity registry, by unique_id
  EntityIds,
  MaxItems,     \* bound on the entities of one call
  MaxOutside    \* bound on the outside changes

(* An entity id has a dot; it is none of the words used below.             *)
ASSUME EntityAssumption ==
  /\ MaxItems \in Nat /\ MaxOutside \in Nat
  /\ EntityIds \cap {"file", "dash", "on", "off", "remove", "torn"} = {}

VARIABLES
  entities, \* rows of the registry
  refs,     \* the entity id a YAML file and a dashboard mention
  copies,   \* rows copied by backup_entities
  job,      \* the call, its token and its transaction
  before,   \* registry and references at the preview
  outside,  \* what was changed from outside since: "registry", "file", "dash",
            \* or "late" for what the call had dealt with already
  changes   \* outside changes so far

entityVars == <<entities, refs, copies, job, before, outside, changes>>

Places == {"file", "dash"}

NoJob == [pc |-> "idle", tool |-> "none", items |-> <<>>, plan |-> {}, planned |-> {}, undo |-> <<>>, errors |-> FALSE]

HasRow(id) == \E r \in entities : r.id = id

RowOf(id) == CHOOSE r \in entities : r.id = id

(* Commands of the entity registry and the save of the file or dashboard:  *)
(* what they change, and what has to be there for them to do it.           *)
Command(id, to) == [id |-> id, to |-> to]

Accepts(c) ==
  \/ c.id \in Places
  \/ HasRow(c.id) /\ ~(c.to \in EntityIds /\ HasRow(c.to))

Execute(c) ==
  IF c.id \in Places
  THEN refs' = [refs EXCEPT ![c.id] = c.to] /\ UNCHANGED entities
  ELSE LET r == RowOf(c.id)
           changed == CASE c.to = "remove" -> {}
                        [] c.to = "on"     -> {[r EXCEPT !.on = TRUE]}
                        [] c.to = "off"    -> {[r EXCEPT !.on = FALSE]}
                        [] OTHER           -> {[r EXCEPT !.id = c.to]}
       IN entities' = (entities \ {r}) \cup changed /\ UNCHANGED refs

NotExecuted == UNCHANGED <<entities, refs>>

(* The caller hears of success only from the reply; an error may be a      *)
(* refusal, a lost socket before the command ran or one after it.          *)
Perform(c, ok) ==
  \/ Accepts(c) /\ Execute(c)
  \/ NotExecuted /\ ~ok

Preview(tool, items, plan) ==
  /\ job' = [NoJob EXCEPT !.pc = "previewed", !.tool = tool, !.items = items, !.plan = plan,
                      !.planned = {w.place : w \in plan}]
  /\ before' = [entities |-> entities, refs |-> refs]
  /\ outside' = {}
  /\ UNCHANGED <<entities, refs, copies, changes>>

Undoable(do, undo) == [do |-> do, undo |-> undo]

(* What is not in the registry is reported and left out; an id may be      *)
(* listed twice.  The undo entry carries no action, which means enable.    *)
PreviewRemove ==
  /\ job.pc = "idle"
  /\ \E ids \in SeqOf({r.id : r \in entities}, MaxItems) :
       Preview("remove", [i \in DOMAIN ids |->
                 Undoable(Command(ids[i], "remove"), Command(ids[i], "on"))], {})

(* Entities that are in the requested state already are left out.          *)
PreviewToggle ==
  /\ job.pc = "idle"
  /\ \E enable \in BOOLEAN : \E ids \in SeqOf({r.id : r \in {x \in entities : x.on # enable}}, MaxItems) :
       LET To(on) == IF on THEN "on" ELSE "off"
       IN Preview("toggle", [i \in DOMAIN ids |->
                    Undoable(Command(ids[i], To(enable)), Command(ids[i], To(~enable)))], {})

(* dict comprehension: of two items for one id the last decides.           *)
RenamedTo(items, id, to) ==
  \E i \in DOMAIN items :
    items[i].do = Command(id, to) /\ \A j \in DOMAIN items : j > i => items[j].do.id # id

Planned(items) ==
  {w \in [place : Places, old : EntityIds, new : EntityIds] :
     w.old = refs[w.place] /\ RenamedTo(items, w.old, w.new)}

(* Every id exists and every target is free and asked for once, or nothing *)
(* is previewed.                                                           *)
PreviewRename ==
  /\ job.pc = "idle"
  /\ \E n \in 1..MaxItems, rewrite \in BOOLEAN :
       \E ids \in [1..n -> {r.id : r \in entities}], targets \in [1..n -> EntityIds] :
         /\ \A i \in 1..n : ~HasRow(targets[i]) /\ \A j \in 1..(i - 1) : targets[j] # targets[i]
         /\ LET items == [i \in 1..n |-> Undoable(Command(ids[i], targets[i]), Command(targets[i], ids[i]))]
            IN Preview("rename", items, IF rewrite THEN Planned(items) ELSE {})

(* The rows of the preview are copied before the first is removed.         *)
Copied ==
  IF job.tool = "remove"
  THEN copies \cup {r \in before.entities : \E i \in DOMAIN job.items : job.items[i].do.id = r.id}
  ELSE copies

Confirm ==
  /\ job.pc = "previewed"
  /\ copies' = Copied
  /\ job' = [job EXCEPT !.pc = "items"]
  /\ UNCHANGED <<entities, refs, before, outside, changes>>

(* Variant: the savepoint is made when the reply has come.                 *)
SaveOnSuccess(undo, ok) ==
  job' = [job EXCEPT !.items = Tail(@), !.undo = IF ok THEN Append(@, undo) ELSE @, !.errors = @ \/ ~ok]

(* The savepoint is made before the command is sent; an error is noted and *)
(* the next item follows.                                                  *)
ItemDone(undo, ok) ==
  job' = [job EXCEPT !.items = Tail(@), !.undo = Append(@, undo), !.errors = @ \/ ~ok]

RunItem ==
  /\ job.pc = "items"
  /\ job.items # <<>>
  /\ \E ok \in BOOLEAN : Perform(Head(job.items).do, ok) /\ ItemDone(Head(job.items).undo, ok)
  /\ UNCHANGED <<copies, before, outside, changes>>

Rewrites(place) == {w \in job.plan : w.place = place}

FileDrifted(w) == refs.file # w.old

(* Variant: the errors of rewrites are not added to those of the call.     *)
RewrittenQuietly(w, saved, ok) ==
  job' = [job EXCEPT !.plan = @ \ {w}, !.undo = IF saved THEN Append(@, Command(w.place, w.old)) ELSE @]

(* A target of the rewrite is dealt with, with a savepoint or without.     *)
Rewritten(w, saved, ok) ==
  job' = [job EXCEPT !.plan = @ \ {w}, !.errors = @ \/ ~ok,
                     !.undo = IF saved THEN Append(@, Command(w.place, w.old)) ELSE @]

(* A file that changed is left alone; otherwise copy, savepoint and write  *)
(* follow without a pause.  The copy may fail, or the write, which may     *)
(* leave the file cut off.                                                 *)
RewriteFile ==
  /\ job.pc = "items" /\ job.items = <<>>
  /\ \E w \in Rewrites("file") :
       IF FileDrifted(w)
       THEN NotExecuted /\ Rewritten(w, FALSE, FALSE)
       ELSE \/ Execute(Command("file", w.new)) /\ Rewritten(w, TRUE, TRUE)
            \/ \E left \in {w.old, "torn"} : Execute(Command("file", left)) /\ Rewritten(w, TRUE, FALSE)
            \/ NotExecuted /\ Rewritten(w, FALSE, FALSE)
  /\ UNCHANGED <<copies, before, outside, changes>>

(* Dashboards are saved as previewed, without a second look.               *)
RewriteDashboard ==
  /\ job.pc = "items" /\ job.items = <<>>
  /\ Rewrites("file") = {}
  /\ \E w \in Rewrites("dash") :
       \/ \E ok \in BOOLEAN : Perform(Command("dash", w.new), ok) /\ Rewritten(w, TRUE, ok)
       \/ NotExecuted /\ Rewritten(w, FALSE, FALSE)
  /\ UNCHANGED <<copies, before, outside, changes>>

(* The transaction is committed and the call logged, with or without       *)
(* errors.                                                                 *)
FinishJob ==
  /\ job.pc = "items" /\ job.items = <<>> /\ job.plan = {}
  /\ job' = [job EXCEPT !.pc = "done"]
  /\ UNCHANGED <<entities, refs, copies, before, outside, changes>>

(* haops_rollback marks every savepoint and then undoes the newest first.  *)
StartRollback ==
  /\ job.pc = "done" /\ job.undo # <<>>
  /\ job' = [job EXCEPT !.pc = "undo", !.undo = Reverse(@), !.errors = FALSE]
  /\ UNCHANGED <<entities, refs, copies, before, outside, changes>>

UndoItem ==
  /\ job.pc = "undo" /\ job.undo # <<>>
  /\ \E ok \in BOOLEAN : Perform(Head(job.undo), ok) /\ job' = [job EXCEPT !.undo = Tail(@), !.errors = @ \/ ~ok]
  /\ UNCHANGED <<copies, before, outside, changes>>

EndRollback ==
  /\ job.pc = "undo" /\ job.undo = <<>>
  /\ job' = [job EXCEPT !.pc = "undone"]
  /\ UNCHANGED <<entities, refs, copies, before, outside, changes>>

(* The command a call may be waiting for.                                  *)
Awaited ==
  CASE job.pc = "undo"    -> {job.undo[i] : i \in DOMAIN job.undo \cap {1}}
    [] job.items # <<>>   -> {Head(job.items).do}
    [] OTHER              -> {Command("dash", w.new) : w \in Rewrites("dash")}

(* A cancelled call leaves its transaction open, which is refused by       *)
(* haops_rollback; the command it waits for may be executed.               *)
CancelJob ==
  /\ job.pc \in {"items", "undo"}
  /\ NotExecuted \/ \E c \in Awaited : Accepts(c) /\ Execute(c)
  /\ job' = [NoJob EXCEPT !.pc = "over"]
  /\ UNCHANGED <<copies, before, outside, changes>>

(* People and other calls rename, toggle and remove entities, and edit the *)
(* file and the dashboard.                                                 *)
OutsideChange ==
  /\ job.pc \notin {"idle", "over", "undone"}
  /\ changes < MaxOutside
  /\ changes' = changes + 1
  /\ \E c \in [id : EntityIds, to : EntityIds \cup {"on", "off", "remove"}] \cup [id : Places, to : EntityIds] :
       /\ Accepts(c) /\ Execute(c)
       /\ outside' = outside \cup {CASE c.id \notin Places       -> "registry"
                                       [] Rewrites(c.id) # {}  -> c.id
                                       [] OTHER                -> "late"}
  /\ UNCHANGED <<copies, job, before>>

EntityNext ==
  \/ PreviewRemove
  \/ PreviewToggle
  \/ PreviewRename
  \/ Confirm
  \/ RunItem
  \/ RewriteFile
  \/ RewriteDashboard
  \/ FinishJob
  \/ StartRollback
  \/ UndoItem
  \/ EndRollback
  \/ CancelJob
  \/ OutsideChange

EntityInit ==
  /\ \E ids \in [Uids -> EntityIds], on \in [Uids -> BOOLEAN] :
       /\ IsInjective(ids)
       /\ entities = {[uid |-> u, id |-> ids[u], on |-> on[u]] : u \in Uids}
  /\ refs \in [Places -> EntityIds]
  /\ copies = {}
  /\ job = NoJob
  /\ before = [entities |-> entities, refs |-> refs]
  /\ outside = {}
  /\ changes = 0

EntitySpec == EntityInit /\ [][EntityNext]_entityVars

(***************************************************************************)
(* Properties                                                              *)
(***************************************************************************)

(* haops_rollback undoes the whole of a toggle or a rename, registry and   *)
(* references, in one call: when it reports success and nobody interfered  *)
(* everything is as it was at the preview, whatever failed on the way.     *)
RenameIsUndoneWhole ==
  job.pc = "undone" /\ job.tool # "remove" /\ ~job.errors /\ outside = {} =>
    entities = before.entities /\ refs = before.refs

(* A rename that rewrites references and reports success leaves every      *)
(* reference it planned to move on an entity that exists, whoever edits    *)
(* the file meanwhile.                                                     *)
ReferencesFollow ==
  job.pc = "done" /\ job.tool = "rename" /\ ~job.errors /\ outside \subseteq {"file"} =>
    \A p \in job.planned : HasRow(refs[p])

(* Documented (tools/entity.py:1205): references are rewritten after the   *)
(* registry updates, so that if a rename fails they still point at an id   *)
(* that exists.                                                            *)
ReferencesResolve ==
  job.pc = "done" /\ outside = {} =>
    \A p \in Places : refs[p] \in EntityIds \ {before.refs[p]} => HasRow(refs[p])

================================================================================
