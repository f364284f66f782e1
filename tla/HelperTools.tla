------------------------------ MODULE HelperTools ------------------------------
(***************************************************************************)
(* tools/helper.py: collection helpers are made, changed and deleted by    *)
(* their storage id, while callers, registry and answers speak of entity   *)
(* ids.  One call is followed from preview to its end and its rollback.    *)
(***************************************************************************)
EXTENDS Naturals, Sequences, SequencesExt, FiniteSets

CONSTANTS
  Slugs,              \* slugs of helper names; an entity id is a slug and a number
  MaxHelpers,         \* bound on the helpers and on the ids of one call; storage ids are numbers
  MaxHelperOutside    \* bound on the outside changes

ASSUME HelperAssumption == MaxHelpers \in Nat /\ MaxHelperOutside \in Nat

VARIABLES
  helpers,       \* rows: storage id, entity id, name, made in YAML or not
  helperCopies,  \* rows backup_entities copied
  hjob,          \* the call
  hbefore,       \* rows at the preview
  houtside       \* outside changes since

helperVars == <<helpers, helperCopies, hjob, hbefore, houtside>>

HelperEids == Slugs \X {1, 2}

(* What a name matters by: the slug _slugify makes of it, which keeps      *)
(* every letter, and the one Home Assistant makes, which writes an umlaut  *)
(* as a plain letter.                                                      *)
Names == [ours : Slugs, theirs : Slugs]

SlugsAgree(name) == name.ours = name.theirs

Unchanged == "unchanged"

IdleHelper == [pc |-> "idle", tool |-> "none", targets |-> <<>>, name |-> Unchanged, to |-> Unchanged,
               answer |-> Unchanged, named |-> TRUE, saved |-> FALSE, errors |-> FALSE]

Taken(eid) == \E r \in helpers : r.eid = eid

(* Home Assistant derives the entity id from the name, with a number when  *)
(* that is taken.                                                          *)
Assigned(name) ==
  LET slug == name.theirs
  IN <<slug, CHOOSE n \in 1..(MaxHelpers + 1) : ~Taken(<<slug, n>>) /\ \A m \in 1..(n - 1) : Taken(<<slug, m>>)>>

Derived(name) == <<name.ours, 1>>

Indexed(eid) == {r \in helpers : r.eid = eid /\ ~r.yaml}

SameName(eid) == {r \in helpers : ~r.yaml /\ eid = Derived(r.name)}

(* Variant: names are looked at first.                                     *)
ResolvedByName(eid) == IF SameName(eid) # {} THEN SameName(eid) ELSE Indexed(eid)

(* By the registry's unique id if that is a collection helper's, else by   *)
(* the slug of the name.                                                   *)
Resolved(eid) ==
  IF Indexed(eid) # {} THEN Indexed(eid) ELSE SameName(eid)

Target(r, eid) == [hid |-> r.hid, eid |-> eid]

HelperPreview(job) ==
  /\ hjob' = job
  /\ hbefore' = helpers
  /\ houtside' = 0
  /\ UNCHANGED <<helpers, helperCopies>>

Renames(from, to) == IF to = from THEN Unchanged ELSE to

PreviewCreate ==
  /\ hjob.pc = "idle"
  /\ \E name \in Names, to \in HelperEids :
       HelperPreview([IdleHelper EXCEPT !.pc = "previewed", !.tool = "create", !.name = name,
                                        !.to = Renames(Derived(name), to)])

PreviewUpdate ==
  /\ hjob.pc = "idle"
  /\ \E eid \in HelperEids, to \in HelperEids, name \in Names : \E r \in Resolved(eid) :
       /\ name # r.name \/ to # eid
       /\ HelperPreview([IdleHelper EXCEPT !.pc = "previewed", !.tool = "update", !.name = name,
                                           !.to = Renames(eid, to), !.targets = <<Target(r, eid)>>,
                                           !.answer = eid, !.named = Indexed(eid) # {}])

(* What does not resolve is left out; an id may be listed twice.            *)
PreviewDelete ==
  /\ hjob.pc = "idle"
  /\ \E eids \in SeqOf({eid \in HelperEids : Resolved(eid) # {}}, MaxHelpers) :
       \E row \in [DOMAIN eids -> helpers] :
         /\ \A i \in DOMAIN eids : row[i] \in Resolved(eids[i])
         /\ HelperPreview([IdleHelper EXCEPT !.pc = "previewed", !.tool = "delete",
                                             !.targets = [i \in DOMAIN eids |-> Target(row[i], eids[i])],
                                             !.named = \A i \in DOMAIN eids : Indexed(eids[i]) # {}])

HelperCopied ==
  IF hjob.tool = "delete" THEN helperCopies \cup {r \in hbefore : \E i \in DOMAIN hjob.targets : hjob.targets[i].hid = r.hid}
  ELSE helperCopies

(* The confirming call computes the derived id from a name of its own.     *)
ConfirmHelper ==
  /\ hjob.pc = "previewed"
  /\ helperCopies' = HelperCopied
  /\ \E name \in IF hjob.tool = "create" THEN Names ELSE {hjob.name} :
       hjob' = [hjob EXCEPT !.pc = "run", !.named = @ /\ name = hjob.name,
                            !.answer = IF hjob.tool = "create" THEN Derived(name) ELSE @]
  /\ UNCHANGED <<helpers, hbefore, houtside>>

(* A command fails before or after it is executed, or is answered.         *)
Attempt(may, effect, ok) ==
  \/ may /\ helpers' = effect
  \/ UNCHANGED helpers /\ ~ok

(* When the write fails the transaction is discarded.                      *)
NextAfterWrite == IF hjob.to = Unchanged THEN "done" ELSE "rename"

CreateHelper ==
  /\ hjob.pc = "run" /\ hjob.tool = "create"
  /\ LET hid == Cardinality(hbefore) + 1
         made == [hid |-> hid, eid |-> Assigned(hjob.name), name |-> hjob.name, yaml |-> FALSE]
     IN \E ok \in BOOLEAN :
          /\ Attempt(TRUE, helpers \cup {made}, ok)
          /\ hjob' = [hjob EXCEPT !.pc = IF ok THEN NextAfterWrite ELSE "discarded", !.saved = ok,
                                  !.errors = ~ok, !.named = @ /\ ~Taken(Derived(hjob.name)),
                                  !.targets = <<[hid |-> hid, eid |-> hjob.answer]>>]
  /\ UNCHANGED <<helperCopies, hbefore, houtside>>

UpdateHelper ==
  /\ hjob.pc = "run" /\ hjob.tool = "update"
  /\ LET this == {r \in helpers : r.hid = hjob.targets[1].hid}
     IN \E ok \in BOOLEAN :
          /\ Attempt(this # {}, (helpers \ this) \cup {[r EXCEPT !.name = hjob.name] : r \in this}, ok)
          /\ hjob' = [hjob EXCEPT !.pc = IF ok THEN NextAfterWrite ELSE "discarded", !.saved = ok, !.errors = ~ok]
  /\ UNCHANGED <<helperCopies, hbefore, houtside>>

(* Variant: the new id is reported whether or not the rename worked.       *)
RenamedAnyway(ok) == hjob' = [hjob EXCEPT !.pc = "done", !.answer = hjob.to]

(* A rename that fails is reported beside the helper.                      *)
HelperRenamed(ok) == hjob' = [hjob EXCEPT !.pc = "done", !.answer = IF ok THEN hjob.to ELSE @, !.errors = ~ok]

RenameHelper ==
  /\ hjob.pc = "rename"
  /\ LET this == {r \in helpers : r.eid = hjob.answer}
     IN \E ok \in BOOLEAN :
          /\ Attempt(this # {} /\ ~Taken(hjob.to), (helpers \ this) \cup {[r EXCEPT !.eid = hjob.to] : r \in this}, ok)
          /\ HelperRenamed(ok)
  /\ UNCHANGED <<helperCopies, hbefore, houtside>>

(* Each deletion has a savepoint; errors are noted and the next follows.   *)
DeleteHelper ==
  /\ hjob.pc = "run" /\ hjob.tool = "delete"
  /\ hjob.targets # <<>>
  /\ LET this == {r \in helpers : r.hid = Head(hjob.targets).hid}
     IN \E ok \in BOOLEAN :
          /\ Attempt(this # {}, helpers \ this, ok)
          /\ hjob' = [hjob EXCEPT !.targets = Tail(@), !.saved = TRUE, !.errors = @ \/ ~ok]
  /\ UNCHANGED <<helperCopies, hbefore, houtside>>

EndDelete ==
  /\ hjob.pc = "run" /\ hjob.tool = "delete"
  /\ hjob.targets = <<>>
  /\ hjob' = [hjob EXCEPT !.pc = "done"]
  /\ UNCHANGED <<helpers, helperCopies, hbefore, houtside>>

(* The undo entries of helpers have no entity_id: rolling back marks every *)
(* savepoint and ends in a KeyError before anything is sent.               *)
RollBackHelper ==
  /\ hjob.pc = "done" /\ hjob.saved
  /\ hjob' = [hjob EXCEPT !.pc = "raised", !.saved = FALSE]
  /\ UNCHANGED <<helpers, helperCopies, hbefore, houtside>>

(* The next attempt finds no active savepoint.                             *)
RollBackHelperAgain ==
  /\ hjob.pc = "raised"
  /\ hjob' = [hjob EXCEPT !.pc = "already rolled back"]
  /\ UNCHANGED <<helpers, helperCopies, hbefore, houtside>>

(* People rename and delete helpers.                                       *)
HelperOutside ==
  /\ houtside < MaxHelperOutside
  /\ hjob.pc \in {"previewed", "run", "rename"}
  /\ houtside' = houtside + 1
  /\ \E r \in helpers :
       \/ helpers' = helpers \ {r}
       \/ \E eid \in HelperEids : ~Taken(eid) /\ helpers' = (helpers \ {r}) \cup {[r EXCEPT !.eid = eid]}
  /\ UNCHANGED <<helperCopies, hjob, hbefore>>

HelperNext ==
  \/ PreviewCreate
  \/ PreviewUpdate
  \/ PreviewDelete
  \/ ConfirmHelper
  \/ CreateHelper
  \/ UpdateHelper
  \/ RenameHelper
  \/ DeleteHelper
  \/ EndDelete
  \/ RollBackHelper
  \/ RollBackHelperAgain
  \/ HelperOutside

(* There are helpers made in the sidebar and, maybe, one made in YAML.     *)
HelperInit ==
  /\ \E n \in 0..(MaxHelpers - 1) :
       \E eid \in [1..n -> HelperEids], name \in [1..n -> Names], yaml \in SUBSET (1..n) :
         /\ IsInjective(eid)
         /\ helpers = {[hid |-> h, eid |-> eid[h], name |-> name[h], yaml |-> h \in yaml] : h \in 1..n}
  /\ helperCopies = {}
  /\ hjob = IdleHelper
  /\ hbefore = helpers
  /\ houtside = 0

HelperSpec == HelperInit /\ [][HelperNext]_helperVars

(***************************************************************************)
(* Properties                                                              *)
(***************************************************************************)

(* The entity id a successful call reports is the one the helper has, when *)
(* the call named a helper of the registry, confirmed what it previewed    *)
(* and found the derived id free, and nobody interfered.  haops_helper_    *)
(* create derives the id it reports and never reads the assigned one:      *)
(* where its slug of the name is not Home Assistant's the answer may name  *)
(* no helper at all, and such creations are exempt.                        *)
AnswerNamesTheHelper ==
  /\ hjob.pc = "done" /\ hjob.tool # "delete" /\ ~hjob.errors /\ hjob.named /\ houtside = 0
  /\ hjob.tool = "create" => SlugsAgree(hjob.name)
  =>
    \E r \in helpers : r.hid = hjob.targets[1].hid /\ r.eid = hjob.answer

(* Under the same conditions no other helper is touched, though a rename   *)
(* goes by entity id and a write by storage id.                            *)
OnlyNamedHelpersChange ==
  [][hjob.pc \in {"run", "rename"} /\ hjob'.named /\ houtside' = 0 =>
       \A r \in helpers \ helpers' : \E i \in DOMAIN hjob.targets : hjob.targets[i].hid = r.hid]_helperVars

================================================================================
