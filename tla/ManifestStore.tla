----------------------------- MODULE ManifestStore -----------------------------
(***************************************************************************)
(* The layout three stores share: a directory of files and manifest.jsonl, *)
(* one line per file, appended to after the file is written and rewritten  *)
(* when entries are pruned.  A store is synchronous code, so a crash or a  *)
(* failing disk is all that can come between two of its steps.             *)
(***************************************************************************)
EXTENDS Naturals, Sequences, FiniteSets

CONSTANTS
  Stores,      \* which of "backup", "captures", "shell" an instance has
  Kinds,       \* types of backups, kinds of captures
  MaxMade,     \* bound on the files made
  Cap,         \* max_per_type, max_count
  MaxAge,      \* max_age_days
  LastDay,     \* bound on the clock, in days
  StoreFaults  \* which of "crash", "disk" happen

ASSUME StoreAssumption ==
  /\ Stores \subseteq {"backup", "captures", "shell"}
  /\ {MaxMade, Cap, MaxAge, LastDay} \subseteq Nat

VARIABLES
  store,     \* the store looked at
  listed,    \* ids of the lines that parse, which is what every reader works on
  torn,      \* the last line has no newline
  tail,      \* its id, if it parses, or 0
  files,     \* ids of the files there are
  made,      \* kind and day of every file ever made; ids are positions
  today,
  step,      \* where the code stands
  appended,  \* ids whose lines were written in full
  byHand,    \* ids somebody asked to delete
  swallowed, \* ids of lines that another line was written onto
  passDay    \* day of the retention pass that has come to its end, or 0

storeVars == <<store, listed, torn, tail, files, made, today, step, appended, byHand, swallowed, passDay>>

Resting == [pc |-> "idle", id |-> 0, doomed |-> {}, keep |-> {}, auto |-> TRUE]

Age(i) == today - made[i].day

(* The text of a line follows whatever the file ends with, and neither     *)
(* parses when that has no newline.                                        *)
AfterAppend(line) == IF torn THEN listed \ {tail} ELSE listed \cup ({line} \ {0})

Swallow(i) == IF torn THEN {i, tail} \ {0} ELSE {}

(* Writing the file comes first.                                           *)
MakeFile(kind) ==
  /\ step.pc = "idle"
  /\ Len(made) < MaxMade
  /\ made' = Append(made, [kind |-> kind, day |-> today])
  /\ files' = files \cup {Len(made) + 1}
  /\ step' = [Resting EXCEPT !.pc = "append", !.id = Len(made) + 1]
  /\ passDay' = 0
  /\ UNCHANGED <<store, listed, torn, tail, today, appended, byHand, swallowed>>

AppendLine ==
  /\ step.pc = "append"
  /\ listed' = AfterAppend(step.id)
  /\ torn' = FALSE /\ tail' = 0
  /\ appended' = appended \cup {step.id}
  /\ swallowed' = swallowed \cup Swallow(step.id)
  /\ step' = [step EXCEPT !.pc = "plan"]
  /\ UNCHANGED <<store, files, made, today, byHand, passDay>>

(* The write of the line breaks off: the server is killed, or the disk is  *)
(* full and the call fails.  Nothing, a part, or all but the newline has   *)
(* been written.                                                           *)
AppendBreaks ==
  /\ step.pc = "append"
  /\ \/ "crash" \in StoreFaults /\ step' = [Resting EXCEPT !.pc = "down"]
     \/ "disk" \in StoreFaults /\ step' = Resting
  /\ \/ UNCHANGED <<listed, torn, tail, appended, swallowed>>
     \/ \E line \in {0, step.id} :
          /\ listed' = AfterAppend(line)
          /\ torn' = TRUE /\ tail' = IF torn THEN 0 ELSE line
          /\ appended' = appended \cup ({line} \ {0})
          /\ swallowed' = swallowed \cup Swallow(step.id)
  /\ UNCHANGED <<store, files, made, today, byHand, passDay>>

(* A pass that read the manifest deletes the files it condemned, one by    *)
(* one, and then replaces the manifest.                                    *)
Unlink(i) ==
  /\ step.pc = "unlink"
  /\ i \in step.doomed
  /\ files' = files \ {i}
  /\ step' = [step EXCEPT !.doomed = @ \ {i}]
  /\ UNCHANGED <<store, listed, torn, tail, made, today, appended, byHand, swallowed, passDay>>

Replace(entries) ==
  /\ listed' = entries
  /\ torn' = FALSE /\ tail' = 0

MayRewrite == step.pc = "unlink" /\ step.doomed = {}

Crash ==
  /\ "crash" \in StoreFaults
  /\ step.pc # "down"
  /\ step' = [Resting EXCEPT !.pc = "down"]
  /\ passDay' = 0
  /\ UNCHANGED <<store, listed, torn, tail, files, made, today, appended, byHand, swallowed>>

(* Every store runs its retention pass when it is made.                    *)
StartUp ==
  /\ step.pc = "down"
  /\ step' = [Resting EXCEPT !.pc = "plan"]
  /\ UNCHANGED <<store, listed, torn, tail, files, made, today, appended, byHand, swallowed, passDay>>

Tomorrow ==
  /\ step.pc = "idle"
  /\ today < LastDay
  /\ today' = today + 1
  /\ UNCHANGED <<store, listed, torn, tail, files, made, step, appended, byHand, swallowed, passDay>>

StoreInit ==
  /\ store \in Stores
  /\ listed = {}
  /\ torn = FALSE /\ tail = 0
  /\ files = {}
  /\ made = <<>>
  /\ today = 1
  /\ step = Resting
  /\ appended = {}
  /\ byHand = {}
  /\ swallowed = {}
  /\ passDay = 0

(***************************************************************************)
(* Properties                                                              *)
(***************************************************************************)

Rivals(i) == {j \in appended : j > i /\ (store = "backup" => made[j].kind = made[i].kind)}

(* What a store was given stays listed until it is too old or enough newer *)
(* ones displaced it: crashes, failing disks and passes over other types   *)
(* take nothing else away.  A line written onto a broken one is exempt.    *)
RetentionKeepsNewest ==
  \A i \in appended \ (listed \cup byHand \cup swallowed) : Age(i) > MaxAge \/ Cardinality(Rivals(i)) >= Cap

(* After a retention pass the files of what is listed exist, whatever      *)
(* crash or failure interrupted the pass before it.  Deletions by hand and *)
(* lines written onto broken ones are exempt: they bring entries back that *)
(* had been displaced.                                                     *)
ListedFilesExist == passDay > 0 /\ byHand \cup swallowed = {} => listed \subseteq files

(* After a retention pass nothing is left over its limits, and in captures *)
(* and shell outputs no file that nothing lists.                           *)
NothingPilesUp ==
  passDay > 0 =>
    /\ \A i \in listed : Cardinality({j \in listed : store = "backup" => made[j].kind = made[i].kind}) <= Cap
    /\ \A i \in listed : made[i].day + MaxAge >= passDay
    /\ store # "backup" => files \subseteq listed

================================================================================
