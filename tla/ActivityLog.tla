------------------------------ MODULE ActivityLog ------------------------------
(***************************************************************************)
(* safety/audit.py: mutations in operations.jsonl, read-only calls in      *)
(* activity.jsonl with one rotation, and the merged timeline.              *)
(***************************************************************************)
EXTENDS Integers, Sequences, FiniteSets

CONSTANTS
  MaxEntries,  \* bound on the entries logged
  RotateAt,    \* _ACTIVITY_MAX_BYTES, counted in lines
  Limit        \* lines the timeline asks for

ASSUME LogAssumption == {MaxEntries, RotateAt, Limit} \subseteq Nat

VARIABLES
  operations, \* a line is the number of its entry, or 0 when it is broken
  activity,   \* activity.jsonl
  rotated,    \* activity.1.jsonl
  cut,        \* which of the files end without a newline
  logged      \* entries so far; their timestamps are their numbers

logVars == <<operations, activity, rotated, cut, logged>>

Number == logged + 1

(* A line joins a broken one before it, and is lost with it.               *)
WithLine(lines, joins, n) == IF joins THEN [lines EXCEPT ![Len(lines)] = 0] ELSE Append(lines, n)

(* A line is written whole, or breaks off: a crash or a full disk.         *)
LogOperation ==
  /\ logged < MaxEntries
  /\ logged' = Number
  /\ \/ /\ operations' = WithLine(operations, "operations" \in cut, Number)
        /\ cut' = cut \ {"operations"}
     \/ /\ operations' = WithLine(operations, "operations" \in cut, 0)
        /\ cut' = cut \cup {"operations"}
  /\ UNCHANGED <<activity, rotated>>

(* A full file becomes activity.1.jsonl, over the one before.              *)
Rotation == [activity |-> <<>>, rotated |-> activity, cut |-> cut \ {"activity"}]

NoRotation == [activity |-> activity, rotated |-> rotated, cut |-> cut]

(* The size is looked at before each line.  A rotation that fails is given *)
(* up, and the file grows on; so is a line that breaks off.                *)
LogActivity ==
  /\ logged < MaxEntries
  /\ logged' = Number
  /\ \E now \in IF Len(activity) < RotateAt THEN {NoRotation} ELSE {Rotation, NoRotation} :
       LET joins == "activity" \in now.cut
       IN /\ rotated' = now.rotated
          /\ \/ /\ activity' = WithLine(now.activity, joins, Number)
                /\ cut' = now.cut \ {"activity"}
             \/ /\ activity' = WithLine(now.activity, joins, 0)
                /\ cut' = now.cut \cup {"activity"}
  /\ UNCHANGED operations

ClearLog ==
  /\ operations \o activity \o rotated # <<>>
  /\ operations' = <<>>
  /\ activity' = <<>>
  /\ rotated' = <<>>
  /\ cut' = {}
  /\ UNCHANGED logged

LogNext == LogOperation \/ LogActivity \/ ClearLog

LogInit ==
  /\ operations = <<>>
  /\ activity = <<>>
  /\ rotated = <<>>
  /\ cut = {}
  /\ logged = 0

LogSpec == LogInit /\ [][LogNext]_logVars

(* The n greatest: of lines the last, of entries the newest.               *)
Newest(S, n) == {i \in S : Cardinality({j \in S : j > i}) < n}

LastLines(lines, n) == {i \in DOMAIN lines : i > Len(lines) - n}

Valid(lines, n) == {i \in LastLines(lines, n) : lines[i] # 0}

(* Variant: as many lines are read as entries are wanted.                  *)
TailReadNarrow(lines) == {lines[i] : i \in Newest(Valid(lines, Limit), Limit)}

(* The last lines are parsed, twice as many as wanted, and the valid ones  *)
(* among them kept, up to the limit.                                       *)
TailRead(lines) == {lines[i] : i \in Newest(Valid(lines, 2 * Limit), Limit)}

(* read_recent_merged: what is left of both tails once they are sorted by  *)
(* timestamp and cut at the limit.                                         *)
Merged == Newest(TailRead(operations) \cup TailRead(activity), Limit)

(***************************************************************************)
(* Properties                                                              *)
(***************************************************************************)

Broken(lines) == Cardinality({i \in LastLines(lines, 2 * Limit) : lines[i] = 0})

Entries(lines) == {lines[i] : i \in DOMAIN lines} \ {0}

(* The timeline shows the newest entries of both files, all of them, as    *)
(* long as no more lines are broken near their ends than the timeline has. *)
TimelineIsNewest ==
  Broken(operations) <= Limit /\ Broken(activity) <= Limit =>
    Merged = Newest(Entries(operations) \cup Entries(activity), Limit)

================================================================================
