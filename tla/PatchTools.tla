------------------------------ MODULE PatchTools ------------------------------
(***************************************************************************)
(* utils/diff.py: a client reads a file, writes a unified diff against     *)
(* what it read, and config_patch or a batch item applies the diff to what *)
(* the file holds by then.  apply_patch looks for the lines a hunk expects *)
(* at the line the hunk declares and, failing that, at growing distances   *)
(* in both directions, never among lines an earlier hunk has consumed.     *)
(*                                                                         *)
(* A file is a sequence of lines; a patch is a sequence of hunks in        *)
(* ascending order, a hunk being where it is said to start and its lines:  *)
(* context, removed, added and context again.                              *)
(* `home' is history: the offset at which the lines each hunk was written  *)
(* for stand in the file now, -1 once they no longer stand together.       *)
(***************************************************************************)
EXTENDS Integers, FiniteSets, Sequences, SequencesExt, FiniteSetsExt

CONSTANTS
  FileLines,    \* the lines a file is made of
  NewLine,      \* the line a patch adds, found in no file
  MaxLines,     \* bound on the length of the file a client reads
  MaxDrift,     \* bound on the lines other writers insert or delete meanwhile
  Fuzz          \* apply_patch's fuzz

ASSUME PatchAssumption == NewLine \notin FileLines /\ {MaxLines, MaxDrift, Fuzz} \subseteq Nat

VARIABLES file, patch, home, drifts

patchVars == <<file, patch, home, drifts>>

\* The lines a hunk consumes, and the lines it leaves in their place.
Expected(hunk) == hunk.before \o hunk.removed \o hunk.after
Leaves(hunk) == hunk.before \o hunk.added \o hunk.after

\* _sequence_matches_at, offsets counted from 0.
MatchesAt(want, lines, at) ==
  /\ at \in 0 .. Len(lines) - Len(want)
  /\ \A i \in DOMAIN want : lines[at + i] = want[i]

Declared(hunk) == IF hunk.start = 0 THEN 0 ELSE hunk.start - 1

\* The offsets at distance d of the declared one where a hunk may go; in the
\* variant only further down.
ProbesForward(hunk, lines, cursor, d) ==
  {at \in {Declared(hunk) + d} : at >= cursor /\ MatchesAt(Expected(hunk), lines, at)}
Probes(hunk, lines, cursor, d) ==
  {at \in {Declared(hunk) - d, Declared(hunk) + d} :
     at >= cursor /\ MatchesAt(Expected(hunk), lines, at)}

\* _locate_hunk: the offset as a singleton, or {} when the patch is refused.
Located(hunk, lines, cursor) ==
  LET hits    == {d \in 0 .. Fuzz : Probes(hunk, lines, cursor, d) # {}}
      nearest == Probes(hunk, lines, cursor, Min(hits))
  IN IF Expected(hunk) = <<>> THEN {Declared(hunk)} \cap (cursor .. Len(lines))
     ELSE IF hits = {} \/ Cardinality(nearest) > 1 THEN {} ELSE nearest

\* One hunk: copy up to it, leave its lines, move past what it consumed.
ApplyHunk(done, hunk, lines) ==
  LET found == IF done.ok THEN Located(hunk, lines, done.cursor) ELSE {}
      at    == CHOOSE p \in found : TRUE
  IN IF found = {} THEN [done EXCEPT !.ok = FALSE]
     ELSE [ok     |-> TRUE,
           out    |-> done.out \o SubSeq(lines, done.cursor + 1, at) \o Leaves(hunk),
           cursor |-> at + Len(Expected(hunk))]

Refused == [ok |-> FALSE, text |-> <<>>]

\* apply_patch, hunk after hunk.
ApplyPatch(lines, hunks) ==
  LET done[n \in 0 .. Len(hunks)] ==
        IF n = 0 THEN [ok |-> TRUE, out |-> <<>>, cursor |-> 0]
        ELSE ApplyHunk(done[n - 1], hunks[n], lines)
      all == done[Len(hunks)]
  IN IF hunks = <<>> \/ ~all.ok THEN Refused
     ELSE [ok |-> TRUE, text |-> all.out \o SubSeq(lines, all.cursor + 1, Len(lines))]

-----------------------------------------------------------------------------
\* The hunk, with one line of context, that puts NewLine after offset `at'
\* of the file, in place of the next `cut' lines; the client may be `slip'
\* lines off when it counts.
HunkOf(lines, at, cut, slip) ==
  LET first == IF at = 0 THEN 1 ELSE at
      next  == at + cut + 1
  IN [start   |-> IF lines = <<>> THEN 0 ELSE first + slip,
      before  |-> SubSeq(lines, first, at),
      removed |-> SubSeq(lines, at + 1, at + cut),
      added   |-> <<NewLine>>,
      after   |-> IF next > Len(lines) THEN <<>> ELSE <<lines[next]>>]

\* With the offset at which its lines stand.
HunksOf(lines) ==
  {[hunk |-> HunkOf(lines, at, cut, slip), at |-> IF at = 0 THEN 0 ELSE at - 1] :
     at \in 0 .. Len(lines) - 1, cut \in 0 .. 1, slip \in 0 .. 1}
  \cup {[hunk |-> HunkOf(lines, Len(lines), 0, 0),
         at   |-> IF lines = <<>> THEN 0 ELSE Len(lines) - 1]}

Ends(h) == h.at + Len(Expected(h.hunk))

\* The client reads the file and writes the one patch of a behaviour, of one
\* hunk or of two that do not overlap.
WritePatch ==
  /\ patch = <<>>
  /\ \E h, g \in HunksOf(file) :
       /\ h = g \/ Ends(h) <= g.at
       /\ patch' = IF h = g THEN <<h.hunk>> ELSE <<h.hunk, g.hunk>>
       /\ home' = IF h = g THEN <<h.at>> ELSE <<h.at, g.at>>
  /\ UNCHANGED <<file, drifts>>

\* Where the lines of hunk i stand once a line is inserted (by = 1) or
\* deleted (by = -1) after offset `at'.
Moved(i, at, by) ==
  LET end == home[i] + Len(Expected(patch[i]))
  IN IF home[i] < 0 \/ at > end \/ (at = end /\ home[i] # end) THEN home[i]
     ELSE IF at < home[i] \/ (by = 1 /\ at = home[i]) THEN home[i] + by
     ELSE IF by = -1 /\ at = end THEN home[i] ELSE -1

\* Another writer inserts or deletes a line before the patch is applied.
Drift ==
  /\ patch # <<>> /\ drifts < MaxDrift
  /\ \/ \E at \in 0 .. Len(file), line \in FileLines :
          /\ file' = InsertAt(file, at + 1, line)
          /\ home' = [i \in DOMAIN home |-> Moved(i, at, 1)]
     \/ \E at \in 0 .. Len(file) - 1 :
          /\ file' = RemoveAt(file, at + 1)
          /\ home' = [i \in DOMAIN home |-> Moved(i, at, -1)]
  /\ drifts' = drifts + 1
  /\ UNCHANGED patch

\* config_patch, or the patch item of a batch: the file is patched or, when
\* the patch is refused, left alone.
PatchFile ==
  /\ patch # <<>>
  /\ LET patched == ApplyPatch(file, patch)
     IN file' = IF patched.ok THEN patched.text ELSE file
  /\ patch' = <<>> /\ home' = <<>> /\ drifts' = MaxDrift

PatchInit ==
  /\ file \in UNION {[1 .. n -> FileLines] : n \in 0 .. MaxLines}
  /\ patch = <<>> /\ home = <<>> /\ drifts = 0

PatchNext == (drifts < MaxDrift /\ WritePatch) \/ Drift \/ PatchFile

PatchSpec == PatchInit /\ [][PatchNext]_patchVars

-----------------------------------------------------------------------------
Occurrences(want) == {at \in 0 .. Len(file) : MatchesAt(want, file, at)}

\* The file with each hunk put at its place, places ascending.
Spliced(places) ==
  LET done[n \in 0 .. Len(patch)] ==
        IF n = 0 THEN [out |-> <<>>, cursor |-> 0]
        ELSE [out    |-> done[n - 1].out \o SubSeq(file, done[n - 1].cursor + 1, places[n]) \o Leaves(patch[n]),
              cursor |-> places[n] + Len(Expected(patch[n]))]
      all == done[Len(patch)]
  IN all.out \o SubSeq(file, all.cursor + 1, Len(file))

\* A hunk whose lines still stand together, once in the file and within
\* Fuzz lines of the declared start, is applied there, wherever the lines
\* inserted and deleted around it and the earlier hunks have put it
\* (diff.py:51-60).
UniqueHunksLandAtHome ==
  (/\ patch # <<>>
   /\ \A i \in DOMAIN patch :
        /\ Occurrences(Expected(patch[i])) = {home[i]}
        /\ home[i] - Declared(patch[i]) \in -Fuzz .. Fuzz)
  => ApplyPatch(file, patch) = [ok |-> TRUE, text |-> Spliced(home)]

=============================================================================
