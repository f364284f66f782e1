------------------------------ MODULE DiskStores ------------------------------
(***************************************************************************)
(* The three stores as one specification, and the invariant behind what is *)
(* proved about them.                                                      *)
(***************************************************************************)
EXTENDS BackupStore, OutputStores

StoreNext == BackupNext \/ OutputNext \/ Crash \/ StartUp \/ Tomorrow

StoreSpec == StoreInit /\ [][StoreNext]_storeVars

-----------------------------------------------------------------------------
MadeIds == 1..Len(made)

StoreTypeOK ==
  /\ store \in Stores
  /\ made \in Seq([kind : Kinds \cup {AnyKind}, day : Nat])
  /\ today \in Nat \ {0} /\ passDay \in 0..today
  /\ listed \cup files \cup appended \cup byHand \cup swallowed \subseteq MadeIds
  /\ torn \in BOOLEAN /\ tail \in {0} \cup MadeIds
  /\ step \in [pc     : {"idle", "append", "plan", "unlink", "sweep", "down"},
                id     : {0} \cup MadeIds,
                doomed : SUBSET MadeIds,
                keep   : SUBSET MadeIds,
                auto   : BOOLEAN]

(* Ids are given out as time goes on.                                      *)
DaysInOrder ==
  /\ \A i \in MadeIds : made[i].day <= today
  /\ \A i, j \in MadeIds : i < j => made[i].day <= made[j].day

(* A line is appended once, after its file, and for good.                  *)
LinesAreAppended ==
  /\ listed \subseteq appended
  /\ step.pc = "append" => step.id = Len(made) /\ step.id \in files /\ step.id \notin appended
  /\ step.pc \in {"append", "plan", "sweep"} => step.auto

SameKind(i, S) == {j \in S : store = "backup" => made[j].kind = made[i].kind}

(* Entries of S that retention may take away: they are too old, or newer   *)
(* ones of S displace them.                                                *)
Spent(S) == {i \in S : Age(i) > MaxAge \/ Cardinality({j \in SameKind(i, S) : j > i}) >= Cap}

(* Nothing of S is over the limits.                                        *)
Trim(S) == \A i \in S : Cardinality(SameKind(i, S)) <= Cap /\ Age(i) <= MaxAge

Exempt == byHand \cup swallowed # {}

(* What a pass deletes, keeps and leaves.  It may delete what was asked    *)
(* for, and what is spent; what is spent stays so, however it is           *)
(* interrupted.                                                            *)
PassIsSound ==
  /\ step.pc = "unlink" =>
       /\ step.keep \subseteq listed /\ step.doomed \subseteq listed \ step.keep
       /\ listed \ step.keep \subseteq IF step.auto THEN Spent(listed) ELSE byHand
       /\ step.auto => Trim(step.keep)
       /\ step.auto /\ ~Exempt => step.keep \subseteq files
  /\ step.pc = "sweep" =>
       /\ step.keep = listed /\ Trim(listed)
       /\ ~Exempt => listed \subseteq files

(* A file that is missing is of an entry that retention takes away next.   *)
MissingAreSpent == ~Exempt => listed \ files \subseteq Spent(listed)

(* A finished pass stands until something is made or deleted.              *)
PassStands == passDay > 0 => step.pc = "idle"

StoreInv ==
  /\ StoreTypeOK /\ DaysInOrder /\ LinesAreAppended /\ PassIsSound /\ MissingAreSpent /\ PassStands
  /\ RetentionKeepsNewest /\ ListedFilesExist /\ NothingPilesUp
================================================================================
