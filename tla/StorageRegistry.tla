---------------------------- MODULE StorageRegistry ----------------------------
(***************************************************************************)
(* storage_registry.py over the WebSocket client: registry reads that      *)
(* prefer the .storage file unless it is older than our last write, and    *)
(* the write clock that send_command sets.                                 *)
(***************************************************************************)
EXTENDS WsClient

VARIABLES
  live,     \* registry writes Home Assistant has carried out, by message id
  file,     \* the .storage file: the writes it holds, and its mtime
  now,      \* wall clock
  lastWrite,\* _last_write_ts
  known,    \* writes acknowledged to this process
  reader,   \* what load_registry found when it began, for each caller
  answer    \* the last RegistryRead given, and the acknowledged writes it
            \* does not show

regVars == <<live, file, now, lastWrite, known, reader, answer>>

vars == <<wsVars, regVars>>

NoRead == [preferred |-> FALSE, expected |-> {}]

NoAnswer == [missing |-> {}, flagged |-> FALSE]

(* Variant: the comparison allows for coarse file times.                   *)
FileIsWellBehind == lastWrite > 0 /\ file.mtime + 1 < lastWrite

(* _file_is_behind_our_write                                               *)
FileIsBehind == lastWrite > 0 /\ file.mtime < lastWrite

PreferWs(fresh) == fresh \/ FileIsBehind

(* load_registry answers from the file without a wait, with a note when    *)
(* the file is behind.                                                     *)
ReadFile(t, fresh) ==
  /\ CanCall(t)
  /\ ~PreferWs(fresh)
  /\ answer' = [missing |-> known \ file.holds, flagged |-> FileIsBehind]
  /\ UNCHANGED <<wsVars, live, file, now, lastWrite, known, reader>>

(* It asks Home Assistant, which is preferred or the file is unreadable.   *)
ReadLive(t, fresh) ==
  /\ Send(t, "list")
  /\ reader' = [reader EXCEPT ![t] = [preferred |-> PreferWs(fresh), expected |-> known]]
  /\ UNCHANGED <<live, file, now, lastWrite, known, answer>>

WriteRegistry(t) ==
  /\ Send(t, "update")
  /\ UNCHANGED regVars

(* Home Assistant carries an update out in memory, and answers a list with *)
(* what it has in memory.                                                  *)
HaHandles(i) ==
  \E success \in BOOLEAN :
    /\ HaReplies(i, success, IF success /\ sent[i].what = "list" THEN live ELSE {})
    /\ live' = IF success /\ sent[i].what = "update" THEN live \cup {sent[i].id} ELSE live
    /\ UNCHANGED <<file, now, lastWrite, known, reader, answer>>

(* The debounced flush of Home Assistant's Store.                          *)
Flush ==
  /\ file.holds # live
  /\ file' = [holds |-> live, mtime |-> now]
  /\ now' = now + 1
  /\ UNCHANGED <<wsVars, live, lastWrite, known, reader, answer>>

(* The live read failed: the file after all, with a note, if it was not    *)
(* unreadable before and is not now.                                       *)
FallsBack(t) ==
  \/ UNCHANGED answer
  \/ /\ reader[t].preferred
     /\ answer' = [missing |-> reader[t].expected \ file.holds, flagged |-> TRUE]

Acknowledge(t) ==
  /\ lastWrite' = now
  /\ now' = now + 1
  /\ known' = known \cup {call[t].id}

(* send_command returns or raises.                                         *)
WriteEnds(t) ==
  /\ call[t].what = "update"
  /\ Leave(t)
  /\ IF call[t].future = "result" THEN Acknowledge(t) ELSE UNCHANGED <<now, lastWrite, known>>
  /\ UNCHANGED <<live, file, reader, answer>>

ReadEnds(t) ==
  /\ call[t].what = "list"
  /\ Leave(t)
  /\ IF call[t].future = "result"
     THEN answer' = [missing |-> reader[t].expected \ call[t].data, flagged |-> FALSE]
     ELSE FallsBack(t)
  /\ reader' = [reader EXCEPT ![t] = NoRead]
  /\ UNCHANGED <<live, file, now, lastWrite, known>>

NeverSent(t) ==
  /\ ConnectFails(t)
  /\ IF call[t].what = "list" THEN FallsBack(t) ELSE UNCHANGED answer
  /\ reader' = [reader EXCEPT ![t] = NoRead]
  /\ UNCHANGED <<live, file, now, lastWrite, known>>

CallCancelled(t) ==
  /\ CancelCall(t)
  /\ reader' = [reader EXCEPT ![t] = NoRead]
  /\ UNCHANGED <<live, file, now, lastWrite, known, answer>>

Request(t) == WriteRegistry(t) \/ \E fresh \in BOOLEAN : ReadFile(t, fresh) \/ ReadLive(t, fresh)

Ends(t) == WriteEnds(t) \/ ReadEnds(t) \/ NeverSent(t)

RegistryNext ==
  \/ \E t \in Callers : Request(t) \/ Ends(t)
  \/ \E t \in Callers : (Resume(t) \/ Timeout(t)) /\ UNCHANGED regVars
  \/ \E t \in Callers : CallCancelled(t)
  \/ \E i \in DOMAIN sent : HaHandles(i)
  \/ Network /\ UNCHANGED regVars
  \/ Flush

RegistryInit ==
  /\ WsInit
  /\ live = {}
  /\ file = [holds |-> {}, mtime |-> 0]
  /\ now = 1
  /\ lastWrite = 0
  /\ known = {}
  /\ reader = [t \in Callers |-> NoRead]
  /\ answer = NoAnswer

RegistrySpec == RegistryInit /\ [][RegistryNext]_vars

(***************************************************************************)
(* Properties                                                              *)
(***************************************************************************)

(* A read that carries no warning shows every write that Home Assistant    *)
(* had acknowledged to this process when the read began.                   *)
AcknowledgedWritesAreRead ==
  answer.flagged \/ answer.missing = {}

================================================================================
