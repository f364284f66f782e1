----------------------------- MODULE RequestIndex -----------------------------
(***************************************************************************)
(* refindex/__init__.py, tools/refs.py, refactor_rename.py: calls that     *)
(* need the reference graph build it, leave it on the context they all     *)
(* share and may use one another's.  A call resets what is there when it   *)
(* begins.  A build awaits one registry after the other and then reads     *)
(* every file in one go; planning a rename awaits the dashboard list       *)
(* between its reset and its use of the graph.                             *)
(*                                                                         *)
(* A graph is known by the revisions of the registries and files it was    *)
(* built from.                                                             *)
(***************************************************************************)
EXTENDS Naturals

CONSTANTS
  IndexCalls,      \* concurrent calls
  Registries,      \* the registries a build reads
  MaxRevision      \* bound on the changes of the files and of each registry

ASSUME IndexAssumption == "files" \notin Registries /\ MaxRevision \in Nat

VARIABLES
  revision,        \* [Registries \cup {"files"} -> Nat]
  requestIndex,    \* ctx.request_index: a set of at most one graph
  indexCall        \* the calls' local state

indexVars == <<revision, requestIndex, indexCall>>

Sources == Registries \cup {"files"}
Unread == [s \in {} |-> 0]
\* What a build has read once it has read s as well.
WithSource(seen, s) == [x \in DOMAIN seen \cup {s} |-> IF x = s THEN revision[s] ELSE seen[x]]

Waiting == [pc |-> "idle", kind |-> "none", since |-> Unread, seen |-> Unread]

\* Variant: a call takes the graph that an earlier one has left.
KeepsEarlier == requestIndex

\* What is on the context once a call has begun: nothing.
AtEntry == {}

\* get_or_build_index: the graph that is there, else a build of one's own.
GetOrBuild(call, there) ==
  IF there = {} THEN [call EXCEPT !.pc = "building"]
  ELSE [call EXCEPT !.pc = "done", !.seen = CHOOSE graph \in there : TRUE]

\* haops_references and haops_refactor_check ask for the graph at once, the
\* health check always builds, planning a rename first asks Home Assistant
\* for its dashboards.
BeginCall(c) ==
  /\ indexCall[c].pc = "idle"
  /\ \E kind \in {"references", "check", "plan"} :
       LET call == [pc |-> "listing", kind |-> kind, since |-> revision, seen |-> Unread]
       IN indexCall' = [indexCall EXCEPT ![c] =
            CASE kind = "references" -> GetOrBuild(call, AtEntry)
              [] kind = "check"      -> GetOrBuild(call, {})
              [] OTHER               -> call]
  /\ requestIndex' = AtEntry
  /\ UNCHANGED revision

DashboardsListed(c) ==
  /\ indexCall[c].pc = "listing"
  /\ indexCall' = [indexCall EXCEPT ![c] = GetOrBuild(@, requestIndex)]
  /\ UNCHANGED <<revision, requestIndex>>

\* build_index: a registry, awaited ...
ReadRegistry(c) ==
  /\ indexCall[c].pc = "building"
  /\ \E r \in Registries \ DOMAIN indexCall[c].seen :
       indexCall' = [indexCall EXCEPT ![c].seen = WithSource(@, r)]
  /\ UNCHANGED <<revision, requestIndex>>

\* ... and, after the last one, the files and the end of the build in one go.
\* The graph of a health check stays its own.
FinishBuild(c) ==
  /\ indexCall[c].pc = "building"
  /\ Registries \subseteq DOMAIN indexCall[c].seen
  /\ LET graph == WithSource(indexCall[c].seen, "files")
     IN /\ indexCall' = [indexCall EXCEPT ![c].pc = "done", ![c].seen = graph]
        /\ requestIndex' = IF indexCall[c].kind = "check" THEN requestIndex ELSE {graph}
  /\ UNCHANGED revision

AnswerFromGraph(c) ==
  /\ indexCall[c].pc = "done"
  /\ indexCall' = [indexCall EXCEPT ![c] = Waiting]
  /\ UNCHANGED <<revision, requestIndex>>

\* Editors, tools and Home Assistant change files and registries.
Change(s) ==
  /\ revision[s] < MaxRevision
  /\ revision' = [revision EXCEPT ![s] = @ + 1]
  /\ UNCHANGED <<requestIndex, indexCall>>

IndexInit ==
  /\ revision = [s \in Sources |-> 0]
  /\ requestIndex = {}
  /\ indexCall = [c \in IndexCalls |-> Waiting]

IndexNext ==
  \/ \E c \in IndexCalls :
       BeginCall(c) \/ DashboardsListed(c) \/ ReadRegistry(c) \/ FinishBuild(c) \/ AnswerFromGraph(c)
  \/ \E s \in Sources : Change(s)

IndexSpec == IndexInit /\ [][IndexNext]_indexVars

-----------------------------------------------------------------------------
\* Whatever calls overlap, the files behind the graph a call answers from
\* were read after the call began, also when another call built the graph
\* (refactor_rename.py:392-396, refs.py:90-94); its registries, which a build
\* reads first, may be older.
IndexFilesAreCurrent ==
  \A c \in IndexCalls :
    indexCall[c].pc = "done" => indexCall[c].seen["files"] >= indexCall[c].since["files"]
=============================================================================
