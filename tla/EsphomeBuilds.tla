----------------------------- MODULE EsphomeBuilds -----------------------------
(***************************************************************************)
(* tools/esphome.py: haops_esphome_build.  Compiles run in the builder's   *)
(* container, in one build directory per node; a call that stops waiting   *)
(* leaves its compile running there.                                       *)
(***************************************************************************)
EXTENDS Naturals

CONSTANTS
  Builders,  \* calls of the tool
  BuildNodes \* node configurations

VARIABLES
  build,    \* the calls
  locked,   \* mutation_lock("esphome:" + node)
  compiles, \* processes in the container: node, call, and whether they met another
  firmware  \* per node, whose compile the artifacts are from

esphomeVars == <<build, locked, compiles, firmware>>

NoBuild == [pc |-> "idle", node |-> "none", exit |-> "none", listed |-> "none", haunted |-> FALSE]

Gone == {"answered", "cancelled"}

OnNode(node) == {p \in compiles : p.node = node}

(* A config matches the name and a builder is running, or an error.        *)
StartBuild(c) ==
  /\ build[c].pc = "idle"
  /\ \E node \in BuildNodes : build' = [build EXCEPT ![c].pc = "found", ![c].node = node]
  /\ UNCHANGED <<locked, compiles, firmware>>

AnswerBuild(c) == build' = [build EXCEPT ![c].pc = "answered"]

(* locked() and the uncontended acquire have no await between them.        *)
AcquireOrRefuse(c) ==
  /\ build[c].pc = "found"
  /\ IF locked[build[c].node]
     THEN AnswerBuild(c) /\ UNCHANGED locked
     ELSE build' = [build EXCEPT ![c].pc = "locked"] /\ locked' = [locked EXCEPT ![build[c].node] = TRUE]
  /\ UNCHANGED <<compiles, firmware>>

Unlocked(c) == [locked EXCEPT ![build[c].node] = FALSE]

(* The Docker API refuses.                                                 *)
CompileFails(c) ==
  /\ build[c].pc = "locked"
  /\ AnswerBuild(c)
  /\ locked' = Unlocked(c)
  /\ UNCHANGED <<compiles, firmware>>

StartCompile(c) ==
  LET node == build[c].node
      others == OnNode(node)
  IN /\ build[c].pc = "locked"
     /\ build' = [build EXCEPT ![c].pc = "compiling",
                               ![c].haunted = \E p \in others : build[p.by].pc \in Gone]
     /\ compiles' = {IF p.node = node THEN [p EXCEPT !.met = TRUE] ELSE p : p \in compiles}
                      \cup {[node |-> node, by |-> c, met |-> others # {}]}
     /\ UNCHANGED <<locked, firmware>>

(* The builder's part: a failed compile leaves the artifacts alone.        *)
CompileEnds(c, ok) ==
  \E p \in compiles :
    /\ p.by = c
    /\ compiles' = compiles \ {p}
    /\ firmware' = [firmware EXCEPT ![p.node] = IF ~ok THEN @ ELSE IF p.met THEN "mixed" ELSE c]
    /\ build' = IF build[c].pc = "compiling"
                THEN [build EXCEPT ![c].pc = "compiled", ![c].exit = IF ok THEN "ok" ELSE "failed"]
                ELSE build
    /\ UNCHANGED locked

CompileTimesOut(c) ==
  /\ build[c].pc = "compiling"
  /\ build' = [build EXCEPT ![c].pc = "compiled", ![c].exit = "timedOut"]
  /\ UNCHANGED <<locked, compiles, firmware>>

(* Variant: the artifacts are listed when the lock has been given back.    *)
ListsLater(c) ==
  \/ /\ build[c].pc = "compiled"
     /\ build' = [build EXCEPT ![c].pc = "listing"]
     /\ locked' = Unlocked(c)
     /\ UNCHANGED <<compiles, firmware>>
  \/ /\ build[c].pc = "listing"
     /\ build' = [build EXCEPT ![c].pc = "answered", ![c].listed = firmware[build[c].node]]
     /\ UNCHANGED <<locked, compiles, firmware>>

(* _artifacts asks the container for one more command, under the lock.     *)
ListArtifacts(c) ==
  \/ /\ build[c].pc = "compiled"
     /\ build' = [build EXCEPT ![c].pc = "listing", ![c].listed = firmware[build[c].node]]
     /\ UNCHANGED <<locked, compiles, firmware>>
  \/ /\ build[c].pc = "listing"
     /\ AnswerBuild(c)
     /\ locked' = Unlocked(c)
     /\ UNCHANGED <<compiles, firmware>>

CancelBuild(c) ==
  /\ build[c].pc \in {"found", "locked", "compiling", "compiled", "listing"}
  /\ build' = [build EXCEPT ![c].pc = "cancelled"]
  /\ locked' = IF build[c].pc = "found" THEN locked ELSE Unlocked(c)
  /\ UNCHANGED <<compiles, firmware>>

EsphomeNext ==
  \E c \in Builders :
    \/ StartBuild(c) \/ AcquireOrRefuse(c) \/ CompileFails(c) \/ StartCompile(c)
    \/ CompileTimesOut(c) \/ ListArtifacts(c) \/ CancelBuild(c)
    \/ \E ok \in BOOLEAN : CompileEnds(c, ok)

EsphomeInit ==
  /\ build = [c \in Builders |-> NoBuild]
  /\ locked = [n \in BuildNodes |-> FALSE]
  /\ compiles = {}
  /\ firmware = [n \in BuildNodes |-> "old"]

EsphomeSpec == EsphomeInit /\ [][EsphomeNext]_esphomeVars

-----------------------------------------------------------------------------
(* A build that succeeds lists the artifacts of its own compile, whole,    *)
(* whatever other calls do meanwhile, unless a compile that an earlier     *)
(* call gave up was still running in the node's build directory.           *)
ListedIsOwn ==
  \A c \in Builders :
    build[c].pc = "answered" /\ build[c].exit = "ok" /\ ~build[c].haunted => build[c].listed = c
=============================================================================
