---------------------------- MODULE ReferenceGraph ----------------------------
(***************************************************************************)
(* refindex/builder.py, over the loader of utils/ha_yaml.py: which lines   *)
(* of an installation that name an entity get an edge in the reference     *)
(* graph, by which passes.                                                 *)
(*                                                                         *)
(* A line stands in a section of a file and names the entity or, in an     *)
(* !include, another file.  A walk is the lines that lead from a file,     *)
(* through its includes, to one that names the entity.                     *)
(***************************************************************************)
EXTENDS Naturals, FiniteSets, Sequences, SequencesExt

CONSTANTS
  OtherFiles,   \* YAML files beside configuration.yaml and automations.yaml
  MaxRefLines   \* bound on the lines

ASSUME GraphAssumption ==
  /\ MaxRefLines \in Nat
  /\ IsFiniteSet(OtherFiles) /\ OtherFiles \cap {"configuration", "automations", "entity"} = {}

VARIABLES
  installed,  \* the installation: its lines,
  asList,     \* whether its automations are a list,
  registered, \* YAML dashboards that configuration.yaml registers,
  skipped,    \* files in directories the scan skips,
  unparsable, \* files with a syntax error
  graph       \* what build_index has made

graphVars == <<installed, asList, registered, skipped, unparsable, graph>>

YamlFiles == {"configuration", "automations"} \cup OtherFiles
NoGraph == [built |-> FALSE, raised |-> FALSE, edges |-> {}]

Mentioning == {l \in installed : l.names = "entity"}

-----------------------------------------------------------------------------
\* HaYamlLoader: includes are followed line after line, but not into a file
\* that is being loaded already.  A file may be included from several places.
Chains(f) ==
  {c \in UNION {[1 .. n -> installed] : n \in 1 .. Cardinality(YamlFiles)} :
     /\ c[1].file = f
     /\ \A i \in 1 .. Len(c) - 1 : c[i].names = c[i + 1].file
     /\ \A i, j \in DOMAIN c : c[i].file = c[j].file => i = j}

Followed(f) == {c \in Chains(f) : Last(c).names \in YamlFiles \ {c[i].file : i \in DOMAIN c}}

\* The walks that loading a file makes, and the files it reads.
Load(f) == {c \in Chains(f) : Last(c) \in Mentioning}
Reads(f) == {f} \cup {Last(c).names : c \in Followed(f)}
ReadsAll(fs) == UNION {Reads(f) : f \in fs}

WalksIn(f, section) == {w \in Load(f) : w[1].section = section}
EdgesOf(pass, walks) == {[pass |-> pass, walk |-> w] : w \in walks}

\* Variant: automations.yaml is read whenever it is there.
StandaloneAlways == {"automations"}

\* _load_standalone_if_missing: automations.yaml is read beside a
\* configuration.yaml that does not include it.
Standalone == {"automations"} \ ReadsAll({"configuration"})

\* _index_yaml_layer: the list of automations, from wherever its items were
\* included, is walked; sections the builder has no walk for are not.
YamlLayerFiles == ReadsAll({"configuration"} \cup Standalone)
YamlLayer ==
  IF asList
  THEN EdgesOf("automation", WalksIn("configuration", "automation") \cup UNION {Load(f) : f \in Standalone})
  ELSE {}

\* _index_yaml_dashboards: of a registered dashboard its views.
DashboardFiles == ReadsAll(registered)
YamlDashboards == EdgesOf("dashboard", UNION {WalksIn(d, "views") : d \in registered})

\* What the loose scan leaves out as read before it.
CoveredFiles == YamlLayerFiles \cup DashboardFiles

\* _index_loose_yaml: every other file outside the skipped directories,
\* unless it cannot be parsed to its end.
LooseFiles == {f \in YamlFiles \ (CoveredFiles \cup skipped) : ReadsAll({f}) \cap unparsable = {}}
LooseYaml == EdgesOf("loose", UNION {Load(f) : f \in LooseFiles})

\* build_index.  A syntax error in a file of the YAML layer or of a dashboard
\* ends the build.
BuildIndex ==
  /\ ~graph.built
  /\ graph' = IF unparsable \cap CoveredFiles # {}
              THEN [NoGraph EXCEPT !.built = TRUE, !.raised = TRUE]
              ELSE [NoGraph EXCEPT !.built = TRUE, !.edges = YamlLayer \cup YamlDashboards \cup LooseYaml]
  /\ UNCHANGED <<installed, asList, registered, skipped, unparsable>>

\* Installations: configuration.yaml is included by nobody and includes into
\* its own sections; dashboards have sections of theirs.
SectionsOf(f) ==
  CASE f = "configuration" -> {"automation", "sensor"}
    [] f = "automations"   -> {"items"}
    [] OTHER               -> {"views", "templates"}
PossibleLines ==
  UNION {[file : {f}, section : SectionsOf(f), names : {"entity"} \cup (YamlFiles \ {"configuration", f})] :
           f \in YamlFiles}

GraphInit ==
  /\ installed \in UNION {kSubset(n, PossibleLines) : n \in 0 .. MaxRefLines}
  /\ asList \in BOOLEAN
  /\ registered \in SUBSET OtherFiles
  /\ skipped \in SUBSET OtherFiles
  /\ unparsable \in {{}} \cup {{f} : f \in YamlFiles}
  /\ graph = NoGraph

GraphNext == BuildIndex

GraphSpec == GraphInit /\ [][GraphNext]_graphVars

-----------------------------------------------------------------------------
\* Lines of sections the builder does not walk, and of files they lead to.
Unwalked ==
  {l \in installed : \/ l.section = "sensor"
                     \/ l.section \in {"automation", "items"} /\ ~asList
                     \/ l.section = "templates" /\ l.file \in registered}
OutOfSight == Unwalked \cup {l \in installed : l.file \in ReadsAll({u.names : u \in Unwalked} \cap YamlFiles)}

\* What must have been left alone by the passes before.
ReadBefore(pass) ==
  CASE pass = "automation" -> {"automation"}
    [] pass = "dashboard"  -> {}
    [] pass = "loose"      -> {"automation", "dashboard"}

\* A build that comes to its end has an edge for every line that names the
\* entity, in a file outside the skipped directories and in sight of one of
\* the passes, whatever includes lead there and whatever cycles they form;
\* and a file that is read because no pass before had read it was not also
\* walked as an include of a file read before (builder.py:68-70, 367-370,
\* 386, 999).
MentionsAreFoundOnce ==
  graph.built /\ ~graph.raised =>
    /\ \A l \in Mentioning \ OutOfSight :
         l.file \notin skipped /\ ReadsAll({l.file}) \cap unparsable = {}
           => \E e \in graph.edges : Last(e.walk) = l
    /\ \A d, e \in graph.edges :
         Len(d.walk) = 1 /\ d # e /\ e.pass \in ReadBefore(d.pass) => Last(d.walk) # Last(e.walk)
=============================================================================
