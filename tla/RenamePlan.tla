------------------------------ MODULE RenamePlan ------------------------------
(***************************************************************************)
(* refactor_rename.py: haops_entity_rename plans, for a mapping of old to  *)
(* new entity ids, what to rewrite in YAML files and dashboards and what   *)
(* to show for manual review.                                              *)
(*                                                                         *)
(* A text is a sequence of references [form, id]: "id" (the bare id),      *)
(* "states" (the template form states.<id>), "dotted" (the id as the tail  *)
(* of a longer dotted name, which is no reference to it) and, in           *)
(* dashboards, "key" (the key of a map).  One place holds the text; the    *)
(* places are planned independently of each other.                         *)
(***************************************************************************)
EXTENDS Naturals, FiniteSets, Sequences

CONSTANTS
  RefIds,       \* entity ids
  MaxRefs       \* bound on the references in a text

ASSUME RenameAssumption == MaxRefs \in Nat

VARIABLES place, text, readable, live, indexed, mapping, plan

renameVars == <<place, text, readable, live, indexed, mapping, plan>>

(* Where references live: "yaml", a YAML file in the scanned part of the   *)
(* config directory; in a skipped directory, "registered", a dashboard     *)
(* that configuration.yaml registers, and "included", a file that one in   *)
(* the scanned part includes; "dash", a storage dashboard; "esphome", a    *)
(* node's YAML; "energy", .storage/energy; "custom", source that nothing   *)
(* scans.                                                                  *)
RefPlaces == {"yaml", "registered", "included", "dash", "esphome", "energy", "custom"}

Mentions(refs) == {refs[i].id : i \in {j \in DOMAIN refs : refs[j].form # "dotted"}}

-----------------------------------------------------------------------------
\* Rewriter.apply: the template form first, then the bare ids.
AttrForms == {"states"}
PlainFormsDotted == {"id", "key", "states"}
PlainForms == {"id", "key"}

Hit(ref, forms, m) == ref.form \in forms /\ ref.id \in DOMAIN m
Substituted(refs, forms, m) ==
  [i \in DOMAIN refs |-> IF Hit(refs[i], forms, m) THEN [refs[i] EXCEPT !.id = m[@]] ELSE refs[i]]
Hits(refs, forms, m) == Cardinality({i \in DOMAIN refs : Hit(refs[i], forms, m)})

Applied(refs, m) == Substituted(Substituted(refs, AttrForms, m), PlainForms, m)
Counted(refs, m) ==
  Hits(refs, AttrForms, m) + Hits(Substituted(refs, AttrForms, m), PlainForms, m)

\* Rewriter.apply_structure: a later key replaces an equal earlier one, and
\* the others keep their places.
AppliedToMap(refs, m) ==
  LET new  == Applied(refs, m)
      kept == {i \in DOMAIN new :
                 new[i].form = "key" => \A j \in DOMAIN new : j > i => new[j] # new[i]}
  IN [i \in kept |-> new[i]]

-----------------------------------------------------------------------------
\* _dashboard_url_paths: the url_path of the dashboard the live list has for
\* the storage file; that of the default dashboard is known without asking.
\* The file's name does not tell it: "-" becomes "_".
NoUrl == ""
HomeUrl == IF live = "default" THEN "lovelace" ELSE "lovelace-home"
UrlFromFile == IF live = "default" THEN "lovelace" ELSE "lovelace_home"
UrlOf == IF live \in {"default", "listed"} THEN HomeUrl ELSE NoUrl

\* The files and dashboards the plan goes through; "including" is the file
\* that includes an included one.
FilesScanned == {"yaml"} \cap {place}
DashboardsScanned == {"dash"} \cap {place}

\* A file that could not be read is not covered, a dashboard is.
Covered == {"including"} \cup (IF readable THEN FilesScanned ELSE {}) \cup DashboardsScanned

\* Where the index says a reference stands: it does not follow includes.
EdgeLocation(p) == IF p = "included" THEN "including" ELSE p

Found(m) == IF readable /\ Counted(text, m) > 0 THEN {place} ELSE {}

FileRewrites(m) ==
  {[place |-> p, url |-> NoUrl, hits |-> Counted(text, m), new |-> Applied(text, m)] :
     p \in FilesScanned \cap Found(m)}
DashboardRewrites(m) ==
  {[place |-> p, url |-> UrlOf, hits |-> Counted(text, m), new |-> AppliedToMap(text, m)] :
     p \in {q \in DashboardsScanned \cap Found(m) : UrlOf # NoUrl}}

\* _scan_report_only and the dashboards nobody lists.
ReportOnly(m) ==
  (Found(m) \cap {"esphome", "energy"}) \cup {p \in DashboardsScanned \cap Found(m) : UrlOf = NoUrl}

\* _index_refs_outside: what the index places in a file the plan does not
\* read.  A build that raises (a syntax error in configuration.yaml, in a
\* dashboard, or in what one of them includes) is no index, and none is missed.
IndexRefsOutside(m) ==
  {p \in {"yaml", "registered", "included", "dash"} \cap {place} :
     indexed /\ readable /\ EdgeLocation(p) \notin Covered /\ DOMAIN m \cap Mentions(text) # {}}

\* plan_reference_rewrites.
PlanReferenceRewrites ==
  /\ mapping = <<>>
  /\ \E olds \in SUBSET RefIds \ {{}} :
       \E m \in {f \in [olds -> RefIds] : \A x, y \in olds : f[x] # x /\ (f[x] = f[y] => x = y)} :
         /\ mapping' = m
         /\ plan' = [rewrites |-> FileRewrites(m) \cup DashboardRewrites(m),
                     review   |-> ReportOnly(m) \cup IndexRefsOutside(m)]
  /\ UNCHANGED <<place, text, readable, live, indexed>>

RenameInit ==
  /\ place \in RefPlaces
  /\ \E n \in 0 .. MaxRefs :
       text \in [1 .. n -> [form : {"id", "states", "dotted"} \cup
                                     (IF place = "dash" THEN {"key"} ELSE {}), id : RefIds]]
  /\ \A i, j \in DOMAIN text : text[i].form = "key" /\ text[j] = text[i] => i = j
  /\ readable \in BOOLEAN
  /\ live \in {"default", "listed", "removed", "unavailable"}
  /\ indexed \in BOOLEAN
  /\ mapping = <<>>
  /\ plan = [rewrites |-> {}, review |-> {}]

RenameNext == PlanReferenceRewrites

RenameSpec == RenameInit /\ [][RenameNext]_renameVars

-----------------------------------------------------------------------------
RenamePlanned == mapping # <<>>

\* Every old id that a readable place mentions is rewritten there or shown
\* for review, but for the source the plan's notes exclude, for files of
\* skipped directories that are reached by an include only, and, when the
\* index could not be built, for dashboards in skipped directories, which
\* only the index would have shown; a dashboard is rewritten under the
\* url_path it was read from, and a rewrite counts what it changes
\* (refactor_rename.py:349-353, 375-485).
PlanAccountsForReferences ==
  RenamePlanned =>
    /\ (/\ readable /\ DOMAIN mapping \cap Mentions(text) # {}
        /\ place \notin {"custom", "included"}
        /\ indexed \/ place # "registered")
       => place \in plan.review \cup {r.place : r \in plan.rewrites}
    /\ \A r \in plan.rewrites :
         /\ r.place = "dash" => r.url = HomeUrl
         /\ r.hits = Cardinality({i \in DOMAIN text :
                        text[i].form # "dotted" /\ text[i].id \in DOMAIN mapping})

\* A rename of several ids at once, swapped or chained, is one simultaneous
\* substitution: mapped back it gives the text the plan read, provided no new
\* id was mentioned there already (refactor_rename.py:92-97).
RewriteReverses ==
  \A r \in plan.rewrites :
    LET new == {mapping[x] : x \in DOMAIN mapping}
        back == [y \in new |-> CHOOSE x \in DOMAIN mapping : mapping[x] = y]
    IN new \cap Mentions(text) \subseteq DOMAIN mapping => Applied(r.new, back) = text
=============================================================================
