------------------------------ MODULE MCComponents ------------------------------
(***************************************************************************)
(* The components that share no state with each other or with the          *)
(* mutation pipeline, each on an instance of its own: `part' says which    *)
(* one a behaviour is about, and the others do not move.                   *)
(***************************************************************************)
EXTENDS DiskStores, OAuthProvider, ActivityLog, EntityTools,
        HelperTools, TwoPhaseTools, EsphomeBuilds, DatabasePool, BrowserCapture, PatchTools,
        RenamePlan, RequestIndex, ReferenceGraph

VARIABLE part

Parts == {"stores", "oauth", "log", "entities", "helpers", "tools",
          "esphome", "database", "captures", "patches", "renames", "index", "graph"}

FirstIds == CHOOSE f \in [Uids -> EntityIds] : IsInjective(f)
FirstRefs == [p \in Places |-> CHOOSE id \in EntityIds : TRUE]
FirstEntities == {[uid |-> u, id |-> FirstIds[u], on |-> TRUE] : u \in Uids}

(* Slugs are interchangeable: the first helper may have any.  Home         *)
(* Assistant's slug of a name is looked at when a helper is made, so the   *)
(* names of those that are there need no two.  One made in YAML is first.  *)
FirstSlug == CHOOSE s \in Slugs : TRUE

(* Whatever does not move starts in one of its initial states; names that  *)
(* are interchangeable are given out in one way.  The index is asked for   *)
(* what lies in places the plan does not read; only these need be without. *)
ComponentsInit ==
  /\ part \in Parts
  /\ (part # "stores" => store = CHOOSE s \in Stores : TRUE) /\ StoreInit
  /\ OAuthInit
  /\ LogInit
  /\ (part # "entities" => entities = FirstEntities /\ refs = FirstRefs) /\ EntityInit
     /\ {<<r.uid, r.id>> : r \in entities} = {<<u, FirstIds[u]>> : u \in Uids}
  /\ (part # "helpers" => helpers = {}) /\ HelperInit
     /\ \A r \in helpers : SlugsAgree(r.name) /\ IF r.hid = 1 THEN r.eid[1] = FirstSlug ELSE ~r.yaml
  /\ ToolsInit /\ (part # "tools" => core /\ watchdog)
  /\ EsphomeInit
  /\ (part # "database" => backend = "sqlite") /\ DbInit
  /\ CaptureInit
  /\ (part # "patches" => file = <<>>) /\ PatchInit
  /\ (part # "graph" => installed = {} /\ asList = TRUE /\ registered = {} /\ skipped = {} /\ unparsable = {})
     /\ GraphInit
  /\ (part # "renames" => place = "yaml" /\ text = <<>> /\ readable = TRUE /\ live = "default" /\ indexed = TRUE) /\ RenameInit
     /\ (indexed \/ place \in {"registered", "custom", "included"})
  /\ IndexInit

(* Much happens early, or little late: all ids by second 4, or the first   *)
(* pair of a client until second 6.                                        *)
OAuthBound == ids + second <= 9

ComponentsNext ==
  /\ UNCHANGED part
  /\ IF part = "stores" THEN StoreNext ELSE UNCHANGED storeVars
  /\ IF part = "oauth" THEN OAuthNext /\ OAuthBound' ELSE UNCHANGED oauthVars
  /\ IF part = "log" THEN LogNext ELSE UNCHANGED logVars
  /\ IF part = "entities" THEN EntityNext ELSE UNCHANGED entityVars
  /\ IF part = "helpers" THEN HelperNext ELSE UNCHANGED helperVars
  /\ IF part = "tools" THEN ToolsNext ELSE UNCHANGED toolsVars
  /\ IF part = "esphome" THEN EsphomeNext ELSE UNCHANGED esphomeVars
  /\ IF part = "database" THEN DbNext ELSE UNCHANGED dbVars
  /\ IF part = "captures" THEN CaptureNext ELSE UNCHANGED captureVars
  /\ IF part = "patches" THEN PatchNext ELSE UNCHANGED patchVars
  /\ IF part = "renames" THEN RenameNext ELSE UNCHANGED renameVars
  /\ IF part = "index" THEN IndexNext ELSE UNCHANGED indexVars
  /\ IF part = "graph" THEN GraphNext ELSE UNCHANGED graphVars

componentsVars ==
  <<part, storeVars, oauthVars, logVars, entityVars, helperVars, toolsVars, esphomeVars,
    dbVars, captureVars, patchVars, renameVars, indexVars, graphVars>>

ComponentsSpec == ComponentsInit /\ [][ComponentsNext]_componentsVars

================================================================================
