----------------------------- MODULE TwoPhaseTools -----------------------------
(***************************************************************************)
(* The tools that send a few commands to Home Assistant, the Supervisor,   *)
(* Docker or a shell and keep nothing of their own: shell, ws, service,    *)
(* docker, container, addon, system, user, device, zigbee, ergonomics,     *)
(* config_entry and db.  What differs from tool to tool is a row: what it  *)
(* takes from the token, its commands, and what it makes of the ways a     *)
(* command may end.  One preview and one call are followed; what the       *)
(* commands do is modelled for HA Core and its watchdog only.              *)
(***************************************************************************)
EXTENDS Naturals, Sequences, FiniteSets

CONSTANTS
  Whats,      \* what requests may name: a command, a slug, a user, a device
  MaxTokens   \* bound on the previews

ASSUME ToolsAssumption == MaxTokens \in Nat

VARIABLES
  tokens,   \* live tokens: tool and previewed request
  call,     \* the call being executed
  core,     \* is HA Core up?
  watchdog  \* does the Supervisor start it again?

toolsVars == <<tokens, call, core, watchdog>>

-----------------------------------------------------------------------------
(* Ways a command may end: executed and answered, refused, or with no      *)
(* answer in time or at all, executed or not.                              *)
Fates == {"done", "refused", "timeout", "dropped"}

(* What the handler does then: return an error at once ("stop"), log a     *)
(* failure and return ("audit"), note the error and go on ("next"), take   *)
(* it for done ("initiated"), or log the call and return that the command  *)
(* was given up ("abandoned").                                             *)
On(refused, timeout, dropped) == [refused |-> refused, timeout |-> timeout, dropped |-> dropped]

(* WebSocketClient and RestClient: any error of the first is a             *)
(* WebSocketError; the second raises RestClientError for a status, and     *)
(* what aiohttp raises otherwise passes through the handler.               *)
Stops   == On("stop", "stop", "stop")
Audits  == On("audit", "audit", "audit")
GoesOn  == On("next", "next", "next")

(* keys: what the details of its tokens hold and its confirmation asks     *)
(* for; binds: whether it compares them with the call's arguments, acts    *)
(* from the token, or acts from the call; `loose`: it compares these keys  *)
(* and takes the rest (working directory, user, time limit) from the call; *)
(* `lenient`: the call's arguments stand in for missing keys; `checked`:   *)
(* the token's action is compared; `flagged`: an answer that a command was *)
(* initiated says success: True as well.                                   *)
Tool(keys, binds, commands, on) ==
  [keys |-> keys, binds |-> binds, plain |-> commands, full |-> commands, on |-> on, token |-> TRUE,
   loose |-> FALSE, lenient |-> FALSE, checked |-> FALSE, flagged |-> FALSE, logsFirst |-> FALSE, honest |-> FALSE, verifies |-> FALSE]

Unasked(commands, on) == [Tool({}, "call", commands, on) EXCEPT !.token = FALSE]

ExecShell       == [Tool({"command"}, "compare", <<"run">>, On("stop", "abandoned", "stop")) EXCEPT !.loose = TRUE]
ContainerExec   == [Tool({"command", "container"}, "compare", <<"exec">>, On("stop", "abandoned", "stop"))
                      EXCEPT !.loose = TRUE]
DockerPrune     == [Tool({}, "call", <<"prune_images", "prune_cache">>, Stops) EXCEPT !.checked = TRUE]
DbExecute       == Tool({"sql"}, "compare", <<"execute">>, Stops)
DbPurge         == Unasked(<<"purge">>, Stops)
ServiceCall     == Unasked(<<"service">>, Stops)
WsCommand       == [Tool({"command_type"}, "token", <<"command">>, Audits) EXCEPT !.lenient = TRUE]

AddonRestart    == Tool({"slug"}, "call", <<"restart">>, GoesOn)
AddonUpdate     == [Tool({"slug"}, "compare", <<"update">>, Stops) EXCEPT !.logsFirst = TRUE]
SelfUpdate      == [AddonUpdate EXCEPT !.on = On("stop", "initiated", "initiated")]
SystemReload    == Unasked(<<"reload">>, Stops)
SystemRestart   == Tool({}, "call", <<"restart">>, On("stop", "initiated", "initiated"))
SystemBackup    == [Unasked(<<"supervisor_backup", "backup_create", "backup_full">>, On("next", "stop", "stop"))
                      EXCEPT !.honest = TRUE]
SystemCore      == [Tool({"core_action"}, "token", <<>>, On("next", "initiated", "initiated"))
                      EXCEPT !.lenient = TRUE, !.honest = TRUE, !.flagged = TRUE]

(* In full: with a password login, which is added when the user is there.  *)
UserCreate      == [Tool({"name", "group_ids"}, "token", <<"create">>, Audits)
                      EXCEPT !.full = <<"create", "login">>, !.honest = TRUE]
UserUpdate      == Tool({"user_id", "changes"}, "token", <<"update">>, Audits)
UserDelete      == Tool({"user_id"}, "token", <<"delete">>, Audits)
DeviceRemove    == [Tool({"device_id"}, "compare", <<"unlink">>, GoesOn)
                      EXCEPT !.full = <<"unlink", "unlink">>, !.checked = TRUE, !.honest = TRUE, !.verifies = TRUE]
ZhaReconfigure  == [Tool({"ieee"}, "token", <<"reconfigure">>, Audits) EXCEPT !.lenient = TRUE]
ZigbeeScan      == [Unasked(<<"scan">>, On("stop", "initiated", "stop")) EXCEPT !.flagged = TRUE]
AssignArea      == [Tool({"entity_ids", "area_id"}, "token", <<"update">>, GoesOn) EXCEPT !.full = <<"update", "update">>]
EntityCustomize == Tool({"entity_id", "changes"}, "token", <<"update">>, Stops)
IntegrationReload == Unasked(<<"reload">>, Stops)
Fire            == Unasked(<<"service">>, Stops)
FlowStart       == Unasked(<<"flow">>, Stops)
FlowStep        == Tool({"flow_id", "user_input"}, "token", <<"step">>, On("audit", "stop", "stop"))
FlowAbort       == Unasked(<<"abort">>, Stops)

Tools ==
  [exec_shell |-> ExecShell, container_exec |-> ContainerExec, docker_prune |-> DockerPrune, db_execute |-> DbExecute,
   db_purge |-> DbPurge, service_call |-> ServiceCall, ws_command |-> WsCommand, addon_restart |-> AddonRestart,
   addon_update |-> AddonUpdate, self_update |-> SelfUpdate, system_reload |-> SystemReload,
   system_restart |-> SystemRestart, system_backup |-> SystemBackup, system_core |-> SystemCore,
   user_create |-> UserCreate, user_update |-> UserUpdate, user_delete |-> UserDelete, device_remove |-> DeviceRemove,
   zha_reconfigure |-> ZhaReconfigure, zigbee_scan |-> ZigbeeScan, assign_area |-> AssignArea,
   entity_customize |-> EntityCustomize, integration_reload |-> IntegrationReload, flow_start |-> FlowStart,
   flow_step |-> FlowStep, flow_abort |-> FlowAbort, fire |-> Fire]

(* Variant: Core is stopped before the watchdog is told.                   *)
StopsFirst(what) ==
  CASE what = "stop"  -> <<"core_stop", "watchdog_off">>
    [] what = "start" -> <<"core_start", "watchdog_on">>
    [] OTHER          -> <<"core_restart">>

CoreSteps(what) ==
  CASE what = "stop"  -> <<"watchdog_off", "core_stop">>
    [] what = "start" -> <<"core_start", "watchdog_on">>
    [] OTHER          -> <<"core_restart">>

Commands(tool, request) ==
  IF tool = "system_core" THEN CoreSteps(request.what) ELSE Tools[tool][request.how]

(* Tools with arguments beside the one that says what to act on.           *)
TakesMore(row) == row.loose \/ (row.binds = "token" /\ Cardinality(row.keys) > 1)

Requests(tool) ==
  [what : IF tool = "system_core" THEN {"stop", "start", "restart"} ELSE Whats, how : {"plain", "full"},
   rest : IF TakesMore(Tools[tool]) THEN {"these", "others"} ELSE {"these"}]

Watchdogs == {"watchdog_off", "watchdog_on"}

(* The answers of the watchdog switch are kept for the report only, and    *)
(* without the Supervisor a backup is asked of Core.                       *)
Reaction(tool, command, fate) ==
  CASE command \in Watchdogs                           -> "ignore"
    [] command = "supervisor_backup"                  -> "next"
    [] tool = "user_create" /\ command = "login"      -> "next"
    [] OTHER                                          -> Tools[tool].on[fate]

-----------------------------------------------------------------------------
NoCall == [pc |-> "idle"]

PreviewTool ==
  /\ call = NoCall
  /\ Cardinality(tokens) < MaxTokens
  /\ \E tool \in DOMAIN Tools : \E request \in Requests(tool) :
       /\ Tools[tool].token
       /\ tokens' = tokens \cup {[tool |-> tool, request |-> request]}
  /\ UNCHANGED <<call, core, watchdog>>

Begun(tool, token, own, request) ==
  [pc |-> "commands", tool |-> tool, token |-> token, own |-> own, request |-> request,
   left |-> Commands(tool, request), executed |-> <<>>, errors |-> FALSE, initiated |-> FALSE, refused |-> FALSE,
   answered |-> TRUE, logged |-> IF Tools[tool].logsFirst THEN "success" ELSE "no", answer |-> "none"]

(* Variant: the token is claimed and its details left alone.               *)
AnyToken(tool, token, own) == TRUE

(* compare: details.get(key) == argument; a missing key never is equal.    *)
Accepted(tool, token, own) ==
  LET row == Tools[tool]
      has == row.keys \subseteq Tools[token.tool].keys
  IN /\ row.checked => token.tool = tool
     /\ row.binds = "compare" =>
          has /\ token.request.what = own.what /\ (row.loose \/ token.request.rest = own.rest)
     /\ row.binds = "token" => has \/ row.lenient

Effective(tool, token, own) ==
  IF Tools[tool].binds = "token" /\ Tools[tool].keys \subseteq Tools[token.tool].keys THEN token.request ELSE own

ConfirmTool ==
  /\ call = NoCall
  /\ \E tool \in DOMAIN Tools, token \in tokens : \E own \in Requests(tool) :
       /\ Tools[tool].token
       /\ tokens' = tokens \ {token}
       /\ call' = IF Accepted(tool, token, own)
                  THEN Begun(tool, token, own, Effective(tool, token, own))
                  ELSE [Begun(tool, token, own, own) EXCEPT !.pc = "ended", !.logged = "no", !.answer = "error"]
  /\ UNCHANGED <<core, watchdog>>

CallUnasked ==
  /\ call = NoCall
  /\ \E tool \in DOMAIN Tools : \E own \in Requests(tool) :
       ~Tools[tool].token /\ call' = Begun(tool, [tool |-> tool, request |-> own], own, own)
  /\ UNCHANGED <<tokens, core, watchdog>>

(* What the call's arguments name is looked up before the token is claimed *)
(* and may be missing, up to date already, or the owner of the house.      *)
NotFound ==
  /\ call = NoCall
  /\ \E tool \in DOMAIN Tools : \E own \in Requests(tool) :
       /\ tool \in {"addon_restart", "addon_update", "self_update", "user_update", "user_delete", "zha_reconfigure",
                    "flow_abort"}
       /\ call' = [Begun(tool, [tool |-> tool, request |-> own], own, own) EXCEPT !.pc = "ended", !.logged = "no", !.answer = "error"]
  /\ UNCHANGED <<tokens, core, watchdog>>

(* The Supervisor's part.                                                  *)
CoreAfter(command) ==
  /\ core' = CASE command = "core_stop" -> FALSE
               [] command \in {"core_start", "core_restart"} -> TRUE
               [] OTHER -> core
  /\ watchdog' = (command = "watchdog_on" \/ (watchdog /\ command # "watchdog_off"))

Revive ==
  /\ ~core /\ watchdog
  /\ core' = TRUE
  /\ UNCHANGED <<tokens, call, watchdog>>

Ended(c, logged, answer) ==
  [c EXCEPT !.pc = "ended", !.logged = IF @ = "no" THEN logged ELSE @, !.answer = answer]

(* What the call becomes when a command has ended.                         *)
After(c, fate) ==
  LET command == Head(c.left)
      reaction == IF fate = "done" THEN "done" ELSE Reaction(c.tool, command, fate)
      onward == [c EXCEPT !.left = IF c.tool = "system_backup" /\ reaction = "done" THEN <<>> ELSE Tail(@),
                          !.answered = @ /\ fate = "done",
                          !.refused = @ \/ (fate = "refused" /\ command \notin Watchdogs)]
  IN CASE reaction = "stop"      -> Ended(c, "no", "error")
       [] reaction = "audit"     -> Ended(c, "failure", "error")
       [] reaction = "abandoned" -> Ended(c, "success", "error")
       [] reaction = "next"      -> [onward EXCEPT !.errors = TRUE]
       [] reaction = "initiated" -> [onward EXCEPT !.initiated = TRUE]
       [] reaction = "done" /\ c.tool = "system_backup" -> [onward EXCEPT !.errors = FALSE]
       [] OTHER                  -> onward

RunCommand ==
  /\ call.pc = "commands"
  /\ call.left # <<>>
  /\ \E fate \in Fates, executed \in BOOLEAN :
       /\ fate = "done" => executed
       /\ fate = "refused" => ~executed
       /\ LET after == After(call, fate)
              command == Head(call.left)
          IN /\ call' = IF executed THEN [after EXCEPT !.executed = Append(@, command)] ELSE after
             /\ IF executed THEN CoreAfter(command) ELSE UNCHANGED <<core, watchdog>>
  /\ UNCHANGED tokens

(* success defaults to true; some tools say how it went.                   *)
Logs(c, clean) == IF Tools[c.tool].honest /\ ~clean THEN "failure" ELSE "success"

(* Variant: errors are collected and nobody looks at them.                 *)
AlwaysFine(c, clean) == IF c.initiated THEN "initiated" ELSE "success"

(* success: True, alone or beside status: "initiated", or that status      *)
(* alone, which is all that self_update ever answers.                      *)
Answers(c, clean) ==
  IF ~clean THEN "error"
  ELSE IF ~c.initiated /\ c.tool # "self_update" THEN "success"
  ELSE IF Tools[c.tool].flagged THEN "success and initiated" ELSE "initiated"

(* device_remove reads the registry again; a device that still has other   *)
(* entries stays.                                                          *)
EndCall ==
  /\ call.pc = "commands"
  /\ call.left = <<>>
  /\ \E gone \in BOOLEAN :
       /\ ~gone => Tools[call.tool].verifies
       /\ LET clean == ~call.errors /\ gone
          IN call' = Ended(call, Logs(call, clean), Answers(call, clean))
  /\ UNCHANGED <<tokens, core, watchdog>>

(* A command that stops the server itself: there is no step after it.      *)
Killed ==
  /\ call.pc = "commands"
  /\ call.left # <<>>
  /\ call.tool \in {"addon_restart", "self_update"}
  /\ CoreAfter(Head(call.left))
  /\ call' = [call EXCEPT !.pc = "killed", !.executed = call.left]
  /\ tokens' = {}

ToolsNext == PreviewTool \/ ConfirmTool \/ CallUnasked \/ NotFound \/ RunCommand \/ EndCall \/ Killed \/ Revive

ToolsInit ==
  /\ tokens = {}
  /\ call = NoCall
  /\ core \in BOOLEAN
  /\ watchdog \in BOOLEAN

ToolsSpec == ToolsInit /\ [][ToolsNext]_toolsVars

-----------------------------------------------------------------------------
Over == call.pc = "ended"

(* A call that presents a token of its own tool does what the token's      *)
(* preview named, whatever its own arguments say by now.  The rest of its  *)
(* arguments is what the preview showed too, but for the loose tools:      *)
(* exec_shell and container_exec compare the command (and the container)   *)
(* only, and run it where, as whom and for as long as the confirming call  *)
(* says.                                                                   *)
OnlyTheShownIsDone ==
  call # NoCall /\ call.executed # <<>> /\ call.token.tool = call.tool /\ Tools[call.tool].binds # "call"
    => /\ call.request.what = call.token.request.what
       /\ ~Tools[call.tool].loose => call.request.rest = call.token.request.rest

(* The watchdog's answer is in the report and does not decide the outcome. *)
Essential(commands) == {commands[i] : i \in DOMAIN commands} \ Watchdogs

Done(tool, request, executed) ==
  CASE tool = "system_backup" -> executed # <<>>
    [] tool = "system_core"   -> Essential(executed) = Essential(Commands(tool, request))
    [] OTHER                  -> executed = Commands(tool, request)

(* success: True that is not marked "initiated" is answered when all that  *)
(* was asked for was executed, though replies may be lost, commands        *)
(* refused, and loops go on after errors.  Marked so (system_core and      *)
(* zigbee_scan, when no reply came) it does not say that anything was      *)
(* executed, only that no command whose answer counts was refused.         *)
SuccessMeansDone ==
  Over =>
    /\ call.answer = "success" => Done(call.tool, call.request, call.executed)
    /\ call.answer = "success and initiated" => ~call.refused

(* haops_system_core(stop), every step of which was answered, leaves Core  *)
(* down with nobody to revive it, however the Supervisor's watchdog        *)
(* interleaves; start leaves it up and guarded.                            *)
CoreIsAsAsked ==
  Over /\ call.tool = "system_core" /\ call.answered /\ call.answer = "success"
    => CASE call.request.what = "stop"  -> ~core /\ ~watchdog
         [] call.request.what = "start" -> core /\ watchdog
         [] OTHER                       -> core

=============================================================================
