------------------------------ MODULE ToolsProofs ------------------------------
(***************************************************************************)
(* What the tools that send commands do is what was shown, what success    *)
(* says was done, and Core is left as it was asked, for any requests and   *)
(* any number of previews.  A helper tool answers with the id the helper   *)
(* has and leaves the others alone; toggles and renames of entities are    *)
(* undone whole, and references are moved after the entity.                *)
(***************************************************************************)
EXTENDS TwoPhaseTools, HelperTools, EntityTools, FiniteSetTheorems, TLAPS

Wants == [what : Whats \cup {"stop", "start", "restart"}, how : {"plain", "full"}, rest : {"these", "others"}]
Tokens == [tool : DOMAIN Tools, request : Wants]

(* The commands of the tables, and Core's.                                 *)
Sent ==
  {"abort", "backup_create", "backup_full", "command", "create", "delete", "exec", "execute",
   "flow", "login", "prune_cache", "prune_images", "purge", "reconfigure", "reload", "restart",
   "run", "scan", "service", "step", "supervisor_backup", "unlink", "update"}

Words == Sent \cup Watchdogs \cup {"core_stop", "core_start", "core_restart"}

Calls ==
  [pc : {"commands", "ended", "killed"}, tool : DOMAIN Tools, token : Tokens, own : Wants, request : Wants,
   left : Seq(Words), executed : Seq(Words), errors : BOOLEAN, initiated : BOOLEAN, refused : BOOLEAN,
   answered : BOOLEAN,
   logged : {"no", "success", "failure"},
   answer : {"none", "error", "success", "initiated", "success and initiated"}]

ToolsTypeOK ==
  /\ tokens \subseteq Tokens
  /\ call = NoCall \/ call \in Calls
  /\ core \in BOOLEAN
  /\ watchdog \in BOOLEAN

(* What a call may send for has not drifted from what its token showed.    *)
Shown(c) ==
  (c.pc = "commands" \/ c.executed # <<>>) /\ c.token.tool = c.tool /\ Tools[c.tool].binds # "call"
    => /\ c.request.what = c.token.request.what
       /\ ~Tools[c.tool].loose => c.request.rest = c.token.request.rest

(* As long as nothing went wrong, what was executed and what is left are   *)
(* together what was asked; a backup has not been given up.                *)
BackupGoesOn(c) == c.tool = "system_backup" => c.left # <<>> \/ c.executed # <<>>

CoreGoesOn(c) ==
  c.tool = "system_core" => Essential(c.executed) \cup Essential(c.left) = Essential(Commands(c.tool, c.request))

OthersGoOn(c) ==
  c.tool \notin {"system_backup", "system_core"} => c.executed \o c.left = Commands(c.tool, c.request)

OnCourse(c) ==
  c.pc = "commands" /\ ~c.errors /\ ~c.initiated => BackupGoesOn(c) /\ CoreGoesOn(c) /\ OthersGoOn(c)

(* Only Core's commands concern the watchdog.                              *)
Unguarded(c) == c.pc = "commands" /\ c.tool # "system_core" => c.left \in Seq(Sent)

(* A refused command is an error that stays, unless another way to a       *)
(* backup is found.                                                        *)
RefusalsCount(c) == c.pc = "commands" /\ c.refused => c.errors \/ c.tool = "system_backup"

Succeeded(c) ==
  c.pc = "ended" =>
    /\ c.answer = "success" => Done(c.tool, c.request, c.executed)
    /\ c.answer = "success and initiated" => ~c.refused

(* Where Core and its watchdog are, given what is still to be sent.        *)
Stopping(left, up, guarded) ==
  \/ left = <<"watchdog_off", "core_stop">>
  \/ left = <<"core_stop">> /\ ~guarded
  \/ left = <<>> /\ ~up /\ ~guarded

Starting(left, up, guarded) ==
  \/ left = <<"core_start", "watchdog_on">>
  \/ left = <<"watchdog_on">> /\ up
  \/ left = <<>> /\ up /\ guarded

Restarting(left, up) == left = <<"core_restart">> \/ (left = <<>> /\ up)

Brought(what, left, up, guarded) ==
  /\ what = "stop" => Stopping(left, up, guarded)
  /\ what = "start" => Starting(left, up, guarded)
  /\ what \notin {"stop", "start"} => Restarting(left, up)

CoreOnCourse(c, up, guarded) ==
  c.tool = "system_core" /\ c.answered =>
    /\ c.pc = "commands" => Brought(c.request.what, c.left, up, guarded)
    /\ c.pc = "ended" /\ c.answer = "success" => Brought(c.request.what, <<>>, up, guarded)

CallOK(c) == Shown(c) /\ OnCourse(c) /\ Unguarded(c) /\ RefusalsCount(c) /\ Succeeded(c)

ToolsInv ==
  /\ ToolsTypeOK
  /\ call # NoCall => CallOK(call) /\ CoreOnCourse(call, core, watchdog)

--------------------------------------------------------------------------------
(* The rows: what a reader of the tables sees at a glance.                 *)
Reactions == {"stop", "audit", "next", "initiated", "abandoned"}

RowOK(r) ==
  /\ r.plain \in Seq(Sent) /\ r.full \in Seq(Sent)
  /\ r.on.refused \in Reactions \ {"initiated"} /\ r.on.timeout \in Reactions /\ r.on.dropped \in Reactions
  /\ r.binds \in {"compare", "token", "call"}

LEMMA OneCommand ==
  ASSUME NEW S, NEW a \in S
  PROVE  <<a>> \in Seq(S)
OBVIOUS

LEMMA TwoCommands ==
  ASSUME NEW S, NEW a \in S, NEW b \in S
  PROVE  <<a, b>> \in Seq(S)
OBVIOUS

LEMMA ThreeCommands ==
  ASSUME NEW S, NEW a \in S, NEW b \in S, NEW c \in S
  PROVE  <<a, b, c>> \in Seq(S)
OBVIOUS

LEMMA RowsHaveTheirForm ==
  ASSUME NEW t \in DOMAIN Tools
  PROVE  RowOK(Tools[t])
<1>1. \A a \in Sent : <<a>> \in Seq(Sent)
  BY OneCommand
<1>2. \A a, b \in Sent : <<a, b>> \in Seq(Sent)
  BY TwoCommands
<1>3. \A a, b, c \in Sent : <<a, b, c>> \in Seq(Sent)
  BY ThreeCommands
<1>4. <<>> \in Seq(Sent)
  OBVIOUS
<1>5. RowOK(ExecShell)
  BY <1>1 DEF RowOK, Reactions, Sent, ExecShell, Tool, On
<1>6. RowOK(ContainerExec)
  BY <1>1 DEF RowOK, Reactions, Sent, ContainerExec, Tool, On
<1>7. RowOK(DockerPrune)
  BY <1>2 DEF RowOK, Reactions, Sent, DockerPrune, Tool, Stops, On
<1>8. RowOK(DbExecute)
  BY <1>1 DEF RowOK, Reactions, Sent, DbExecute, Tool, Stops, On
<1>9. RowOK(DbPurge)
  BY <1>1 DEF RowOK, Reactions, Sent, DbPurge, Unasked, Stops, Tool, On
<1>10. RowOK(ServiceCall)
  BY <1>1 DEF RowOK, Reactions, Sent, ServiceCall, Unasked, Stops, Tool, On
<1>11. RowOK(WsCommand)
  BY <1>1 DEF RowOK, Reactions, Sent, WsCommand, Tool, Audits, On
<1>12. RowOK(AddonRestart)
  BY <1>1 DEF RowOK, Reactions, Sent, AddonRestart, Tool, GoesOn, On
<1>13. RowOK(AddonUpdate)
  BY <1>1 DEF RowOK, Reactions, Sent, AddonUpdate, Tool, Stops, On
<1>14. RowOK(SelfUpdate)
  BY <1>1 DEF RowOK, Reactions, Sent, SelfUpdate, On, AddonUpdate, Tool, Stops
<1>15. RowOK(SystemReload)
  BY <1>1 DEF RowOK, Reactions, Sent, SystemReload, Unasked, Stops, Tool, On
<1>16. RowOK(SystemRestart)
  BY <1>1 DEF RowOK, Reactions, Sent, SystemRestart, Tool, On
<1>17. RowOK(SystemBackup)
  BY <1>3 DEF RowOK, Reactions, Sent, SystemBackup, Unasked, On, Tool
<1>18. RowOK(SystemCore)
  BY <1>4 DEF RowOK, Reactions, Sent, SystemCore, Tool, On
<1>19. RowOK(UserCreate)
  BY <1>1, <1>2 DEF RowOK, Reactions, Sent, UserCreate, Tool, Audits, On
<1>20. RowOK(UserUpdate)
  BY <1>1 DEF RowOK, Reactions, Sent, UserUpdate, Tool, Audits, On
<1>21. RowOK(UserDelete)
  BY <1>1 DEF RowOK, Reactions, Sent, UserDelete, Tool, Audits, On
<1>22. RowOK(DeviceRemove)
  BY <1>1, <1>2 DEF RowOK, Reactions, Sent, DeviceRemove, Tool, GoesOn, On
<1>23. RowOK(ZhaReconfigure)
  BY <1>1 DEF RowOK, Reactions, Sent, ZhaReconfigure, Tool, Audits, On
<1>24. RowOK(ZigbeeScan)
  BY <1>1 DEF RowOK, Reactions, Sent, ZigbeeScan, Unasked, On, Tool
<1>25. RowOK(AssignArea)
  BY <1>1, <1>2 DEF RowOK, Reactions, Sent, AssignArea, Tool, GoesOn, On
<1>26. RowOK(EntityCustomize)
  BY <1>1 DEF RowOK, Reactions, Sent, EntityCustomize, Tool, Stops, On
<1>27. RowOK(IntegrationReload)
  BY <1>1 DEF RowOK, Reactions, Sent, IntegrationReload, Unasked, Stops, Tool, On
<1>28. RowOK(Fire)
  BY <1>1 DEF RowOK, Reactions, Sent, Fire, Unasked, Stops, Tool, On
<1>29. RowOK(FlowStart)
  BY <1>1 DEF RowOK, Reactions, Sent, FlowStart, Unasked, Stops, Tool, On
<1>30. RowOK(FlowStep)
  BY <1>1 DEF RowOK, Reactions, Sent, FlowStep, Tool, On
<1>31. RowOK(FlowAbort)
  BY <1>1 DEF RowOK, Reactions, Sent, FlowAbort, Unasked, Stops, Tool, On
<1> QED
  BY <1>5, <1>6, <1>7, <1>8, <1>9, <1>10, <1>11, <1>12, <1>13, <1>14, <1>15, <1>16, <1>17, <1>18, <1>19, <1>20, <1>21, <1>22, <1>23, <1>24, <1>25, <1>26, <1>27, <1>28, <1>29, <1>30, <1>31 DEF Tools

LEMMA BackupAndCore ==
  /\ Tools["system_backup"].plain # <<>> /\ Tools["system_backup"].full # <<>>
  /\ ~Tools["system_backup"].flagged
  /\ "system_core" \in DOMAIN Tools /\ "system_backup" \in DOMAIN Tools
<1>1. Tools["system_backup"] = SystemBackup
  BY DEF Tools
<1>2. "system_core" \in DOMAIN Tools /\ "system_backup" \in DOMAIN Tools
  BY DEF Tools
<1> QED
  BY <1>1, <1>2 DEF SystemBackup, Unasked, Tool

LEMMA CoreCommands ==
  ASSUME NEW what
  PROVE  /\ what = "stop" => CoreSteps(what) = <<"watchdog_off", "core_stop">>
         /\ what = "start" => CoreSteps(what) = <<"core_start", "watchdog_on">>
         /\ what \notin {"stop", "start"} => CoreSteps(what) = <<"core_restart">>
BY Zenon DEF CoreSteps

LEMMA CommandsForm ==
  ASSUME NEW t \in DOMAIN Tools, NEW r \in Wants
  PROVE  /\ Commands(t, r) \in Seq(Words)
         /\ t # "system_core" => Commands(t, r) \in Seq(Sent)
         /\ t = "system_backup" => Commands(t, r) # <<>>
<1>1. CASE t = "system_core"
  <2>1. Commands(t, r) = CoreSteps(r.what)
    BY <1>1 DEF Commands
  <2>2. \A a, b \in Words : <<a>> \in Seq(Words) /\ <<a, b>> \in Seq(Words)
    OBVIOUS
  <2>3. {"watchdog_off", "watchdog_on", "core_stop", "core_start", "core_restart"} \subseteq Words
    BY DEF Words, Watchdogs
  <2>4. CoreSteps(r.what) \in Seq(Words)
    BY <2>2, <2>3, CoreCommands
  <2> QED
    BY <1>1, <2>1, <2>4
<1>2. CASE t # "system_core"
  <2>1. Commands(t, r) = Tools[t].plain \/ Commands(t, r) = Tools[t].full
    BY <1>2 DEF Commands, Wants
  <2>2. Tools[t].plain \in Seq(Sent) /\ Tools[t].full \in Seq(Sent)
    BY RowsHaveTheirForm DEF RowOK
  <2>3. \A s \in Seq(Sent) : s \in Seq(Words)
    BY DEF Words
  <2> QED
    BY <1>2, <2>1, <2>2, <2>3, BackupAndCore
<1> QED
  BY <1>1, <1>2

LEMMA ReactionForm ==
  ASSUME NEW t \in DOMAIN Tools, NEW command, NEW fate \in Fates \ {"done"}
  PROVE  /\ command \in Watchdogs => Reaction(t, command, fate) = "ignore"
         /\ command \notin Watchdogs => Reaction(t, command, fate) \in Reactions
         /\ fate = "refused" => Reaction(t, command, fate) # "initiated"
<1>1. Tools[t].on[fate] \in Reactions /\ (fate = "refused" => Tools[t].on[fate] # "initiated")
  BY RowsHaveTheirForm DEF RowOK, Fates
<1>2. CASE command \in Watchdogs
  <2>1. Reaction(t, command, fate) = "ignore"
    BY <1>2, Zenon DEF Reaction, Watchdogs
  <2> QED
    BY <1>2, <2>1
<1>3. CASE command \notin Watchdogs
  <2>2. Reaction(t, command, fate) \in {"next", Tools[t].on[fate]}
    BY <1>3, Zenon DEF Reaction
  <2> QED
    BY <1>1, <1>3, <2>2 DEF Reactions
<1> QED
  BY <1>2, <1>3

(* What is left of a call when a command has ended: it is over with an     *)
(* error, or it goes on, and either way nothing else of it has changed.    *)
SameCall(c, d, e) ==
  /\ d.tool = c.tool /\ d.token = c.token /\ d.own = c.own /\ d.request = c.request
  /\ d.executed = e

GivenUp(c, d, e) == SameCall(c, d, e) /\ d.pc = "ended" /\ d.answer = "error"

GoneOn(c, d, e, fate) ==
  /\ SameCall(c, d, e)
  /\ d.pc = c.pc /\ d.answer = c.answer
  /\ d.answered = (c.answered /\ fate = "done")
  /\ d.left = Tail(c.left) \/ (c.tool = "system_backup" /\ fate = "done" /\ d.left = <<>>)
  /\ d.refused => c.refused \/ d.errors
  /\ ~d.initiated => ~c.initiated
  /\ ~d.errors => ~c.errors \/ (c.tool = "system_backup" /\ fate = "done")
  /\ ~d.errors /\ ~d.initiated => fate = "done" \/ Head(c.left) \in Watchdogs

OtherwiseSame(c, d) ==
  /\ d.tool = c.tool /\ d.token = c.token /\ d.own = c.own /\ d.request = c.request
  /\ d.executed = c.executed /\ d.pc = c.pc /\ d.answer = c.answer /\ d.left = c.left
  /\ d.answered = c.answered /\ d.refused = c.refused

LEMMA NoteOnCall ==
  ASSUME NEW c \in Calls, NEW b \in BOOLEAN
  PROVE  /\ [c EXCEPT !.errors = b] \in Calls /\ [c EXCEPT !.errors = b].errors = b
         /\ [c EXCEPT !.initiated = b] \in Calls /\ [c EXCEPT !.initiated = b].initiated = b
         /\ OtherwiseSame(c, [c EXCEPT !.errors = b])
         /\ OtherwiseSame(c, [c EXCEPT !.initiated = b])
         /\ [c EXCEPT !.errors = b].initiated = c.initiated
         /\ [c EXCEPT !.initiated = b].errors = c.errors
BY DEF Calls, OtherwiseSame

LEMMA AfterForm ==
  ASSUME NEW c \in Calls, c.left # <<>>, NEW fate \in Fates
  PROVE  /\ After(c, fate) \in Calls
         /\ GivenUp(c, After(c, fate), c.executed) \/ GoneOn(c, After(c, fate), c.executed, fate)
<1> PICK command : command = Head(c.left)
  OBVIOUS
<1> PICK reaction : reaction = IF fate = "done" THEN "done" ELSE Reaction(c.tool, command, fate)
  OBVIOUS
<1> PICK b \in BOOLEAN : b = (c.answered /\ fate = "done")
  OBVIOUS
<1> PICK left : left = IF c.tool = "system_backup" /\ reaction = "done" THEN <<>> ELSE Tail(c.left)
  OBVIOUS
<1> PICK f \in BOOLEAN : f = (c.refused \/ (fate = "refused" /\ command \notin Watchdogs))
  OBVIOUS
<1> PICK on : on = [c EXCEPT !.left = left, !.answered = b, !.refused = f]
  OBVIOUS
<1>1. After(c, fate) =
        CASE reaction = "stop"      -> Ended(c, "no", "error")
          [] reaction = "audit"     -> Ended(c, "failure", "error")
          [] reaction = "abandoned" -> Ended(c, "success", "error")
          [] reaction = "next"      -> [on EXCEPT !.errors = TRUE]
          [] reaction = "initiated" -> [on EXCEPT !.initiated = TRUE]
          [] reaction = "done" /\ c.tool = "system_backup" -> [on EXCEPT !.errors = FALSE]
          [] OTHER                  -> on
  BY Zenon DEF After
<1>2. reaction \in Reactions \cup {"ignore", "done"} /\ (reaction = "done" <=> fate = "done")
      /\ (reaction = "ignore" => command \in Watchdogs) /\ (reaction = "initiated" => fate # "refused")
  <2>1. fate # "done" => reaction = Reaction(c.tool, command, fate)
    OBVIOUS
  <2>2. CASE fate = "done"
    BY <2>2
  <2>3. CASE fate # "done"
    <3>1. c.tool \in DOMAIN Tools /\ fate \in Fates \ {"done"}
      BY <2>3 DEF Calls
    <3>2. /\ command \in Watchdogs => reaction = "ignore"
          /\ command \notin Watchdogs => reaction \in Reactions
          /\ fate = "refused" => reaction # "initiated"
      BY <2>1, <2>3, <3>1, ReactionForm
    <3> QED
      BY <2>3, <3>2 DEF Reactions
  <2> QED
    BY <2>2, <2>3
<1>3. left \in Seq(Words)
  <2>1. c.left \in Seq(Words)
    BY DEF Calls
  <2> QED
    BY <2>1
<1>4. on \in Calls /\ SameCall(c, on, c.executed) /\ on.pc = c.pc /\ on.answer = c.answer /\ on.left = left
      /\ on.answered = b /\ on.errors = c.errors /\ on.initiated = c.initiated
      /\ on.refused = f
  BY <1>3 DEF Calls, SameCall
<1>5. left = Tail(c.left) \/ (c.tool = "system_backup" /\ reaction = "done" /\ left = <<>>)
  OBVIOUS
<1>6. CASE reaction \in {"stop", "audit", "abandoned"}
  <2>1. PICK l \in {"no", "failure", "success"} : After(c, fate) = Ended(c, l, "error")
    BY <1>1, <1>6, Zenon
  <2>2. Ended(c, l, "error") \in Calls /\ GivenUp(c, Ended(c, l, "error"), c.executed)
    BY DEF Ended, Calls, GivenUp, SameCall
  <2> QED
    BY <2>1, <2>2
<1>7. CASE reaction = "next"
  <2>1. After(c, fate) = [on EXCEPT !.errors = TRUE]
    BY <1>1, <1>7, Zenon
  <2>2. PICK d : d = [on EXCEPT !.errors = TRUE]
    OBVIOUS
  <2>3. d \in Calls /\ d.errors = TRUE
    BY <2>2, <1>4, NoteOnCall
  <2>4. SameCall(c, d, c.executed) /\ d.pc = c.pc /\ d.answer = c.answer /\ d.left = left /\ d.answered = b
        /\ d.initiated = c.initiated /\ d.refused = f
    BY <2>2, <1>4, NoteOnCall DEF OtherwiseSame, SameCall
  <2>5. GoneOn(c, d, c.executed, fate)
    BY <1>2, <1>5, <1>7, <2>3, <2>4 DEF GoneOn, Reactions
  <2> QED
    BY <2>1, <2>2, <2>3, <2>5
<1>8. CASE reaction = "initiated"
  <2>1. After(c, fate) = [on EXCEPT !.initiated = TRUE]
    BY <1>1, <1>8, Zenon
  <2>2. PICK d : d = [on EXCEPT !.initiated = TRUE]
    OBVIOUS
  <2>3. d \in Calls /\ d.initiated = TRUE
    BY <2>2, <1>4, NoteOnCall
  <2>4. SameCall(c, d, c.executed) /\ d.pc = c.pc /\ d.answer = c.answer /\ d.left = left /\ d.answered = b
        /\ d.errors = c.errors /\ d.refused = f
    BY <2>2, <1>4, NoteOnCall DEF OtherwiseSame, SameCall
  <2>5. GoneOn(c, d, c.executed, fate)
    BY <1>2, <1>5, <1>8, <2>3, <2>4 DEF GoneOn, Reactions
  <2> QED
    BY <2>1, <2>2, <2>3, <2>5
<1>9. CASE reaction = "done" /\ c.tool = "system_backup"
  <2>1. After(c, fate) = [on EXCEPT !.errors = FALSE]
    BY <1>1, <1>9, Zenon
  <2>2. PICK d : d = [on EXCEPT !.errors = FALSE]
    OBVIOUS
  <2>3. d \in Calls /\ d.errors = FALSE
    BY <2>2, <1>4, NoteOnCall
  <2>4. SameCall(c, d, c.executed) /\ d.pc = c.pc /\ d.answer = c.answer /\ d.left = left /\ d.answered = b
        /\ d.initiated = c.initiated /\ d.refused = f
    BY <2>2, <1>4, NoteOnCall DEF OtherwiseSame, SameCall
  <2>5. GoneOn(c, d, c.executed, fate)
    BY <1>2, <1>5, <1>9, <2>3, <2>4 DEF GoneOn, Reactions
  <2> QED
    BY <2>1, <2>2, <2>3, <2>5
<1>10. CASE reaction = "ignore" \/ (reaction = "done" /\ c.tool # "system_backup")
  <2>1. After(c, fate) = on
    BY <1>1, <1>10, Zenon
  <2>2. GoneOn(c, on, c.executed, fate)
    BY <1>2, <1>4, <1>5, <1>10 DEF GoneOn
  <2> QED
    BY <2>1, <2>2, <1>4
<1> QED
  BY <1>2, <1>6, <1>7, <1>8, <1>9, <1>10 DEF Reactions

LEMMA RunForm ==
  ASSUME NEW c \in Calls, c.left # <<>>, NEW fate \in Fates, NEW executed \in BOOLEAN,
         NEW e, e = IF executed THEN Append(c.executed, Head(c.left)) ELSE c.executed,
         NEW d, d = IF executed THEN [After(c, fate) EXCEPT !.executed = Append(@, Head(c.left))] ELSE After(c, fate)
  PROVE  d \in Calls /\ (GivenUp(c, d, e) \/ GoneOn(c, d, e, fate))
<1>1. PICK a : a = After(c, fate)
  OBVIOUS
<1>2. a \in Calls /\ (GivenUp(c, a, c.executed) \/ GoneOn(c, a, c.executed, fate))
  BY <1>1, AfterForm
<1>3. a.executed = c.executed
  BY <1>2 DEF GivenUp, GoneOn, SameCall
<1>4. CASE ~executed
  BY <1>1, <1>2, <1>4
<1>5. CASE executed
  <2>1. e \in Seq(Words) /\ e = Append(a.executed, Head(c.left))
    <3>1. c.executed \in Seq(Words) /\ c.left \in Seq(Words)
      BY DEF Calls
    <3> QED
      BY <1>3, <1>5, <3>1
  <2>2. d = [a EXCEPT !.executed = e]
    BY <1>1, <1>5, <2>1
  <2>3. d \in Calls /\ d.executed = e
    BY <1>2, <2>1, <2>2 DEF Calls
  <2>4. /\ d.tool = a.tool /\ d.token = a.token /\ d.own = a.own /\ d.request = a.request
        /\ d.pc = a.pc /\ d.answer = a.answer /\ d.left = a.left /\ d.answered = a.answered
        /\ d.errors = a.errors /\ d.initiated = a.initiated /\ d.refused = a.refused
    BY <1>2, <2>2 DEF Calls
  <2>5. CASE GivenUp(c, a, c.executed)
    BY <2>3, <2>4, <2>5 DEF GivenUp, SameCall
  <2>6. CASE GoneOn(c, a, c.executed, fate)
    BY <2>3, <2>4, <2>6 DEF GoneOn, SameCall
  <2> QED
    BY <1>2, <2>3, <2>5, <2>6
<1> QED
  BY <1>4, <1>5

LEMMA NoneLeft ==
  ASSUME NEW S, NEW done \in Seq(S)
  PROVE  done \o <<>> = done
OBVIOUS

LEMMA OneMoreDone ==
  ASSUME NEW S, NEW done \in Seq(S), NEW left \in Seq(S), left # <<>>
  PROVE  Append(done, Head(left)) \o Tail(left) = done \o left
OBVIOUS

LEMMA EssentialIsWhatRemains ==
  ASSUME NEW S, NEW done \in Seq(S), NEW left \in Seq(S), left # <<>>
  PROVE  /\ Essential(Append(done, Head(left))) \cup Essential(Tail(left)) = Essential(done) \cup Essential(left)
         /\ Head(left) \in Watchdogs => Essential(Tail(left)) = Essential(left)
<1> DEFINE All(s) == {s[i] : i \in DOMAIN s}
<1>1. All(left) = {Head(left)} \cup All(Tail(left))
  <2>1. ASSUME NEW i \in DOMAIN left
        PROVE  left[i] = Head(left) \/ left[i] \in All(Tail(left))
    <3>1. CASE i = 1
      BY <3>1
    <3>2. CASE i # 1
      <4>1. i - 1 \in DOMAIN Tail(left) /\ Tail(left)[i - 1] = left[i]
        BY <3>2
      <4> QED
        BY <4>1
    <3> QED
      BY <3>1, <3>2
  <2>2. 1 \in DOMAIN left /\ left[1] = Head(left)
    OBVIOUS
  <2>3. ASSUME NEW i \in DOMAIN Tail(left)
        PROVE  Tail(left)[i] \in All(left)
    <3>1. i + 1 \in DOMAIN left /\ left[i + 1] = Tail(left)[i]
      OBVIOUS
    <3> QED
      BY <3>1
  <2> QED
    BY <2>1, <2>2, <2>3
<1>2. All(Append(done, Head(left))) = All(done) \cup {Head(left)}
  <2>1. PICK n \in Nat : n = Len(done)
    OBVIOUS
  <2>2. PICK s : s = Append(done, Head(left))
    OBVIOUS
  <2>3. DOMAIN s = 1..(n + 1) /\ s[n + 1] = Head(left) /\ DOMAIN done = 1..n /\ \A i \in 1..n : s[i] = done[i]
    BY <2>1, <2>2
  <2> QED
    BY <2>2, <2>3
<1>3. \A s : Essential(s) = All(s) \ Watchdogs
  BY DEF Essential, Watchdogs
<1> HIDE DEF All
<1> QED
  BY <1>1, <1>2, <1>3

LEMMA NothingIsEssential == Essential(<<>>) = {}
  BY DEF Essential

(* A command of a call leaves it as it should be.                          *)
LEMMA RunKeepsTheCall ==
  ASSUME NEW c \in Calls, CallOK(c), c.pc = "commands", c.left # <<>>,
         NEW fate \in Fates, NEW executed \in BOOLEAN, fate = "done" => executed,
         NEW e, e = IF executed THEN Append(c.executed, Head(c.left)) ELSE c.executed,
         NEW d \in Calls, GivenUp(c, d, e) \/ GoneOn(c, d, e, fate)
  PROVE  CallOK(d)
<1>1. Shown(d)
  BY DEF CallOK, Shown, GivenUp, GoneOn, SameCall
<1>2. Unguarded(d)
  <2>1. SUFFICES ASSUME d.pc = "commands", d.tool # "system_core"
                 PROVE  d.left \in Seq(Sent)
    BY DEF Unguarded
  <2>2. c.left \in Seq(Sent)
    BY <2>1 DEF CallOK, Unguarded, GivenUp, GoneOn, SameCall
  <2>3. d.left = Tail(c.left) \/ d.left = <<>>
    BY <2>1 DEF GivenUp, GoneOn
  <2>4. Tail(c.left) \in Seq(Sent) /\ <<>> \in Seq(Sent)
    BY <2>2
  <2> QED
    BY <2>3, <2>4
<1>3. Succeeded(d) /\ RefusalsCount(d)
  <2>1. CASE GivenUp(c, d, e)
    BY <2>1 DEF Succeeded, RefusalsCount, GivenUp
  <2>2. CASE GoneOn(c, d, e, fate)
    <3>1. d.pc = "commands" /\ d.tool = c.tool /\ (d.refused => c.refused \/ d.errors)
          /\ (~d.errors => ~c.errors \/ c.tool = "system_backup")
      BY <2>2 DEF GoneOn, SameCall
    <3>2. c.refused => c.errors \/ c.tool = "system_backup"
      BY DEF CallOK, RefusalsCount
    <3> QED
      BY <3>1, <3>2 DEF Succeeded, RefusalsCount
  <2> QED
    BY <2>1, <2>2
<1>4. OnCourse(d)
  <2>1. SUFFICES ASSUME d.pc = "commands", ~d.errors, ~d.initiated
                 PROVE  BackupGoesOn(d) /\ CoreGoesOn(d) /\ OthersGoOn(d)
    BY DEF OnCourse
  <2>2. GoneOn(c, d, e, fate)
    BY <2>1 DEF GivenUp
  <2>3. fate = "done" \/ Head(c.left) \in Watchdogs
    BY <2>1, <2>2 DEF GoneOn
  <2>4. d.tool # "system_backup" => ~c.errors /\ ~c.initiated /\ d.left = Tail(c.left)
    BY <2>1, <2>2 DEF GoneOn, SameCall
  <2>5. d.tool # "system_core" => Head(c.left) \notin Watchdogs
    <3>1. SUFFICES ASSUME d.tool # "system_core"
                   PROVE  Head(c.left) \notin Watchdogs
      OBVIOUS
    <3>2. c.left \in Seq(Sent)
      BY <2>2, <3>1 DEF CallOK, Unguarded, GoneOn, SameCall
    <3>3. Head(c.left) \in Sent
      BY <3>2
    <3> QED
      BY <3>3 DEF Sent, Watchdogs
  <2>6. d.executed = e /\ d.tool = c.tool /\ d.request = c.request
    BY <2>2 DEF GoneOn, SameCall
  <2>7. fate = "done" => e = Append(c.executed, Head(c.left))
    OBVIOUS
  <2>8. BackupGoesOn(d)
    <3>1. SUFFICES ASSUME d.tool = "system_backup"
                   PROVE  d.executed # <<>>
      BY DEF BackupGoesOn
    <3>2. d.executed = Append(c.executed, Head(c.left))
      BY <2>3, <2>5, <2>6, <2>7, <3>1
    <3>3. c.executed \in Seq(Words)
      BY DEF Calls
    <3> QED
      BY <3>2, <3>3
  <2>9. CoreGoesOn(d)
    <3>1. SUFFICES ASSUME d.tool = "system_core"
                   PROVE  Essential(d.executed) \cup Essential(d.left) = Essential(Commands(d.tool, d.request))
      BY DEF CoreGoesOn
    <3>2. Essential(c.executed) \cup Essential(c.left) = Essential(Commands(d.tool, d.request))
      BY <2>4, <2>6, <3>1 DEF CallOK, OnCourse, CoreGoesOn
    <3>3. d.left = Tail(c.left)
      BY <2>4, <3>1
    <3>4. /\ Essential(Append(c.executed, Head(c.left))) \cup Essential(Tail(c.left))
               = Essential(c.executed) \cup Essential(c.left)
          /\ Head(c.left) \in Watchdogs => Essential(Tail(c.left)) = Essential(c.left)
      BY EssentialIsWhatRemains DEF Calls
    <3>5. CASE e = Append(c.executed, Head(c.left))
      BY <2>6, <3>2, <3>3, <3>4, <3>5
    <3>6. CASE e = c.executed /\ Head(c.left) \in Watchdogs
      BY <2>6, <3>2, <3>3, <3>4, <3>6
    <3> QED
      BY <2>3, <2>7, <3>5, <3>6
  <2>10. OthersGoOn(d)
    <3>1. SUFFICES ASSUME d.tool \notin {"system_backup", "system_core"}
                   PROVE  d.executed \o d.left = Commands(d.tool, d.request)
      BY DEF OthersGoOn
    <3>2. d.executed = Append(c.executed, Head(c.left)) /\ d.left = Tail(c.left)
      BY <2>3, <2>4, <2>5, <2>6, <2>7, <3>1
    <3>3. c.executed \o c.left = Commands(d.tool, d.request)
      BY <2>4, <2>6, <3>1 DEF CallOK, OnCourse, OthersGoOn
    <3>4. c.executed \in Seq(Words) /\ c.left \in Seq(Words)
      BY DEF Calls
    <3>5. Append(c.executed, Head(c.left)) \o Tail(c.left) = c.executed \o c.left
      BY <3>4, OneMoreDone
    <3> QED
      BY <3>2, <3>3, <3>5
  <2> QED
    BY <2>8, <2>9, <2>10
<1> QED
  BY <1>1, <1>2, <1>3, <1>4 DEF CallOK

LEMMA CoreAfterForm ==
  ASSUME NEW command, CoreAfter(command), core \in BOOLEAN, watchdog \in BOOLEAN
  PROVE  /\ core' \in BOOLEAN /\ watchdog' \in BOOLEAN
         /\ command = "core_stop" => ~core'
         /\ command \in {"core_start", "core_restart"} => core'
         /\ command \in Watchdogs => core' = core
         /\ command = "watchdog_off" => ~watchdog'
         /\ command = "watchdog_on" => watchdog'
         /\ command \notin Watchdogs => watchdog' = watchdog
<1>1. core' = CASE command = "core_stop" -> FALSE
                [] command \in {"core_start", "core_restart"} -> TRUE
                [] OTHER -> core
  BY DEF CoreAfter
<1>2. command = "core_stop" => core' = FALSE
  BY <1>1, Zenon
<1>3. command \in {"core_start", "core_restart"} => core' = TRUE
  <2>1. SUFFICES ASSUME command \in {"core_start", "core_restart"}
                 PROVE  core' = TRUE
    OBVIOUS
  <2>2. command # "core_stop"
    BY <2>1
  <2> QED
    BY <1>1, <2>1, <2>2, Zenon
<1>4. command # "core_stop" /\ command \notin {"core_start", "core_restart"} => core' = core
  BY <1>1, Zenon
<1>5. watchdog' = (command = "watchdog_on" \/ (watchdog /\ command # "watchdog_off"))
  BY DEF CoreAfter
<1>6. core' \in BOOLEAN
  BY <1>2, <1>3, <1>4
<1>7. watchdog' \in BOOLEAN
  BY <1>5
<1>8. command \in Watchdogs => core' = core
  BY <1>4 DEF Watchdogs
<1>9. /\ command = "watchdog_off" => ~watchdog'
      /\ command = "watchdog_on" => watchdog'
      /\ command \notin Watchdogs => watchdog' = watchdog
  BY <1>5 DEF Watchdogs
<1> QED
  BY <1>2, <1>3, <1>6, <1>7, <1>8, <1>9

(* Every answered command of system_core brings Core one step closer.      *)
LEMMA CoreComesCloser ==
  ASSUME NEW what, NEW left, left # <<>>, CoreAfter(Head(left)), core \in BOOLEAN, watchdog \in BOOLEAN,
         Brought(what, left, core, watchdog)
  PROVE  Brought(what, Tail(left), core', watchdog')
<1>1. CASE what = "stop"
  <2>1. Stopping(left, core, watchdog)
    BY <1>1 DEF Brought
  <2>2. CASE left = <<"watchdog_off", "core_stop">>
    <3>1. Head(left) = "watchdog_off" /\ Tail(left) = <<"core_stop">>
      BY <2>2
    <3> QED
      BY <1>1, <3>1, CoreAfterForm DEF Brought, Stopping
  <2>3. CASE left = <<"core_stop">> /\ ~watchdog
    <3>1. Head(left) = "core_stop" /\ Tail(left) = <<>>
      BY <2>3
    <3>2. "core_stop" \notin Watchdogs
      BY DEF Watchdogs
    <3>3. ~core' /\ ~watchdog'
      BY <2>3, <3>1, <3>2, CoreAfterForm
    <3> QED
      BY <1>1, <3>1, <3>3 DEF Brought, Stopping
  <2> QED
    BY <2>1, <2>2, <2>3 DEF Stopping
<1>2. CASE what = "start"
  <2>1. Starting(left, core, watchdog)
    BY <1>2 DEF Brought
  <2>2. CASE left = <<"core_start", "watchdog_on">>
    <3>1. Head(left) = "core_start" /\ Tail(left) = <<"watchdog_on">>
      BY <2>2
    <3> QED
      BY <1>2, <3>1, CoreAfterForm DEF Brought, Starting
  <2>3. CASE left = <<"watchdog_on">> /\ core
    <3>1. Head(left) = "watchdog_on" /\ Tail(left) = <<>>
      BY <2>3
    <3>2. "watchdog_on" \in Watchdogs
      BY DEF Watchdogs
    <3>3. core' /\ watchdog'
      BY <2>3, <3>1, <3>2, CoreAfterForm
    <3> QED
      BY <1>2, <3>1, <3>3 DEF Brought, Starting
  <2> QED
    BY <2>1, <2>2, <2>3 DEF Starting
<1>3. CASE what \notin {"stop", "start"}
  <2>1. left = <<"core_restart">>
    BY <1>3 DEF Brought, Restarting
  <2>2. Head(left) = "core_restart" /\ Tail(left) = <<>>
    BY <2>1
  <2>3. core'
    BY <2>2, CoreAfterForm
  <2> QED
    BY <1>3, <2>2, <2>3 DEF Brought, Restarting
<1> QED
  BY <1>1, <1>2, <1>3

(* A call begins with everything left to do.                               *)
LEMMA BegunIsOnCourse ==
  ASSUME NEW t \in DOMAIN Tools, NEW token \in Tokens, NEW own \in Wants, NEW r \in Wants,
         NEW b, b = Begun(t, token, own, r)
  PROVE  /\ b \in Calls /\ b.pc = "commands" /\ b.executed = <<>>
         /\ b.tool = t /\ b.token = token /\ b.request = r
         /\ OnCourse(b) /\ Unguarded(b) /\ RefusalsCount(b) /\ Succeeded(b) /\ CoreOnCourse(b, core, watchdog)
<1>1. PICK asked : asked = Commands(t, r)
  OBVIOUS
<1>2. PICK l \in {"success", "no"} : l = IF Tools[t].logsFirst THEN "success" ELSE "no"
  OBVIOUS
<1>3. b = [pc |-> "commands", tool |-> t, token |-> token, own |-> own, request |-> r,
           left |-> asked, executed |-> <<>>, errors |-> FALSE, initiated |-> FALSE, refused |-> FALSE,
           answered |-> TRUE, logged |-> l, answer |-> "none"]
  BY <1>1, <1>2 DEF Begun
<1>4. asked \in Seq(Words) /\ (t # "system_core" => asked \in Seq(Sent)) /\ (t = "system_backup" => asked # <<>>)
  BY <1>1, CommandsForm
<1>5. b \in Calls
  BY <1>3, <1>4 DEF Calls
<1>6. /\ b.pc = "commands" /\ b.executed = <<>> /\ b.left = asked
      /\ b.tool = t /\ b.token = token /\ b.request = r /\ b.refused = FALSE
  BY <1>3
<1>7. BackupGoesOn(b)
  BY <1>4, <1>6 DEF BackupGoesOn
<1>8. CoreGoesOn(b)
  BY <1>1, <1>6, NothingIsEssential DEF CoreGoesOn
<1>9. OthersGoOn(b)
  BY <1>1, <1>4, <1>6 DEF OthersGoOn
<1>10. Unguarded(b)
  BY <1>4, <1>6 DEF Unguarded
<1>11. CoreOnCourse(b, core, watchdog)
  <2>1. SUFFICES ASSUME t = "system_core"
                 PROVE  Brought(r.what, asked, core, watchdog)
    BY <1>6 DEF CoreOnCourse
  <2>2. asked = CoreSteps(r.what)
    BY <1>1, <2>1 DEF Commands
  <2> QED
    BY <2>2, CoreCommands DEF Brought, Stopping, Starting, Restarting
<1> QED
  BY <1>5, <1>6, <1>7, <1>8, <1>9, <1>10, <1>11 DEF OnCourse, RefusalsCount, Succeeded

(* A call that was turned away has done nothing.                           *)
LEMMA RefusedIsHarmless ==
  ASSUME NEW t \in DOMAIN Tools, NEW token \in Tokens, NEW own \in Wants, NEW r \in Wants,
         NEW b, b = [Begun(t, token, own, r) EXCEPT !.pc = "ended", !.logged = "no", !.answer = "error"]
  PROVE  b \in Calls /\ CallOK(b) /\ CoreOnCourse(b, core, watchdog)
<1>1. PICK g : g = Begun(t, token, own, r)
  OBVIOUS
<1>2. g \in Calls /\ g.executed = <<>>
  BY <1>1, BegunIsOnCourse
<1>3. b = [g EXCEPT !.pc = "ended", !.logged = "no", !.answer = "error"]
  BY <1>1
<1>4. b \in Calls
  BY <1>2, <1>3 DEF Calls
<1>5. b.pc = "ended" /\ b.answer = "error" /\ b.executed = <<>>
  BY <1>2, <1>3 DEF Calls
<1> QED
  BY <1>4, <1>5 DEF CallOK, Shown, OnCourse, Unguarded, RefusalsCount, Succeeded, CoreOnCourse

LEMMA RequestsAreWants ==
  ASSUME NEW t
  PROVE  Requests(t) \subseteq Wants
BY DEF Requests, Wants

LEMMA ToolsInitOK == ToolsInit => ToolsInv
BY DEF ToolsInit, ToolsInv, ToolsTypeOK

LEMMA ConfirmingIsShown ==
  ASSUME NEW t \in DOMAIN Tools, NEW token \in Tokens, NEW own \in Wants,
         Accepted(t, token, own), token.tool = t, Tools[t].binds # "call"
  PROVE  /\ Effective(t, token, own).what = token.request.what
         /\ ~Tools[t].loose => Effective(t, token, own).rest = token.request.rest
<1>1. Tools[t].binds \in {"compare", "token"}
  BY RowsHaveTheirForm DEF RowOK
<1>2. CASE Tools[t].binds = "compare"
  <2>1. token.request.what = own.what /\ (~Tools[t].loose => token.request.rest = own.rest)
    BY <1>2 DEF Accepted
  <2>2. Effective(t, token, own) = own
    BY <1>2 DEF Effective
  <2> QED
    BY <2>1, <2>2
<1>3. CASE Tools[t].binds = "token"
  BY <1>3 DEF Effective
<1> QED
  BY <1>1, <1>2, <1>3

LEMMA ToolsStepOK == ToolsInv /\ [ToolsNext]_toolsVars => ToolsInv'
<1> SUFFICES ASSUME ToolsInv, [ToolsNext]_toolsVars
             PROVE  ToolsInv'
  OBVIOUS
<1> USE DEF ToolsInv
<1>1. tokens \subseteq Tokens /\ core \in BOOLEAN /\ watchdog \in BOOLEAN /\ (call = NoCall \/ call \in Calls)
  BY DEF ToolsTypeOK
<1>2. call.pc # "idle" => call \in Calls /\ CallOK(call) /\ CoreOnCourse(call, core, watchdog)
  <2>1. NoCall.pc = "idle"
    BY DEF NoCall
  <2> QED
    BY <1>1, <2>1
<1>3. SUFFICES ASSUME ToolsNext
               PROVE  ToolsInv'
  <2>1. CASE UNCHANGED toolsVars
    BY <2>1 DEF toolsVars, ToolsTypeOK
  <2> QED
    BY <1>3, <2>1
<1>4. CASE PreviewTool
  <2>0. PICK tool \in DOMAIN Tools :
          \E request \in Requests(tool) : tokens' = tokens \cup {[tool |-> tool, request |-> request]}
    BY <1>4 DEF PreviewTool
  <2>1. PICK request \in Requests(tool) : tokens' = tokens \cup {[tool |-> tool, request |-> request]}
    BY <2>0
  <2>2. [tool |-> tool, request |-> request] \in Tokens
    BY <2>1, RequestsAreWants DEF Tokens
  <2>3. tokens' \subseteq Tokens
    BY <1>1, <2>1, <2>2
  <2>4. call = NoCall /\ UNCHANGED <<call, core, watchdog>>
    BY <1>4 DEF PreviewTool
  <2> QED
    BY <1>1, <2>3, <2>4 DEF ToolsTypeOK
<1>5. CASE ConfirmTool
  <2>0. PICK tool \in DOMAIN Tools, token \in tokens : \E own \in Requests(tool) :
          /\ tokens' = tokens \ {token}
          /\ call' = IF Accepted(tool, token, own)
                     THEN Begun(tool, token, own, Effective(tool, token, own))
                     ELSE [Begun(tool, token, own, own) EXCEPT !.pc = "ended", !.logged = "no", !.answer = "error"]
    BY <1>5 DEF ConfirmTool
  <2>1. PICK own \in Requests(tool) :
          /\ tokens' = tokens \ {token}
          /\ call' = IF Accepted(tool, token, own)
                     THEN Begun(tool, token, own, Effective(tool, token, own))
                     ELSE [Begun(tool, token, own, own) EXCEPT !.pc = "ended", !.logged = "no", !.answer = "error"]
    BY <2>0
  <2>2. UNCHANGED <<core, watchdog>>
    BY <1>5 DEF ConfirmTool
  <2>3. own \in Wants /\ token \in Tokens
    BY <1>1, RequestsAreWants
  <2>4. call' \in Calls /\ CallOK(call') /\ CoreOnCourse(call', core, watchdog)
    <3>1. CASE ~Accepted(tool, token, own)
      BY <2>1, <2>3, <3>1, RefusedIsHarmless
    <3>2. CASE Accepted(tool, token, own)
      <4>1. PICK r : r = Effective(tool, token, own)
        OBVIOUS
      <4>2. r \in Wants
        BY <2>3, <4>1 DEF Effective, Tokens
      <4>3. call' = Begun(tool, token, own, r)
        BY <2>1, <3>2, <4>1
      <4>4. /\ call' \in Calls /\ call'.tool = tool /\ call'.token = token /\ call'.request = r
            /\ OnCourse(call') /\ Unguarded(call') /\ RefusalsCount(call') /\ Succeeded(call') /\ CoreOnCourse(call', core, watchdog)
        BY <2>3, <4>2, <4>3, BegunIsOnCourse
      <4>5. token.tool = tool /\ Tools[tool].binds # "call"
              => r.what = token.request.what /\ (~Tools[tool].loose => r.rest = token.request.rest)
        BY <2>3, <3>2, <4>1, ConfirmingIsShown
      <4>6. Shown(call')
        BY <4>4, <4>5 DEF Shown
      <4> QED
        BY <4>4, <4>6 DEF CallOK
    <3> QED
      BY <3>1, <3>2
  <2> QED
    BY <1>1, <2>1, <2>2, <2>4 DEF ToolsTypeOK
<1>6. CASE CallUnasked \/ NotFound
  <2>0. PICK tool \in DOMAIN Tools : \E own \in Requests(tool) :
          \/ call' = Begun(tool, [tool |-> tool, request |-> own], own, own)
          \/ call' = [Begun(tool, [tool |-> tool, request |-> own], own, own)
                        EXCEPT !.pc = "ended", !.logged = "no", !.answer = "error"]
    BY <1>6 DEF CallUnasked, NotFound
  <2>1. PICK own \in Requests(tool) :
          \/ call' = Begun(tool, [tool |-> tool, request |-> own], own, own)
          \/ call' = [Begun(tool, [tool |-> tool, request |-> own], own, own)
                        EXCEPT !.pc = "ended", !.logged = "no", !.answer = "error"]
    BY <2>0
  <2>2. UNCHANGED <<tokens, core, watchdog>>
    BY <1>6 DEF CallUnasked, NotFound
  <2>3. own \in Wants
    BY RequestsAreWants
  <2>4. PICK token : token = [tool |-> tool, request |-> own]
    OBVIOUS
  <2>5. token \in Tokens /\ token.request = own
    BY <2>3, <2>4 DEF Tokens
  <2>6. call' \in Calls /\ CallOK(call') /\ CoreOnCourse(call', core, watchdog)
    <3>1. CASE call' = Begun(tool, token, own, own)
      <4>1. /\ call' \in Calls /\ call'.token = token /\ call'.request = own
            /\ OnCourse(call') /\ Unguarded(call') /\ RefusalsCount(call') /\ Succeeded(call') /\ CoreOnCourse(call', core, watchdog)
        BY <2>3, <2>5, <3>1, BegunIsOnCourse
      <4>2. Shown(call')
        BY <2>5, <4>1 DEF Shown
      <4> QED
        BY <4>1, <4>2 DEF CallOK
    <3>2. CASE call' = [Begun(tool, token, own, own) EXCEPT !.pc = "ended", !.logged = "no", !.answer = "error"]
      BY <2>3, <2>5, <3>2, RefusedIsHarmless
    <3> QED
      BY <2>1, <2>4, <3>1, <3>2
  <2> QED
    BY <1>1, <2>2, <2>6 DEF ToolsTypeOK
<1>7. CASE RunCommand
  <2>1. PICK c : c = call
    OBVIOUS
  <2>2. c \in Calls /\ CallOK(c) /\ CoreOnCourse(c, core, watchdog) /\ c.pc = "commands" /\ c.left # <<>>
    BY <1>2, <1>7, <2>1 DEF RunCommand
  <2>3. PICK fate \in Fates, executed \in BOOLEAN :
          /\ fate = "done" => executed
          /\ call' = IF executed THEN [After(c, fate) EXCEPT !.executed = Append(@, Head(c.left))] ELSE After(c, fate)
          /\ IF executed THEN CoreAfter(Head(c.left)) ELSE UNCHANGED <<core, watchdog>>
    BY <1>7, <2>1 DEF RunCommand
  <2>4. PICK e : e = IF executed THEN Append(c.executed, Head(c.left)) ELSE c.executed
    OBVIOUS
  <2>5. call' \in Calls /\ (GivenUp(c, call', e) \/ GoneOn(c, call', e, fate))
    BY <2>2, <2>3, <2>4, RunForm
  <2>6. CallOK(call')
    BY <2>2, <2>3, <2>4, <2>5, RunKeepsTheCall
  <2>7. core' \in BOOLEAN /\ watchdog' \in BOOLEAN
    BY <1>1, <2>3, CoreAfterForm
  <2>8. CoreOnCourse(call', core', watchdog')
    <3>1. CASE GivenUp(c, call', e)
      BY <3>1 DEF CoreOnCourse, GivenUp
    <3>2. CASE GoneOn(c, call', e, fate)
      <4>1. SUFFICES ASSUME call'.tool = "system_core", call'.answered
                     PROVE  Brought(call'.request.what, call'.left, core', watchdog') /\ call'.pc = "commands"
        BY DEF CoreOnCourse
      <4>2. c.answered /\ fate = "done" /\ c.tool = "system_core" /\ c.request = call'.request
            /\ call'.pc = "commands" /\ call'.left = Tail(c.left)
        BY <2>2, <3>2, <4>1 DEF GoneOn, SameCall
      <4>3. CoreAfter(Head(c.left))
        BY <2>3, <4>2
      <4>4. Brought(c.request.what, c.left, core, watchdog)
        BY <2>2, <4>2 DEF CoreOnCourse
      <4>5. Brought(c.request.what, Tail(c.left), core', watchdog')
        BY <1>1, <2>2, <4>3, <4>4, CoreComesCloser
      <4> QED
        BY <4>2, <4>5
    <3> QED
      BY <2>5, <3>1, <3>2
  <2>9. tokens' = tokens
    BY <1>7 DEF RunCommand
  <2> QED
    BY <1>1, <2>5, <2>6, <2>7, <2>8, <2>9 DEF ToolsTypeOK
<1>8. CASE EndCall
  <2>1. PICK c : c = call
    OBVIOUS
  <2>2. c \in Calls /\ CallOK(c) /\ CoreOnCourse(c, core, watchdog) /\ c.pc = "commands" /\ c.left = <<>>
    BY <1>2, <1>8, <2>1 DEF EndCall
  <2>3. PICK gone \in BOOLEAN : call' = Ended(c, Logs(c, ~c.errors /\ gone), Answers(c, ~c.errors /\ gone))
    BY <1>8, <2>1 DEF EndCall
  <2>4. PICK logs \in {"success", "failure"} : logs = Logs(c, ~c.errors /\ gone)
    BY DEF Logs
  <2>5. PICK answer \in {"error", "success", "initiated", "success and initiated"} :
          /\ answer = Answers(c, ~c.errors /\ gone)
          /\ answer = "success" => ~c.errors /\ ~c.initiated
          /\ answer = "success and initiated" => ~c.errors /\ Tools[c.tool].flagged
    BY DEF Answers
  <2>6. call' = [c EXCEPT !.pc = "ended", !.logged = IF @ = "no" THEN logs ELSE @, !.answer = answer]
    BY <2>3, <2>4, <2>5 DEF Ended
  <2>7. /\ call' \in Calls /\ call'.pc = "ended" /\ call'.answer = answer /\ call'.answered = c.answered
        /\ call'.refused = c.refused /\ SameCall(c, call', c.executed)
    BY <2>2, <2>6 DEF Calls, SameCall
  <2>8. Succeeded(call')
    <3>0. answer = "success and initiated" => ~c.refused
      BY <2>2, <2>5, BackupAndCore DEF CallOK, RefusalsCount
    <3>1. SUFFICES ASSUME answer = "success"
                   PROVE  Done(c.tool, c.request, c.executed)
      BY <2>7, <3>0 DEF Succeeded, SameCall
    <3>2. BackupGoesOn(c) /\ CoreGoesOn(c) /\ OthersGoOn(c)
      BY <2>2, <2>5, <3>1 DEF CallOK, OnCourse
    <3>3. CASE c.tool = "system_backup"
      <4>1. c.executed # <<>>
        BY <2>2, <3>2, <3>3 DEF BackupGoesOn
      <4> QED
        BY <3>3, <4>1, Zenon DEF Done
    <3>4. CASE c.tool = "system_core"
      <4>2. Essential(c.executed) = Essential(Commands(c.tool, c.request))
        BY <2>2, <3>2, <3>4, NothingIsEssential DEF CoreGoesOn
      <4>3. c.tool # "system_backup"
        BY <3>4
      <4> QED
        BY <3>4, <4>2, <4>3, Zenon DEF Done
    <3>5. CASE c.tool \notin {"system_backup", "system_core"}
      <4>0. c.executed \in Seq(Words)
        BY <2>2 DEF Calls
      <4>1. c.executed = Commands(c.tool, c.request)
        BY <2>2, <3>2, <3>5, <4>0, NoneLeft, Zenon DEF OthersGoOn
      <4> QED
        BY <3>5, <4>1, Zenon DEF Done
    <3> QED
      BY <3>3, <3>4, <3>5
  <2>9. CallOK(call')
    BY <2>2, <2>7, <2>8 DEF CallOK, Shown, OnCourse, Unguarded, RefusalsCount, SameCall
  <2>10. CoreOnCourse(call', core, watchdog)
    BY <2>2, <2>7 DEF CoreOnCourse, SameCall
  <2>11. UNCHANGED <<tokens, core, watchdog>>
    BY <1>8 DEF EndCall
  <2> QED
    BY <1>1, <2>7, <2>9, <2>10, <2>11 DEF ToolsTypeOK
<1>9. CASE Killed
  <2>1. PICK c : c = call
    OBVIOUS
  <2>2. c \in Calls /\ CallOK(c) /\ c.pc = "commands" /\ c.tool # "system_core"
    BY <1>2, <1>9, <2>1 DEF Killed
  <2>3. call' = [c EXCEPT !.pc = "killed", !.executed = c.left]
    BY <1>9, <2>1 DEF Killed
  <2>4. call' \in Calls /\ call'.pc = "killed" /\ SameCall(c, call', c.left)
    BY <2>2, <2>3 DEF Calls, SameCall
  <2>5. CallOK(call')
    BY <2>2, <2>4 DEF CallOK, Shown, OnCourse, Unguarded, RefusalsCount, Succeeded, SameCall
  <2>6. core' \in BOOLEAN /\ watchdog' \in BOOLEAN
    BY <1>1, <1>9, CoreAfterForm DEF Killed
  <2>7. CoreOnCourse(call', core', watchdog')
    BY <2>2, <2>4 DEF CoreOnCourse, SameCall
  <2>8. tokens' = {}
    BY <1>9 DEF Killed
  <2> QED
    BY <2>4, <2>5, <2>6, <2>7, <2>8 DEF ToolsTypeOK
<1>10. CASE Revive
  <2>1. ~core /\ watchdog /\ core' = TRUE /\ UNCHANGED <<tokens, call, watchdog>>
    BY <1>10 DEF Revive
  <2>2. \A what, left : Brought(what, left, core, watchdog) => Brought(what, left, core', watchdog')
    BY <2>1 DEF Brought, Stopping, Starting, Restarting
  <2>3. \A c : CoreOnCourse(c, core, watchdog) => CoreOnCourse(c, core', watchdog')
    BY <2>2 DEF CoreOnCourse
  <2> QED
    BY <1>1, <2>1, <2>3 DEF ToolsTypeOK
<1> QED
  BY <1>3, <1>4, <1>5, <1>6, <1>7, <1>8, <1>9, <1>10 DEF ToolsNext

LEMMA ToolsInvHolds == ToolsSpec => []ToolsInv
BY ToolsInitOK, ToolsStepOK, PTL DEF ToolsSpec

--------------------------------------------------------------------------------
(* What any of the twenty-seven tools does under a token of its own is     *)
(* what the token's preview named, for every argument it may be given, and *)
(* but for the two loose tools with the rest of what the preview showed.   *)
THEOREM WhatIsDoneWasShown == ToolsSpec => []OnlyTheShownIsDone
<1>1. ToolsInv => OnlyTheShownIsDone
  BY DEF ToolsInv, CallOK, Shown, OnlyTheShownIsDone
<1> QED
  BY <1>1, ToolsInvHolds, PTL

(* Whoever is answered success had everything executed that was asked,     *)
(* however commands were refused, lost or timed out on the way; where the  *)
(* answer says initiated as well, nothing was refused that counts.         *)
THEOREM SuccessIsEarned == ToolsSpec => []SuccessMeansDone
<1>1. ToolsInv => SuccessMeansDone
  <2>1. SUFFICES ASSUME ToolsInv, call.pc = "ended"
                 PROVE  /\ call.answer = "success" => Done(call.tool, call.request, call.executed)
                        /\ call.answer = "success and initiated" => ~call.refused
    BY DEF SuccessMeansDone, Over
  <2>2. call # NoCall
    BY <2>1 DEF NoCall
  <2> QED
    BY <2>1, <2>2 DEF ToolsInv, CallOK, Succeeded
<1> QED
  BY <1>1, ToolsInvHolds, PTL

(* An answered stop of HA Core leaves it down for good, and an answered    *)
(* start leaves it up and guarded, whenever the Supervisor revives it.     *)
THEOREM CoreEndsAsAsked == ToolsSpec => []CoreIsAsAsked
<1>1. ToolsInv => CoreIsAsAsked
  <2>1. SUFFICES ASSUME ToolsInv, call.pc = "ended", call.tool = "system_core", call.answered, call.answer = "success"
                 PROVE  CASE call.request.what = "stop"  -> ~core /\ ~watchdog
                          [] call.request.what = "start" -> core /\ watchdog
                          [] OTHER                       -> core
    BY Zenon DEF CoreIsAsAsked, Over
  <2>2. call # NoCall
    BY <2>1 DEF NoCall
  <2>3. Brought(call.request.what, <<>>, core, watchdog)
    BY <2>1, <2>2 DEF ToolsInv, CoreOnCourse
  <2>4. CASE call.request.what = "stop"
    <3>1. ~core /\ ~watchdog
      BY <2>3, <2>4 DEF Brought, Stopping
    <3> QED
      BY <2>4, <3>1, Zenon
  <2>5. CASE call.request.what = "start"
    <3>1. core /\ watchdog /\ call.request.what # "stop"
      BY <2>3, <2>5 DEF Brought, Starting
    <3> QED
      BY <2>5, <3>1, Zenon
  <2>6. CASE call.request.what \notin {"stop", "start"}
    <3>1. core
      BY <2>3, <2>6 DEF Brought, Restarting
    <3> QED
      BY <2>6, <3>1, Zenon
  <2> QED
    BY <2>4, <2>5, <2>6
<1> QED
  BY <1>1, ToolsInvHolds, PTL

--------------------------------------------------------------------------------
(* Helpers.  While a call names a helper of the registry and nobody        *)
(* interferes, entity ids are unique and the target has the id reported,   *)
(* but for the helper just made under a name the two slugs of which        *)
(* differ: no row has the id reported for that one.                        *)
HelperRows == [hid : Nat, eid : Slugs \X Nat, name : Names, yaml : BOOLEAN]

HelperTargets == [hid : Nat, eid : (Slugs \X Nat) \cup {Unchanged}]

HelperJobs ==
  [pc : {"idle", "previewed", "run", "rename", "done", "discarded", "raised", "already rolled back"},
   tool : {"none", "create", "update", "delete"}, targets : Seq(HelperTargets),
   name : Names \cup {Unchanged}, to : (Slugs \X Nat) \cup {Unchanged}, answer : (Slugs \X Nat) \cup {Unchanged},
   named : BOOLEAN, saved : BOOLEAN, errors : BOOLEAN]

HelperTypeOK ==
  /\ hjob \in HelperJobs
  /\ houtside \in Nat
  /\ IsFiniteSet(hbefore)
  /\ hjob.pc = "idle" => houtside = 0 /\ hjob = IdleHelper /\ IsFiniteSet(helpers)
  /\ hjob.tool \in {"create", "update"} => hjob.name \in Names
  /\ hjob.pc = "rename" => hjob.to # Unchanged

Quiet == hjob.named /\ houtside = 0

UniqueEids == helpers \subseteq HelperRows /\ \A r, s \in helpers : r.eid = s.eid => r = s

Found ==
  /\ hjob.targets # <<>>
  /\ \E r \in helpers : r.hid = hjob.targets[1].hid /\ r.eid = hjob.answer

OnTheHelper ==
  /\ hjob.tool = "update" /\ hjob.pc \in {"previewed", "run"} => Found
  /\ hjob.tool = "create" /\ hjob.pc = "run" => hjob.answer = Derived(hjob.name)
  /\ hjob.pc = "rename" => Found
  /\ hjob.pc = "done" /\ hjob.tool # "delete" /\ ~hjob.errors => Found

Strayed == hjob.tool = "create" /\ ~SlugsAgree(hjob.name) /\ hjob.pc \notin {"idle", "previewed", "run"}

NothingFound == hjob.pc = "rename" => \A r \in helpers : r.eid # hjob.answer

HelperInv == HelperTypeOK /\ (Quiet => IF Strayed THEN NothingFound ELSE UniqueEids /\ OnTheHelper)

LEMMA HelperInitOK == HelperInit => HelperInv
<1> SUFFICES ASSUME HelperInit
             PROVE  HelperInv
  OBVIOUS
<1>1. PICK n \in 0..(MaxHelpers - 1) :
        \E eid \in [1..n -> HelperEids], name \in [1..n -> Names], yaml \in SUBSET (1..n) :
          /\ IsInjective(eid)
          /\ helpers = {[hid |-> h, eid |-> eid[h], name |-> name[h], yaml |-> h \in yaml] : h \in 1..n}
  BY DEF HelperInit
<1>2. PICK eid \in [1..n -> HelperEids], name \in [1..n -> Names], yaml \in SUBSET (1..n) :
        /\ IsInjective(eid)
        /\ helpers = {[hid |-> h, eid |-> eid[h], name |-> name[h], yaml |-> h \in yaml] : h \in 1..n}
  BY <1>1
<1>3. PICK Y : Y = [h \in 1..n |-> h \in yaml]
  OBVIOUS
<1>4. PICK f : f = [h \in 1..n |-> [hid |-> h, eid |-> eid[h], name |-> name[h], yaml |-> Y[h]]]
  OBVIOUS
<1>5. helpers = {f[h] : h \in 1..n}
  <2>1. \A h \in 1..n : f[h] = [hid |-> h, eid |-> eid[h], name |-> name[h], yaml |-> h \in yaml]
    BY <1>3, <1>4
  <2> QED
    BY <1>2, <2>1
<1>6. IsFiniteSet(helpers)
  <2>1. f \in Surjection(1..n, helpers)
    BY <1>4, <1>5 DEF Surjection
  <2>2. IsFiniteSet(1..n)
    BY <1>1, HelperAssumption, FS_Interval
  <2> QED
    BY <2>1, <2>2, FS_Surjection
<1>7. UniqueEids
  <2>1. \A h \in 1..n : f[h] \in HelperRows /\ f[h].eid = eid[h]
    <3>1. HelperEids \subseteq Slugs \X Nat
      BY DEF HelperEids
    <3>2. \A h \in 1..n : Y[h] \in BOOLEAN
      BY <1>3
    <3> QED
      BY <1>1, <1>4, <3>1, <3>2, HelperAssumption DEF HelperRows
  <2>2. \A h, k \in 1..n : eid[h] = eid[k] => h = k
    BY <1>2 DEF IsInjective
  <2> QED
    BY <1>5, <2>1, <2>2 DEF UniqueEids
<1>8. hjob = IdleHelper /\ hjob.pc = "idle" /\ hjob.tool = "none" /\ hjob \in HelperJobs
  BY DEF HelperInit, IdleHelper, HelperJobs
<1>9. hbefore = helpers /\ houtside = 0
  BY DEF HelperInit
<1> QED
  BY <1>6, <1>7, <1>8, <1>9 DEF HelperInv, HelperTypeOK, OnTheHelper, Strayed

(* Home Assistant keeps the derived entity id when it is free and the two  *)
(* slugs agree.                                                            *)
LEMMA FreeIdIsKept ==
  ASSUME NEW name, ~Taken(Derived(name)), SlugsAgree(name)
  PROVE  Assigned(name) = Derived(name)
<1> PICK slug : slug = name.theirs
  OBVIOUS
<1>1. PICK free : free = [n \in 1..(MaxHelpers + 1) |-> ~Taken(<<slug, n>>) /\ \A m \in 1..(n - 1) : Taken(<<slug, m>>)]
  OBVIOUS
<1>2. 1 \in 1..(MaxHelpers + 1) /\ 1..(1 - 1) = {}
  BY HelperAssumption
<1>3. ~Taken(<<slug, 1>>)
  BY DEF Derived, SlugsAgree
<1>4. ASSUME NEW n \in 1..(MaxHelpers + 1),
             ~Taken(<<slug, n>>), \A m \in 1..(n - 1) : Taken(<<slug, m>>)
      PROVE  n = 1
  <2>1. SUFFICES ASSUME n # 1
                 PROVE  1 \in 1..(n - 1)
    BY <1>3, <1>4
  <2> QED
    BY <2>1, HelperAssumption
<1>5. 1 = CHOOSE n \in 1..(MaxHelpers + 1) : ~Taken(<<slug, n>>) /\ \A m \in 1..(n - 1) : Taken(<<slug, m>>)
  <2> DEFINE P(n) == n \in 1..(MaxHelpers + 1) /\ ~Taken(<<slug, n>>) /\ \A m \in 1..(n - 1) : Taken(<<slug, m>>)
  <2>1. P(1)
    BY <1>2, <1>3
  <2>2. \A n : P(n) => n = 1
    BY <1>4
  <2>3. (CHOOSE n : P(n)) = 1
    <3> HIDE DEF P
    <3> QED
      BY <2>1, <2>2
  <2> QED
    BY <2>3
<1> QED
  BY <1>5 DEF Assigned, Derived, SlugsAgree

(* Changing rows without touching their entity ids keeps these unique.     *)
RowsNamed(rows, this, name) == (rows \ this) \cup {[r EXCEPT !.name = name] : r \in this}

LEMMA RowsKeepTheirIds ==
  ASSUME NEW rows, rows \subseteq HelperRows, \A r, s \in rows : r.eid = s.eid => r = s,
         NEW this \in SUBSET rows, NEW name \in Names
  PROVE  /\ RowsNamed(rows, this, name) \subseteq HelperRows
         /\ \A r, s \in RowsNamed(rows, this, name) : r.eid = s.eid => r = s
<1> PICK new : new = RowsNamed(rows, this, name)
  OBVIOUS
<1>1. \A r \in HelperRows : [r EXCEPT !.name = name] \in HelperRows /\ [r EXCEPT !.name = name].eid = r.eid
  BY DEF HelperRows
<1>2. \A r \in new : \E s \in rows : r.eid = s.eid /\ r \in HelperRows
                                     /\ r = IF s \in this THEN [s EXCEPT !.name = name] ELSE s
  <2> SUFFICES ASSUME NEW r \in new
               PROVE  \E s \in rows : r.eid = s.eid /\ r \in HelperRows
                                     /\ r = IF s \in this THEN [s EXCEPT !.name = name] ELSE s
    OBVIOUS
  <2>1. CASE r \in rows \ this
    BY <2>1
  <2>2. CASE \E s \in this : r = [s EXCEPT !.name = name]
    BY <1>1, <2>2
  <2> QED
    BY <2>1, <2>2 DEF RowsNamed
<1> QED
  BY <1>2

LEMMA HelperStepOK == HelperInv /\ [HelperNext]_helperVars => HelperInv'
<1> SUFFICES ASSUME HelperInv, [HelperNext]_helperVars
             PROVE  HelperInv'
  OBVIOUS
<1>1. /\ hjob \in HelperJobs /\ houtside \in Nat /\ IsFiniteSet(hbefore)
      /\ hjob.pc = "idle" => houtside = 0 /\ hjob = IdleHelper /\ IsFiniteSet(helpers)
      /\ hjob.tool \in {"create", "update"} => hjob.name \in Names
      /\ hjob.pc = "rename" => hjob.to # Unchanged
  BY DEF HelperInv, HelperTypeOK
<1>2. Quiet /\ ~Strayed => UniqueEids /\ OnTheHelper
  BY DEF HelperInv
<1>3. HelperEids \subseteq Slugs \X Nat
  BY DEF HelperEids
<1>4. IdleHelper.named = TRUE /\ IdleHelper \in HelperJobs
  BY DEF IdleHelper, HelperJobs
<1>5. CASE UNCHANGED helperVars
  BY <1>5 DEF helperVars, HelperInv, HelperTypeOK, Quiet, UniqueEids, OnTheHelper, Found, Strayed, NothingFound
<1>6. CASE PreviewCreate
  <2>1. PICK name \in Names, to \in HelperEids :
          HelperPreview([IdleHelper EXCEPT !.pc = "previewed", !.tool = "create", !.name = name,
                                           !.to = Renames(Derived(name), to)])
    BY <1>6 DEF PreviewCreate
  <2>2. PICK t : t = Renames(Derived(name), to)
    OBVIOUS
  <2>3. t \in (Slugs \X Nat) \cup {Unchanged}
    BY <1>3, <2>1, <2>2 DEF Renames
  <2>4. hjob' = [IdleHelper EXCEPT !.pc = "previewed", !.tool = "create", !.name = name, !.to = t]
    BY <2>1, <2>2 DEF HelperPreview
  <2>5. hjob' \in HelperJobs /\ hjob'.pc = "previewed" /\ hjob'.tool = "create" /\ hjob'.name = name
    <3>1. <<>> \in Seq(HelperTargets)
      OBVIOUS
    <3> QED
      BY <2>1, <2>3, <2>4, <3>1 DEF IdleHelper, HelperJobs
  <2>6. hjob.pc = "idle" /\ hbefore' = helpers /\ houtside' = 0 /\ helpers' = helpers
    BY <1>6, <2>1 DEF PreviewCreate, HelperPreview
  <2>7. UniqueEids
    BY <1>1, <1>2, <1>4, <2>6 DEF Quiet, Strayed
  <2> QED
    BY <1>1, <2>5, <2>6, <2>7 DEF HelperInv, HelperTypeOK, UniqueEids, OnTheHelper, Strayed
<1>7. CASE PreviewUpdate
  <2>1. PICK eid \in HelperEids, to \in HelperEids, name \in Names : \E r \in Resolved(eid) :
          HelperPreview([IdleHelper EXCEPT !.pc = "previewed", !.tool = "update", !.name = name,
                                           !.to = Renames(eid, to), !.targets = <<Target(r, eid)>>,
                                           !.answer = eid, !.named = Indexed(eid) # {}])
    BY <1>7 DEF PreviewUpdate
  <2>2. PICK r \in Resolved(eid) :
          HelperPreview([IdleHelper EXCEPT !.pc = "previewed", !.tool = "update", !.name = name,
                                           !.to = Renames(eid, to), !.targets = <<Target(r, eid)>>,
                                           !.answer = eid, !.named = Indexed(eid) # {}])
    BY <2>1
  <2>3. hjob.pc = "idle" /\ hbefore' = helpers /\ houtside' = 0 /\ helpers' = helpers
    BY <1>7, <2>2 DEF PreviewUpdate, HelperPreview
  <2>4. UniqueEids
    BY <1>1, <1>2, <1>4, <2>3 DEF Quiet, Strayed
  <2>5. PICK t : t = Renames(eid, to)
    OBVIOUS
  <2>6. t \in (Slugs \X Nat) \cup {Unchanged}
    BY <1>3, <2>5 DEF Renames
  <2>7. r \in helpers /\ (Indexed(eid) # {} => r.eid = eid)
    BY DEF Resolved, Indexed, SameName
  <2>8. PICK target : target = Target(r, eid)
    OBVIOUS
  <2>9. target \in HelperTargets /\ target.hid = r.hid
    BY <1>3, <2>4, <2>7, <2>8 DEF Target, HelperTargets, UniqueEids, HelperRows
  <2>10. PICK b \in BOOLEAN : b = (Indexed(eid) # {})
    OBVIOUS
  <2>11. hjob' = [IdleHelper EXCEPT !.pc = "previewed", !.tool = "update", !.name = name, !.to = t,
                                    !.targets = <<target>>, !.answer = eid, !.named = b]
    BY <2>2, <2>5, <2>8, <2>10 DEF HelperPreview
  <2>12. /\ hjob'.pc = "previewed" /\ hjob'.tool = "update" /\ hjob'.targets = <<target>>
         /\ hjob'.answer = eid /\ hjob'.named = b /\ hjob'.name = name
    BY <2>11 DEF IdleHelper
  <2>13. hjob' \in HelperJobs
    <3>1. <<target>> \in Seq(HelperTargets)
      BY <2>9
    <3> QED
      BY <1>3, <2>6, <2>11, <3>1 DEF IdleHelper, HelperJobs
  <2>14. b => Found'
    <3>1. hjob'.targets # <<>> /\ hjob'.targets[1] = target
      BY <2>12
    <3> QED
      BY <2>3, <2>7, <2>9, <2>10, <2>12, <3>1 DEF Found
  <2> QED
    BY <1>1, <2>3, <2>4, <2>12, <2>13, <2>14 DEF HelperInv, HelperTypeOK, Quiet, UniqueEids, OnTheHelper, Strayed
<1>8. CASE PreviewDelete
  <2>1. PICK eids \in SeqOf({eid \in HelperEids : Resolved(eid) # {}}, MaxHelpers) :
          \E row \in [DOMAIN eids -> helpers] :
             HelperPreview([IdleHelper EXCEPT !.pc = "previewed", !.tool = "delete",
                                              !.targets = [i \in DOMAIN eids |-> Target(row[i], eids[i])],
                                              !.named = \A i \in DOMAIN eids : Indexed(eids[i]) # {}])
    BY <1>8 DEF PreviewDelete
  <2>2. PICK row \in [DOMAIN eids -> helpers] :
             HelperPreview([IdleHelper EXCEPT !.pc = "previewed", !.tool = "delete",
                                              !.targets = [i \in DOMAIN eids |-> Target(row[i], eids[i])],
                                              !.named = \A i \in DOMAIN eids : Indexed(eids[i]) # {}])
    BY <2>1
  <2>3. hjob.pc = "idle" /\ hbefore' = helpers /\ houtside' = 0 /\ helpers' = helpers
    BY <1>8, <2>2 DEF PreviewDelete, HelperPreview
  <2>4. UniqueEids
    BY <1>1, <1>2, <1>4, <2>3 DEF Quiet, Strayed
  <2>5. PICK n \in Nat : eids \in [1..n -> HelperEids]
    <3>1. \E n \in 0..MaxHelpers : eids \in [1..n -> {eid \in HelperEids : Resolved(eid) # {}}]
      BY DEF SeqOf
    <3> QED
      BY <3>1, HelperAssumption
  <2>6. PICK targets : targets = [i \in DOMAIN eids |-> Target(row[i], eids[i])]
    OBVIOUS
  <2>7. targets \in Seq(HelperTargets)
    <3>1. \A i \in 1..n : Target(row[i], eids[i]) \in HelperTargets
      BY <1>3, <2>4, <2>5 DEF Target, HelperTargets, UniqueEids, HelperRows
    <3> QED
      BY <2>5, <2>6, <3>1
  <2>8. PICK b \in BOOLEAN : b = \A i \in DOMAIN eids : Indexed(eids[i]) # {}
    OBVIOUS
  <2>9. hjob' = [IdleHelper EXCEPT !.pc = "previewed", !.tool = "delete", !.targets = targets, !.named = b]
    BY <2>2, <2>6, <2>8 DEF HelperPreview
  <2>10. hjob' \in HelperJobs /\ hjob'.pc = "previewed" /\ hjob'.tool = "delete"
    BY <2>7, <2>9 DEF IdleHelper, HelperJobs
  <2> QED
    BY <1>1, <2>3, <2>4, <2>10 DEF HelperInv, HelperTypeOK, UniqueEids, OnTheHelper, Strayed
<1>9. CASE ConfirmHelper
  <2>1. PICK name \in IF hjob.tool = "create" THEN Names ELSE {hjob.name} :
          hjob' = [hjob EXCEPT !.pc = "run", !.named = @ /\ name = hjob.name,
                               !.answer = IF hjob.tool = "create" THEN Derived(name) ELSE @]
    BY <1>9 DEF ConfirmHelper
  <2>2. hjob.pc = "previewed" /\ UNCHANGED <<helpers, hbefore, houtside>>
    BY <1>9 DEF ConfirmHelper
  <2>3. PICK b \in BOOLEAN : b = (hjob.named /\ name = hjob.name)
    OBVIOUS
  <2>4. PICK answer : answer = IF hjob.tool = "create" THEN Derived(name) ELSE hjob.answer
    OBVIOUS
  <2>5. answer \in (Slugs \X Nat) \cup {Unchanged}
    BY <1>1, <2>1, <2>4 DEF Derived, Names, HelperJobs
  <2>6. hjob' = [hjob EXCEPT !.pc = "run", !.named = b, !.answer = answer]
    BY <2>1, <2>3, <2>4
  <2>7. /\ hjob' \in HelperJobs /\ hjob'.pc = "run" /\ hjob'.tool = hjob.tool /\ hjob'.targets = hjob.targets
        /\ hjob'.name = hjob.name /\ hjob'.named = b /\ hjob'.answer = answer
    BY <1>1, <2>5, <2>6 DEF HelperJobs
  <2>8. b => hjob.named /\ name = hjob.name
    BY <2>3
  <2> QED
    BY <1>1, <1>2, <2>2, <2>4, <2>7, <2>8 DEF HelperInv, HelperTypeOK, Quiet, UniqueEids, OnTheHelper, Found, Strayed
<1>10. CASE CreateHelper
  <2>1. PICK hid : hid = Cardinality(hbefore) + 1
    OBVIOUS
  <2>2. hid \in Nat
    BY <1>1, <2>1, FS_CardinalityType
  <2>3. PICK made : made = [hid |-> hid, eid |-> Assigned(hjob.name), name |-> hjob.name, yaml |-> FALSE]
    OBVIOUS
  <2>4. PICK ok \in BOOLEAN :
          /\ Attempt(TRUE, helpers \cup {made}, ok)
          /\ hjob' = [hjob EXCEPT !.pc = IF ok THEN NextAfterWrite ELSE "discarded", !.saved = ok,
                                  !.errors = ~ok, !.named = @ /\ ~Taken(Derived(hjob.name)),
                                  !.targets = <<[hid |-> hid, eid |-> hjob.answer]>>]
    BY <1>10, <2>1, <2>3 DEF CreateHelper
  <2>5. hjob.pc = "run" /\ hjob.tool = "create" /\ UNCHANGED <<hbefore, houtside>>
    BY <1>10 DEF CreateHelper
  <2>6. PICK pc \in {"done", "rename", "discarded"} :
          pc = (IF ok THEN NextAfterWrite ELSE "discarded") /\ (~ok <=> pc = "discarded")
    BY DEF NextAfterWrite
  <2>7. PICK b \in BOOLEAN : b = (hjob.named /\ ~Taken(Derived(hjob.name)))
    OBVIOUS
  <2>8. PICK err \in BOOLEAN : err = ~ok
    OBVIOUS
  <2>9. <<[hid |-> hid, eid |-> hjob.answer]>> \in Seq(HelperTargets)
    <3>1. [hid |-> hid, eid |-> hjob.answer] \in HelperTargets
      BY <1>1, <2>2 DEF HelperJobs, HelperTargets
    <3> QED
      BY <3>1, OneCommand
  <2>10. PICK targets \in Seq(HelperTargets) : targets = <<[hid |-> hid, eid |-> hjob.answer]>>
    BY <2>9
  <2>11. hjob' = [hjob EXCEPT !.pc = pc, !.saved = ok, !.errors = err, !.named = b, !.targets = targets]
    BY <2>4, <2>6, <2>7, <2>8, <2>10
  <2>12. /\ hjob' \in HelperJobs /\ hjob'.pc = pc /\ hjob'.tool = "create" /\ hjob'.name = hjob.name
         /\ hjob'.targets = targets /\ hjob'.named = b /\ hjob'.answer = hjob.answer /\ hjob'.to = hjob.to
    BY <1>1, <2>5, <2>11, ZenonT(40) DEF HelperJobs
  <2>13. pc = "rename" => hjob.to # Unchanged
    BY <2>6 DEF NextAfterWrite
  <2>14. ASSUME b, houtside = 0, SlugsAgree(hjob.name)
         PROVE  UniqueEids' /\ (pc \in {"rename", "done"} => Found')
    <3>1. hjob.named /\ ~Taken(Derived(hjob.name))
      BY <2>7, <2>14
    <3>2. UniqueEids /\ hjob.answer = Derived(hjob.name)
      BY <1>2, <2>5, <2>14, <3>1 DEF Quiet, OnTheHelper, Strayed
    <3>3. made.eid = hjob.answer /\ made.hid = hid /\ made \in HelperRows
      <4>1. Assigned(hjob.name) = Derived(hjob.name) /\ hjob.name \in Names
        BY <1>1, <2>5, <2>14, <3>1, FreeIdIsKept
      <4> QED
        BY <2>2, <2>3, <3>2, <4>1 DEF HelperRows, Derived, Names
    <3>4. \A r \in helpers : r.eid # made.eid
      BY <3>1, <3>2, <3>3 DEF Taken
    <3>5. helpers' = helpers \cup {made} \/ (helpers' = helpers /\ ~ok)
      BY <2>4 DEF Attempt
    <3>6. UniqueEids'
      BY <3>2, <3>3, <3>4, <3>5 DEF UniqueEids
    <3>7. pc \in {"rename", "done"} => Found'
      <4>1. SUFFICES ASSUME ok
                     PROVE  Found'
        BY <2>6
      <4>2. targets # <<>> /\ targets[1].hid = hid
        BY <2>10
      <4> QED
        BY <2>12, <3>3, <3>5, <4>1, <4>2 DEF Found
    <3> QED
      BY <3>6, <3>7
  <2>15. ASSUME b, houtside = 0, ~SlugsAgree(hjob.name)
         PROVE  \A r \in helpers' : r.eid # hjob.answer
    <3>1. hjob.named /\ ~Taken(Derived(hjob.name))
      BY <2>7, <2>15
    <3>2. hjob.answer = Derived(hjob.name)
      BY <1>2, <2>5, <2>15, <3>1 DEF Quiet, OnTheHelper, Strayed
    <3>3. \A r \in helpers : r.eid # hjob.answer
      BY <3>1, <3>2 DEF Taken
    <3>4. made.eid # hjob.answer
      <4>1. made.eid = Assigned(hjob.name)
        BY <2>3
      <4> QED
        BY <2>15, <3>2, <4>1 DEF Assigned, Derived, SlugsAgree
    <3> QED
      BY <2>4, <3>3, <3>4 DEF Attempt
  <2>16. (SlugsAgree(hjob.name) => ~Strayed') /\ (~SlugsAgree(hjob.name) => Strayed')
    BY <2>6, <2>12 DEF Strayed, SlugsAgree
  <2> QED
    BY <1>1, <2>5, <2>12, <2>13, <2>14, <2>15, <2>16 DEF HelperInv, HelperTypeOK, Quiet, OnTheHelper, NothingFound
<1>11. CASE UpdateHelper
  <2>1. PICK this : this = {r \in helpers : r.hid = hjob.targets[1].hid}
    OBVIOUS
  <2>2. PICK new : new = (helpers \ this) \cup {[r EXCEPT !.name = hjob.name] : r \in this}
    OBVIOUS
  <2>3. PICK ok \in BOOLEAN :
          /\ Attempt(this # {}, new, ok)
          /\ hjob' = [hjob EXCEPT !.pc = IF ok THEN NextAfterWrite ELSE "discarded", !.saved = ok, !.errors = ~ok]
    BY <1>11, <2>1, <2>2 DEF UpdateHelper
  <2>4. hjob.pc = "run" /\ hjob.tool = "update" /\ UNCHANGED <<hbefore, houtside>>
    BY <1>11 DEF UpdateHelper
  <2>5. PICK pc \in {"done", "rename", "discarded"} :
          pc = (IF ok THEN NextAfterWrite ELSE "discarded") /\ (~ok <=> pc = "discarded")
    BY DEF NextAfterWrite
  <2>6. PICK err \in BOOLEAN : err = ~ok
    OBVIOUS
  <2>7. hjob' = [hjob EXCEPT !.pc = pc, !.saved = ok, !.errors = err]
    BY <2>3, <2>5, <2>6
  <2>8. /\ hjob' \in HelperJobs /\ hjob'.pc = pc /\ hjob'.tool = "update" /\ hjob'.name = hjob.name
        /\ hjob'.targets = hjob.targets /\ hjob'.named = hjob.named /\ hjob'.answer = hjob.answer
        /\ hjob'.to = hjob.to
    BY <1>1, <2>4, <2>7 DEF HelperJobs
  <2>9. pc = "rename" => hjob.to # Unchanged
    BY <2>5 DEF NextAfterWrite
  <2>10. ASSUME Quiet
         PROVE  UniqueEids' /\ Found'
    <3>1. UniqueEids /\ Found /\ hjob.name \in Names
      BY <1>1, <1>2, <2>4, <2>10 DEF OnTheHelper, Strayed
    <3>2. helpers' = new \/ helpers' = helpers
      BY <2>3 DEF Attempt
    <3>3. new \subseteq HelperRows /\ \A r, s \in new : r.eid = s.eid => r = s
      <4>1. helpers \subseteq HelperRows /\ \A r, s \in helpers : r.eid = s.eid => r = s
        BY <3>1 DEF UniqueEids
      <4>2. this \in SUBSET helpers
        BY <2>1
      <4>3. new = RowsNamed(helpers, this, hjob.name)
        BY <2>2 DEF RowsNamed
      <4> QED
        BY <3>1, <4>1, <4>2, <4>3, RowsKeepTheirIds
    <3>4. PICK r \in helpers : r.hid = hjob.targets[1].hid /\ r.eid = hjob.answer
      BY <3>1 DEF Found
    <3>5. [r EXCEPT !.name = hjob.name] \in new
      BY <2>1, <2>2, <3>4
    <3>6. [r EXCEPT !.name = hjob.name].hid = r.hid /\ [r EXCEPT !.name = hjob.name].eid = r.eid
      BY <3>1, <3>4 DEF UniqueEids, HelperRows
    <3>7. \E s \in helpers' : s.hid = hjob.targets[1].hid /\ s.eid = hjob.answer
      BY <3>2, <3>4, <3>5, <3>6
    <3> QED
      BY <2>8, <3>1, <3>2, <3>3, <3>7 DEF UniqueEids, Found
  <2> QED
    BY <1>1, <2>4, <2>8, <2>9, <2>10 DEF HelperInv, HelperTypeOK, Quiet, OnTheHelper, Strayed
<1>12. CASE RenameHelper
  <2>1. PICK this : this = {r \in helpers : r.eid = hjob.answer}
    OBVIOUS
  <2>2. PICK new : new = (helpers \ this) \cup {[r EXCEPT !.eid = hjob.to] : r \in this}
    OBVIOUS
  <2>3. PICK ok \in BOOLEAN : Attempt(this # {} /\ ~Taken(hjob.to), new, ok) /\ HelperRenamed(ok)
    BY <1>12, <2>1, <2>2 DEF RenameHelper
  <2>4. hjob.pc = "rename" /\ UNCHANGED <<hbefore, houtside>>
    BY <1>12 DEF RenameHelper
  <2>5. PICK err \in BOOLEAN : err = ~ok
    OBVIOUS
  <2>6. PICK answer \in (Slugs \X Nat) \cup {Unchanged} : answer = IF ok THEN hjob.to ELSE hjob.answer
    BY <1>1 DEF HelperJobs
  <2>7. hjob' = [hjob EXCEPT !.pc = "done", !.answer = answer, !.errors = err]
    BY <2>3, <2>5, <2>6 DEF HelperRenamed
  <2>8. /\ hjob' \in HelperJobs /\ hjob'.pc = "done" /\ hjob'.tool = hjob.tool /\ hjob'.name = hjob.name
        /\ hjob'.targets = hjob.targets /\ hjob'.named = hjob.named /\ hjob'.answer = answer
        /\ hjob'.errors = err
    BY <1>1, <2>4, <2>7 DEF HelperJobs
  <2>9. ASSUME Quiet, ~Strayed
        PROVE  UniqueEids' /\ (~err => Found')
    <3>1. UniqueEids /\ Found /\ hjob.to \in Slugs \X Nat
      BY <1>1, <1>2, <2>4, <2>9 DEF OnTheHelper, HelperJobs
    <3>2. PICK r \in helpers : r.hid = hjob.targets[1].hid /\ r.eid = hjob.answer
      BY <3>1 DEF Found
    <3>3. this = {r}
      BY <2>1, <3>1, <3>2 DEF UniqueEids
    <3>4. PICK s : s = [r EXCEPT !.eid = hjob.to]
      OBVIOUS
    <3>5. s \in HelperRows /\ s.eid = hjob.to /\ s.hid = r.hid
      BY <3>1, <3>2, <3>4 DEF UniqueEids, HelperRows
    <3>6. new = (helpers \ {r}) \cup {s}
      BY <2>2, <3>3, <3>4
    <3>7. (helpers' = new /\ ~Taken(hjob.to)) \/ (helpers' = helpers /\ ~ok)
      BY <2>3 DEF Attempt
    <3>8. UniqueEids'
      BY <3>1, <3>5, <3>6, <3>7 DEF UniqueEids, Taken
    <3>9. ~err => Found'
      BY <2>5, <2>6, <2>8, <3>1, <3>2, <3>5, <3>6, <3>7 DEF Found
    <3> QED
      BY <3>8, <3>9
  <2>10. Strayed' <=> Strayed
    BY <2>4, <2>8 DEF Strayed, SlugsAgree
  <2> QED
    BY <1>1, <2>4, <2>8, <2>9, <2>10 DEF HelperInv, HelperTypeOK, Quiet, OnTheHelper, NothingFound
<1>13. CASE DeleteHelper
  <2>1. PICK this : this = {r \in helpers : r.hid = Head(hjob.targets).hid}
    OBVIOUS
  <2>2. PICK ok \in BOOLEAN :
          /\ Attempt(this # {}, helpers \ this, ok)
          /\ hjob' = [hjob EXCEPT !.targets = Tail(@), !.saved = TRUE, !.errors = @ \/ ~ok]
    BY <1>13, <2>1 DEF DeleteHelper
  <2>3. hjob.pc = "run" /\ hjob.tool = "delete" /\ hjob.targets # <<>> /\ UNCHANGED <<hbefore, houtside>>
    BY <1>13 DEF DeleteHelper
  <2>4. PICK err \in BOOLEAN : err = (hjob.errors \/ ~ok)
    OBVIOUS
  <2>5. PICK targets \in Seq(HelperTargets) : targets = Tail(hjob.targets)
    <3>1. hjob.targets \in Seq(HelperTargets)
      BY <1>1 DEF HelperJobs
    <3>2. Tail(hjob.targets) \in Seq(HelperTargets)
      BY <2>3, <3>1
    <3> QED
      BY <3>2
  <2>6. hjob' = [hjob EXCEPT !.targets = targets, !.saved = TRUE, !.errors = err]
    BY <2>2, <2>4, <2>5
  <2>7. hjob' \in HelperJobs /\ hjob'.pc = "run" /\ hjob'.tool = "delete" /\ hjob'.named = hjob.named
    BY <1>1, <2>3, <2>6 DEF HelperJobs
  <2>8. helpers' \subseteq helpers
    BY <2>2 DEF Attempt
  <2>9. UniqueEids => UniqueEids'
    BY <2>8 DEF UniqueEids
  <2> QED
    BY <1>1, <1>2, <2>3, <2>7, <2>9 DEF HelperInv, HelperTypeOK, Quiet, OnTheHelper, Strayed
<1>14. CASE EndDelete \/ RollBackHelper \/ RollBackHelperAgain
  <2>1. PICK pc \in {"done", "raised", "already rolled back"}, saved \in BOOLEAN :
          /\ hjob' = [hjob EXCEPT !.pc = pc, !.saved = saved]
          /\ pc = "done" => hjob.tool = "delete"
          /\ hjob.pc \in {"run", "done", "raised"} /\ (hjob.pc = "run" => hjob.tool = "delete")
    <3>1. CASE EndDelete
      <4>1. PICK saved \in BOOLEAN : saved = hjob.saved
        BY <1>1 DEF HelperJobs
      <4>2. hjob' = [hjob EXCEPT !.pc = "done"] /\ hjob.tool = "delete" /\ hjob.pc = "run"
        BY <3>1 DEF EndDelete
      <4>3. hjob' = [hjob EXCEPT !.pc = "done", !.saved = saved]
        BY <1>1, <4>1, <4>2 DEF HelperJobs
      <4> QED
        BY <4>2, <4>3
    <3>2. CASE RollBackHelper
      BY <3>2 DEF RollBackHelper
    <3>3. CASE RollBackHelperAgain
      BY <1>1, <3>3 DEF RollBackHelperAgain, HelperJobs
    <3> QED
      BY <1>14, <3>1, <3>2, <3>3
  <2>2. /\ hjob' \in HelperJobs /\ hjob'.pc = pc /\ hjob'.tool = hjob.tool /\ hjob'.named = hjob.named
        /\ hjob'.name = hjob.name
    BY <1>1, <2>1 DEF HelperJobs
  <2>3. UNCHANGED <<helpers, hbefore, houtside>>
    BY <1>14 DEF EndDelete, RollBackHelper, RollBackHelperAgain
  <2>4. Strayed' <=> Strayed
    BY <2>1, <2>2 DEF Strayed, SlugsAgree
  <2> QED
    BY <1>1, <1>2, <2>1, <2>2, <2>3, <2>4 DEF HelperInv, HelperTypeOK, Quiet, UniqueEids, OnTheHelper, NothingFound
<1>15. CASE HelperOutside
  <2>1. houtside' = houtside + 1 /\ UNCHANGED <<hjob, hbefore>> /\ hjob.pc # "idle"
    BY <1>15 DEF HelperOutside
  <2> QED
    BY <1>1, <2>1 DEF HelperInv, HelperTypeOK, Quiet
<1> QED
  BY <1>5, <1>6, <1>7, <1>8, <1>9, <1>10, <1>11, <1>12, <1>13, <1>14, <1>15 DEF HelperNext

LEMMA HelperInvHolds == HelperSpec => []HelperInv
BY HelperInitOK, HelperStepOK, PTL DEF HelperSpec

(* A helper call that named a helper of the registry and met nobody ends   *)
(* with the entity id it reports on the helper it wrote to, for any number *)
(* of helpers and names; one that makes a helper does so when _slugify     *)
(* reads the name as Home Assistant does (tools/helper.py).                *)
THEOREM HelpersAnswerTruly == HelperSpec => []AnswerNamesTheHelper
<1>1. HelperInv => AnswerNamesTheHelper
  <2>1. SUFFICES ASSUME HelperInv, hjob.pc = "done", hjob.tool # "delete", ~hjob.errors, hjob.named, houtside = 0,
                        hjob.tool = "create" => SlugsAgree(hjob.name)
                 PROVE  \E r \in helpers : r.hid = hjob.targets[1].hid /\ r.eid = hjob.answer
    BY DEF AnswerNamesTheHelper
  <2> QED
    BY <2>1 DEF HelperInv, Quiet, OnTheHelper, Found, Strayed
<1> QED
  BY <1>1, HelperInvHolds, PTL

(* Nor does such a call touch a helper it did not name.                    *)
THEOREM OthersStay == HelperSpec => OnlyNamedHelpersChange
<1> DEFINE Step == hjob.pc \in {"run", "rename"} /\ hjob'.named /\ houtside' = 0 =>
                     \A r \in helpers \ helpers' : \E i \in DOMAIN hjob.targets : hjob.targets[i].hid = r.hid
<1>1. HelperInv /\ [HelperNext]_helperVars => [Step]_helperVars
  <2>1. SUFFICES ASSUME HelperInv, HelperNext, hjob.pc \in {"run", "rename"}, hjob'.named, houtside' = 0,
                        NEW r \in helpers \ helpers'
                 PROVE  \E i \in DOMAIN hjob.targets : hjob.targets[i].hid = r.hid
    OBVIOUS
  <2>2. hjob.targets \in Seq(HelperTargets) /\ houtside \in Nat /\ hjob \in HelperJobs
    BY <2>1 DEF HelperInv, HelperTypeOK, HelperJobs
  <2>3. hjob.targets # <<>> => 1 \in DOMAIN hjob.targets /\ Head(hjob.targets) = hjob.targets[1]
    BY <2>2
  <2>4. CreateHelper \/ UpdateHelper \/ RenameHelper \/ DeleteHelper
    <3>1. ~(PreviewCreate \/ PreviewUpdate \/ PreviewDelete \/ ConfirmHelper \/ RollBackHelper \/ RollBackHelperAgain)
      BY <2>1 DEF PreviewCreate, PreviewUpdate, PreviewDelete, ConfirmHelper, RollBackHelper, RollBackHelperAgain
    <3>2. ~EndDelete
      BY <2>1 DEF EndDelete
    <3>3. ~HelperOutside
      BY <2>1, <2>2 DEF HelperOutside
    <3> QED
      BY <2>1, <3>1, <3>2, <3>3 DEF HelperNext
  <2>5. CASE CreateHelper
    <3>1. helpers \subseteq helpers'
      BY <2>5 DEF CreateHelper, Attempt
    <3> QED
      BY <2>1, <3>1
  <2>6. CASE DeleteHelper
    <3>1. hjob.targets # <<>> /\ r.hid = Head(hjob.targets).hid
      BY <2>1, <2>6 DEF DeleteHelper, Attempt
    <3> QED
      BY <2>3, <3>1
  <2>7. CASE UpdateHelper
    <3>1. r.hid = hjob.targets[1].hid
      BY <2>1, <2>7 DEF UpdateHelper, Attempt
    <3>2. hjob'.named = hjob.named /\ houtside' = houtside
      BY <2>2, <2>7 DEF UpdateHelper, HelperJobs
    <3>3. Found
      BY <2>1, <2>7, <3>2 DEF UpdateHelper, HelperInv, Quiet, OnTheHelper, Strayed
    <3> QED
      BY <2>3, <3>1, <3>3 DEF Found
  <2>8. CASE RenameHelper
    <3>1. r \in helpers /\ r.eid = hjob.answer
      BY <2>1, <2>8 DEF RenameHelper, Attempt
    <3>2. hjob'.named = hjob.named /\ houtside' = houtside
      BY <2>2, <2>8 DEF RenameHelper, HelperRenamed, HelperJobs
    <3>3. Found /\ UniqueEids
      BY <2>1, <2>8, <3>1, <3>2 DEF RenameHelper, HelperInv, Quiet, OnTheHelper, NothingFound
    <3> QED
      BY <2>3, <3>1, <3>3 DEF Found, UniqueEids
  <2> QED
    BY <2>4, <2>5, <2>6, <2>7, <2>8
<1> QED
  BY <1>1, HelperInvHolds, PTL DEF HelperSpec, OnlyNamedHelpersChange

--------------------------------------------------------------------------------
(* Entities.  What every row and reference was at the preview it is still, *)
(* or the undo entries say how it gets back.                               *)
EntityRows == [uid : Uids, id : EntityIds, on : BOOLEAN]

RowCommands == [id : EntityIds, to : EntityIds \cup {"on", "off", "remove"}]
PlaceCommands == [id : Places, to : EntityIds]
EntityCommands == RowCommands \cup PlaceCommands

EntityJobs ==
  [pc : {"idle", "previewed", "items", "done", "undo", "undone", "over"},
   tool : {"none", "remove", "toggle", "rename"},
   items : Seq([do : RowCommands, undo : RowCommands]),
   plan : SUBSET [place : Places, old : EntityIds, new : EntityIds], planned : SUBSET Places,
   undo : Seq(EntityCommands), errors : BOOLEAN]

UniqueRows(rows) ==
  /\ rows \subseteq EntityRows
  /\ \A r, s \in rows : r.id = s.id => r = s
  /\ \A r, s \in rows : r.uid = s.uid => r = s

EntityTypeOK ==
  /\ UniqueRows(entities)
  /\ refs \in [Places -> EntityIds \cup {"torn"}]
  /\ job \in EntityJobs
  /\ before \in [entities : SUBSET EntityRows, refs : [Places -> EntityIds]]
  /\ UniqueRows(before.entities)
  /\ job.pc = "idle" => refs \in [Places -> EntityIds]
  /\ job.pc \in {"done", "undo", "undone"} => job.items = <<>> /\ job.plan = {}
  /\ job.pc = "undone" => job.undo = <<>>

(* A row when a command that keeps it has been executed.                   *)
RowAfter(c, r) ==
  CASE c.to = "on"  -> [r EXCEPT !.on = TRUE]
    [] c.to = "off" -> [r EXCEPT !.on = FALSE]
    [] OTHER        -> [r EXCEPT !.id = c.to]

Entries(s) == {s[k] : k \in DOMAIN s}

(* What the call can still undo: what it did, and what it may yet do.      *)
Undos ==
  Entries(job.undo) \cup {job.items[i].undo : i \in DOMAIN job.items}
    \cup {Command(w.place, w.old) : w \in job.plan}

(* Undo entries agree with each other and with the preview, and a rename   *)
(* leaves from ids that exist for ids that do not.                         *)
UndosAgree ==
  /\ \A c, d \in Undos : c.id = d.id => c.to = d.to
  /\ \A c \in Undos, b \in before.entities : c.id = b.id => RowAfter(c, b) = b
  /\ \A c \in Undos : c.id \in Places => c.to = before.refs[c.id]
  /\ \A c \in Undos : c.id \in EntityIds => c.to # "remove"

Toggles(item) ==
  /\ item.do.id = item.undo.id
  /\ item.do.to \in {"on", "off"} /\ item.undo.to \in {"on", "off"}

Moves(item) ==
  /\ item.undo = Command(item.do.to, item.do.id)
  /\ item.do.to \in EntityIds
  /\ \E b \in before.entities : b.id = item.do.id

ItemsFit ==
  \/ job.tool = "toggle" /\ \A i \in DOMAIN job.items : Toggles(job.items[i])
  \/ /\ job.tool = "rename"
     /\ \A i \in DOMAIN job.items : Moves(job.items[i])
     /\ \A c \in Undos : \A b \in before.entities : c.id # b.id

SameUids ==
  /\ \A r \in entities : \E b \in before.entities : b.uid = r.uid
  /\ \A b \in before.entities : \E r \in entities : r.uid = b.uid

RowsComeBack ==
  \A r \in entities, b \in before.entities : r.uid = b.uid =>
    r = b \/ \E c \in Entries(job.undo) : c.id = r.id /\ RowAfter(c, r) = b

RefsComeBack ==
  \A p \in Places :
    refs[p] = before.refs[p] \/ Command(p, before.refs[p]) \in Entries(job.undo)

Undoing == job.pc \in {"undo", "undone"}

CanGoBack ==
  job.pc \in {"previewed", "items", "done", "undo", "undone"} /\ job.tool # "remove" /\ outside = {}
    /\ ~(Undoing /\ job.errors)
    => UndosAgree /\ (~Undoing => ItemsFit) /\ SameUids /\ RowsComeBack /\ RefsComeBack

(* A planned reference is moved after the entity.                          *)
EntitiesFirst ==
  job.pc \in {"previewed", "items", "done"} /\ job.tool = "rename" /\ ~job.errors /\ outside \subseteq {"file"} =>
    /\ \A i \in DOMAIN job.items : Moves(job.items[i])
    /\ \A w \in job.plan : \A b \in before.entities : w.new # b.id
    /\ \A w \in job.plan : HasRow(w.new) \/ \E i \in DOMAIN job.items : job.items[i].do.to = w.new
    /\ \A p \in job.planned : (\E w \in job.plan : w.place = p) \/ (job.items = <<>> /\ HasRow(refs[p]))

EntityInv == EntityTypeOK /\ CanGoBack /\ EntitiesFirst

LEMMA RowAfterForm ==
  ASSUME NEW r \in EntityRows, NEW c \in EntityCommands, c.to # "remove"
  PROVE  /\ RowAfter(c, r) \in EntityRows /\ RowAfter(c, r).uid = r.uid
         /\ c.to \in {"on", "off"} => RowAfter(c, r).id = r.id
         /\ c.to \notin {"on", "off"} => c.to \in EntityIds /\ RowAfter(c, r).id = c.to
<1>1. c.to \in EntityIds \cup {"on", "off"}
  BY DEF EntityCommands, RowCommands, PlaceCommands
<1>2. CASE c.to = "on"
  <2>1. RowAfter(c, r) = [r EXCEPT !.on = TRUE]
    BY <1>2, Zenon DEF RowAfter
  <2> QED
    BY <1>2, <2>1 DEF EntityRows
<1>3. CASE c.to = "off"
  <2>1. c.to # "on"
    BY <1>3
  <2>2. RowAfter(c, r) = [r EXCEPT !.on = FALSE]
    BY <1>3, <2>1, Zenon DEF RowAfter
  <2> QED
    BY <1>3, <2>2 DEF EntityRows
<1>4. CASE c.to \notin {"on", "off"}
  <2>1. RowAfter(c, r) = [r EXCEPT !.id = c.to]
    BY <1>4, Zenon DEF RowAfter
  <2> QED
    BY <1>1, <1>4, <2>1 DEF EntityRows
<1> QED
  BY <1>2, <1>3, <1>4

LEMMA ExecuteRow ==
  ASSUME UniqueRows(entities), NEW c \in RowCommands, Accepts(c), Execute(c)
  PROVE  /\ refs' = refs
         /\ \E r \in entities :
              /\ r.id = c.id
              /\ c.to = "remove" => entities' = entities \ {r}
              /\ c.to # "remove" => entities' = (entities \ {r}) \cup {RowAfter(c, r)}
         /\ c.to \in EntityIds => ~HasRow(c.to)
<1>1. c.id \notin Places /\ c.id \in EntityIds
  BY EntityAssumption DEF RowCommands, Places
<1>2. PICK r : r = RowOf(c.id)
  OBVIOUS
<1>3. r \in entities /\ r.id = c.id
  <2>1. \E x \in entities : x.id = c.id
    BY <1>1 DEF Accepts, HasRow
  <2> QED
    BY <1>2, <2>1 DEF RowOf
<1>4. PICK changed : changed = CASE c.to = "remove" -> {}
                                 [] c.to = "on"     -> {[r EXCEPT !.on = TRUE]}
                                 [] c.to = "off"    -> {[r EXCEPT !.on = FALSE]}
                                 [] OTHER           -> {[r EXCEPT !.id = c.to]}
  OBVIOUS
<1>5. entities' = (entities \ {r}) \cup changed /\ refs' = refs
  <2>1. IF c.id \in Places
        THEN refs' = [refs EXCEPT ![c.id] = c.to] /\ UNCHANGED entities
        ELSE entities' = (entities \ {r}) \cup changed /\ UNCHANGED refs
    BY <1>2, <1>4, Zenon DEF Execute
  <2> QED
    BY <1>1, <2>1
<1>6. c.to = "remove" => changed = {}
  BY <1>4, Zenon
<1>7. ASSUME c.to # "remove"
      PROVE  changed = {RowAfter(c, r)}
  <2>1. CASE c.to = "on"
    <3>1. changed = {[r EXCEPT !.on = TRUE]}
      BY <1>4, <1>7, <2>1, Zenon
    <3>2. RowAfter(c, r) = [r EXCEPT !.on = TRUE]
      BY <2>1, Zenon DEF RowAfter
    <3> QED
      BY <3>1, <3>2
  <2>2. CASE c.to = "off"
    <3>1. c.to # "on"
      BY <2>2
    <3>2. changed = {[r EXCEPT !.on = FALSE]}
      BY <1>4, <1>7, <2>2, <3>1, Zenon
    <3>3. RowAfter(c, r) = [r EXCEPT !.on = FALSE]
      BY <2>2, <3>1, Zenon DEF RowAfter
    <3> QED
      BY <3>2, <3>3
  <2>3. CASE c.to # "on" /\ c.to # "off"
    <3>1. changed = {[r EXCEPT !.id = c.to]}
      BY <1>4, <1>7, <2>3, Zenon
    <3>2. RowAfter(c, r) = [r EXCEPT !.id = c.to]
      BY <2>3, Zenon DEF RowAfter
    <3> QED
      BY <3>1, <3>2
  <2> QED
    BY <2>1, <2>2, <2>3
<1>8. c.to \in EntityIds => ~HasRow(c.to)
  BY <1>1 DEF Accepts
<1> QED
  BY <1>3, <1>5, <1>6, <1>7, <1>8

LEMMA ExecutePlace ==
  ASSUME NEW c, c.id \in Places, Execute(c)
  PROVE  refs' = [refs EXCEPT ![c.id] = c.to] /\ entities' = entities
<1>1. IF c.id \in Places
      THEN refs' = [refs EXCEPT ![c.id] = c.to] /\ UNCHANGED entities
      ELSE UNCHANGED refs
  BY Zenon DEF Execute
<1> QED
  BY <1>1

LEMMA RowsStayUnique ==
  ASSUME UniqueRows(entities), NEW c \in RowCommands, Accepts(c), Execute(c)
  PROVE  UniqueRows(entities')
<1>1. PICK r \in entities :
        /\ r.id = c.id
        /\ c.to = "remove" => entities' = entities \ {r}
        /\ c.to # "remove" => entities' = (entities \ {r}) \cup {RowAfter(c, r)}
  BY ExecuteRow
<1>2. c.to \in EntityIds => ~HasRow(c.to)
  BY ExecuteRow
<1>3. CASE c.to = "remove"
  BY <1>1, <1>3 DEF UniqueRows
<1>4. CASE c.to # "remove"
  <2>1. PICK s : s = RowAfter(c, r)
    OBVIOUS
  <2>2. /\ s \in EntityRows /\ s.uid = r.uid
        /\ s.id = r.id \/ ~HasRow(s.id)
    BY <1>2, <1>4, <2>1, RowAfterForm DEF EntityCommands, UniqueRows
  <2>3. entities' = (entities \ {r}) \cup {s}
    BY <1>1, <1>4, <2>1
  <2> QED
    BY <2>2, <2>3 DEF UniqueRows, HasRow
<1> QED
  BY <1>3, <1>4

(* Whatever a command does, it keeps the tables in form.                   *)
LEMMA CommandsKeepTheForm ==
  ASSUME UniqueRows(entities), refs \in [Places -> EntityIds \cup {"torn"}],
         NEW c \in EntityCommands, NotExecuted \/ (Accepts(c) /\ Execute(c))
  PROVE  UniqueRows(entities') /\ refs' \in [Places -> EntityIds \cup {"torn"}]
<1>1. CASE NotExecuted
  BY <1>1 DEF NotExecuted, UniqueRows
<1>2. CASE Accepts(c) /\ Execute(c) /\ c \in RowCommands
  BY <1>2, RowsStayUnique, ExecuteRow
<1>3. CASE Execute(c) /\ c \in PlaceCommands
  <2>1. c.id \in Places /\ c.to \in EntityIds
    BY <1>3 DEF PlaceCommands
  <2>2. refs' = [refs EXCEPT ![c.id] = c.to] /\ entities' = entities
    BY <1>3, <2>1, ExecutePlace
  <2> QED
    BY <2>1, <2>2
<1> QED
  BY <1>1, <1>2, <1>3 DEF EntityCommands

EntityItems == [do : RowCommands, undo : RowCommands]
EntityPlans == [place : Places, old : EntityIds, new : EntityIds]

Switch(on) == IF on THEN "on" ELSE "off"

(* What the three previews leave behind.                                   *)
Previewed(tool, items, plan) ==
  /\ job' \in EntityJobs
  /\ job'.pc = "previewed" /\ job'.tool = tool /\ job'.items = items /\ job'.plan = plan
  /\ job'.planned = {w.place : w \in plan} /\ job'.undo = <<>> /\ job'.errors = FALSE
  /\ before' = [entities |-> entities, refs |-> refs] /\ outside' = {}
  /\ entities' = entities /\ refs' = refs

LEMMA PreviewForm ==
  ASSUME NEW tool \in {"remove", "toggle", "rename"}, NEW items \in Seq(EntityItems), NEW plan \in SUBSET EntityPlans,
         Preview(tool, items, plan)
  PROVE  Previewed(tool, items, plan)
<1>1. PICK planned : planned = {w.place : w \in plan}
  OBVIOUS
<1>2. planned \subseteq Places
  BY <1>1 DEF EntityPlans
<1>3. <<>> \in Seq(EntityCommands)
  OBVIOUS
<1>4. job' = [NoJob EXCEPT !.pc = "previewed", !.tool = tool, !.items = items, !.plan = plan, !.planned = planned]
  BY <1>1 DEF Preview
<1>5. job' \in EntityJobs
  BY <1>2, <1>3, <1>4 DEF NoJob, EntityJobs, EntityItems, EntityPlans
<1>6. /\ job'.pc = "previewed" /\ job'.tool = tool /\ job'.items = items /\ job'.plan = plan
      /\ job'.planned = planned /\ job'.undo = <<>> /\ job'.errors = FALSE
  BY <1>4 DEF NoJob
<1> QED
  BY <1>1, <1>5, <1>6 DEF Previewed, Preview

LEMMA RemoveForm ==
  ASSUME EntityTypeOK, PreviewRemove
  PROVE  \E items \in Seq(EntityItems) : Preview("remove", items, {})
<1>1. PICK ids \in SeqOf({r.id : r \in entities}, MaxItems) :
        Preview("remove", [i \in DOMAIN ids |-> Undoable(Command(ids[i], "remove"), Command(ids[i], "on"))], {})
  BY DEF PreviewRemove
<1>2. PICK n \in Nat : ids \in [1..n -> EntityIds]
  <2>1. {r.id : r \in entities} \subseteq EntityIds
    BY DEF EntityTypeOK, UniqueRows, EntityRows
  <2>2. \E n \in 0..MaxItems : ids \in [1..n -> {r.id : r \in entities}]
    BY DEF SeqOf
  <2> QED
    BY <2>1, <2>2, EntityAssumption
<1>3. PICK items : items = [i \in DOMAIN ids |-> Undoable(Command(ids[i], "remove"), Command(ids[i], "on"))]
  OBVIOUS
<1>4. \A i \in 1..n : Undoable(Command(ids[i], "remove"), Command(ids[i], "on")) \in EntityItems
  BY <1>2 DEF Undoable, Command, EntityItems, RowCommands
<1>5. items \in Seq(EntityItems)
  BY <1>2, <1>3, <1>4
<1> QED
  BY <1>1, <1>3, <1>5

LEMMA ToggleForm ==
  ASSUME EntityTypeOK, PreviewToggle
  PROVE  \E enable \in BOOLEAN, items \in Seq(EntityItems) :
           /\ Preview("toggle", items, {})
           /\ \A i \in DOMAIN items : \E b \in entities :
                /\ b.on # enable
                /\ items[i] = Undoable(Command(b.id, Switch(enable)), Command(b.id, Switch(~enable)))
<1>1. PICK enable \in BOOLEAN : \E ids \in SeqOf({r.id : r \in {x \in entities : x.on # enable}}, MaxItems) :
        Preview("toggle", [i \in DOMAIN ids |->
                  Undoable(Command(ids[i], Switch(enable)), Command(ids[i], Switch(~enable)))], {})
  BY DEF PreviewToggle, Switch
<1>2. PICK ids \in SeqOf({r.id : r \in {x \in entities : x.on # enable}}, MaxItems) :
        Preview("toggle", [i \in DOMAIN ids |->
                  Undoable(Command(ids[i], Switch(enable)), Command(ids[i], Switch(~enable)))], {})
  BY <1>1
<1>3. PICK n \in Nat : ids \in [1..n -> {r.id : r \in {x \in entities : x.on # enable}}]
  BY EntityAssumption DEF SeqOf
<1>4. PICK items :
        items = [i \in DOMAIN ids |-> Undoable(Command(ids[i], Switch(enable)), Command(ids[i], Switch(~enable)))]
  OBVIOUS
<1>5. \A i \in 1..n : \E b \in entities : b.on # enable /\ ids[i] = b.id /\ b.id \in EntityIds
  BY <1>3 DEF EntityTypeOK, UniqueRows, EntityRows
<1>6. \A i \in 1..n : items[i] = Undoable(Command(ids[i], Switch(enable)), Command(ids[i], Switch(~enable)))
  BY <1>3, <1>4
<1>7. \A i \in 1..n : items[i] \in EntityItems
  <2>1. PICK on, off : on = Switch(enable) /\ off = Switch(~enable)
    OBVIOUS
  <2>2. on \in {"on", "off"} /\ off \in {"on", "off"}
    BY <2>1 DEF Switch
  <2>3. \A id \in EntityIds : Undoable(Command(id, on), Command(id, off)) \in EntityItems
    BY <2>2 DEF Undoable, Command, EntityItems, RowCommands
  <2> QED
    BY <1>5, <1>6, <2>1, <2>3
<1>8. items \in Seq(EntityItems) /\ DOMAIN items = 1..n
  BY <1>3, <1>4, <1>7
<1>9. \A i \in DOMAIN items : \E b \in entities :
        /\ b.on # enable
        /\ items[i] = Undoable(Command(b.id, Switch(enable)), Command(b.id, Switch(~enable)))
  BY <1>5, <1>6, <1>8
<1> QED
  BY <1>2, <1>4, <1>8, <1>9

LEMMA RenameForm ==
  ASSUME EntityTypeOK, PreviewRename
  PROVE  \E items \in Seq(EntityItems), plan \in SUBSET EntityPlans :
           /\ Preview("rename", items, plan)
           /\ plan = {} \/ plan = Planned(items)
           /\ \A i \in DOMAIN items :
                /\ items[i].undo = Command(items[i].do.to, items[i].do.id)
                /\ HasRow(items[i].do.id)
                /\ items[i].do.to \in EntityIds /\ ~HasRow(items[i].do.to)
           /\ \A i, j \in DOMAIN items : items[i].do.to = items[j].do.to => i = j
<1>1. PICK n \in 1..MaxItems, rewrite \in BOOLEAN :
       \E ids \in [1..n -> {r.id : r \in entities}], targets \in [1..n -> EntityIds] :
         /\ \A i \in 1..n : ~HasRow(targets[i]) /\ \A j \in 1..(i - 1) : targets[j] # targets[i]
         /\ LET items == [i \in 1..n |-> Undoable(Command(ids[i], targets[i]), Command(targets[i], ids[i]))]
            IN Preview("rename", items, IF rewrite THEN Planned(items) ELSE {})
  BY DEF PreviewRename
<1>2. PICK ids \in [1..n -> {r.id : r \in entities}], targets \in [1..n -> EntityIds] :
         /\ \A i \in 1..n : ~HasRow(targets[i]) /\ \A j \in 1..(i - 1) : targets[j] # targets[i]
         /\ LET items == [i \in 1..n |-> Undoable(Command(ids[i], targets[i]), Command(targets[i], ids[i]))]
            IN Preview("rename", items, IF rewrite THEN Planned(items) ELSE {})
  BY <1>1
<1>3. PICK items : items = [i \in 1..n |-> Undoable(Command(ids[i], targets[i]), Command(targets[i], ids[i]))]
  OBVIOUS
<1>4. PICK plan : plan = IF rewrite THEN Planned(items) ELSE {}
  OBVIOUS
<1>5. plan \in SUBSET EntityPlans /\ (plan = {} \/ plan = Planned(items))
  BY <1>4 DEF Planned, EntityPlans
<1>6. Preview("rename", items, plan)
  BY <1>2, <1>3, <1>4
<1>7. n \in Nat
  BY <1>1, EntityAssumption
<1>8. \A i \in 1..n : ids[i] \in EntityIds /\ HasRow(ids[i])
  BY <1>2 DEF EntityTypeOK, UniqueRows, EntityRows, HasRow
<1>9. \A i \in 1..n : /\ items[i].do = Command(ids[i], targets[i]) /\ items[i].undo = Command(targets[i], ids[i])
                      /\ items[i].do.id = ids[i] /\ items[i].do.to = targets[i] /\ items[i] \in EntityItems
  BY <1>2, <1>3, <1>8 DEF Undoable, Command, EntityItems, RowCommands
<1>10. items \in Seq(EntityItems) /\ DOMAIN items = 1..n
  BY <1>3, <1>7, <1>9
<1>11. \A i, j \in 1..n : targets[i] = targets[j] => i = j
  <2>1. SUFFICES ASSUME NEW i \in 1..n, NEW j \in 1..n, targets[i] = targets[j], j < i
                 PROVE  FALSE
    BY <1>7
  <2>2. j \in 1..(i - 1)
    BY <1>7, <2>1
  <2> QED
    BY <1>2, <2>1, <2>2
<1>12. \A i \in DOMAIN items :
         /\ items[i].undo = Command(items[i].do.to, items[i].do.id)
         /\ HasRow(items[i].do.id)
         /\ items[i].do.to \in EntityIds /\ ~HasRow(items[i].do.to)
  BY <1>2, <1>8, <1>9, <1>10
<1>13. \A i, j \in DOMAIN items : items[i].do.to = items[j].do.to => i = j
  BY <1>9, <1>10, <1>11
<1> QED
  BY <1>5, <1>6, <1>10, <1>12, <1>13

(* What a step of the call makes of it.                                    *)
Advanced(items, plan, undo, errors) ==
  /\ job' \in EntityJobs
  /\ job'.pc = "items" /\ job'.tool = job.tool /\ job'.planned = job.planned
  /\ job'.items = items /\ job'.plan = plan /\ job'.undo = undo /\ job'.errors = errors
  /\ before' = before /\ outside' = outside

LEMMA RunItemForm ==
  ASSUME job \in EntityJobs, RunItem
  PROVE  \E ok \in BOOLEAN, errors \in BOOLEAN, item \in EntityItems :
           /\ job.pc = "items" /\ job.items # <<>> /\ item = Head(job.items)
           /\ Perform(item.do, ok)
           /\ errors = (job.errors \/ ~ok)
           /\ Advanced(Tail(job.items), job.plan, Append(job.undo, item.undo), errors)
<1>1. PICK ok \in BOOLEAN : Perform(Head(job.items).do, ok) /\ ItemDone(Head(job.items).undo, ok)
  BY DEF RunItem
<1>2. job.pc = "items" /\ job.items # <<>>
  BY DEF RunItem
<1>3. PICK errors \in BOOLEAN : errors = (job.errors \/ ~ok)
  OBVIOUS
<1>4. PICK item : item = Head(job.items)
  OBVIOUS
<1>5. job.items \in Seq(EntityItems) /\ job.undo \in Seq(EntityCommands)
  BY DEF EntityJobs, EntityItems
<1>6. item \in EntityItems /\ Tail(job.items) \in Seq(EntityItems)
  BY <1>2, <1>4, <1>5
<1>7. item.undo \in EntityCommands
  BY <1>6 DEF EntityItems, EntityCommands
<1>8. PICK undo \in Seq(EntityCommands) : undo = Append(job.undo, item.undo)
  <2>1. Append(job.undo, item.undo) \in Seq(EntityCommands)
    BY <1>5, <1>7
  <2> QED
    BY <2>1
<1>9. PICK items \in Seq(EntityItems) : items = Tail(job.items)
  BY <1>6
<1>10. job' = [job EXCEPT !.items = items, !.undo = undo, !.errors = errors]
  BY <1>1, <1>3, <1>4, <1>8, <1>9 DEF ItemDone
<1>11. /\ job' \in EntityJobs /\ job'.pc = "items" /\ job'.tool = job.tool /\ job'.planned = job.planned
       /\ job'.items = items /\ job'.plan = job.plan /\ job'.undo = undo /\ job'.errors = errors
  BY <1>2, <1>10 DEF EntityJobs, EntityItems
<1> QED
  BY <1>1, <1>2, <1>3, <1>4, <1>6, <1>8, <1>9, <1>11 DEF Advanced, RunItem

LEMMA RewriteForm ==
  ASSUME job \in EntityJobs, RewriteFile \/ RewriteDashboard
  PROVE  \E w \in job.plan, saved \in BOOLEAN, errors \in BOOLEAN :
           /\ job.pc = "items" /\ job.items = <<>>
           /\ ~errors => ~job.errors /\ saved /\ Execute(Command(w.place, w.new))
           /\ \/ NotExecuted
              \/ saved /\ \E text \in {w.old, w.new, "torn"} : Execute(Command(w.place, text))
           /\ Advanced(<<>>, job.plan \ {w}, IF saved THEN Append(job.undo, Command(w.place, w.old)) ELSE job.undo, errors)
<1>1. \E w \in job.plan, saved \in BOOLEAN, ok \in BOOLEAN :
        /\ Rewritten(w, saved, ok)
        /\ ok => saved /\ Execute(Command(w.place, w.new))
        /\ \/ NotExecuted
           \/ saved /\ \E text \in {w.old, w.new, "torn"} : Execute(Command(w.place, text))
  <2>1. CASE RewriteFile
    <3>1. PICK w \in Rewrites("file") :
            \/ NotExecuted /\ Rewritten(w, FALSE, FALSE)
            \/ Execute(Command("file", w.new)) /\ Rewritten(w, TRUE, TRUE)
            \/ \E left \in {w.old, "torn"} : Execute(Command("file", left)) /\ Rewritten(w, TRUE, FALSE)
      BY <2>1 DEF RewriteFile
    <3>2. w \in job.plan /\ w.place = "file"
      BY <3>1 DEF Rewrites
    <3> QED
      BY <3>1, <3>2
  <2>2. CASE RewriteDashboard
    <3>1. PICK w \in Rewrites("dash") :
            \/ \E ok \in BOOLEAN : Perform(Command("dash", w.new), ok) /\ Rewritten(w, TRUE, ok)
            \/ NotExecuted /\ Rewritten(w, FALSE, FALSE)
      BY <2>2 DEF RewriteDashboard
    <3>2. w \in job.plan /\ w.place = "dash"
      BY <3>1 DEF Rewrites
    <3> QED
      BY <3>1, <3>2 DEF Perform
  <2> QED
    BY <2>1, <2>2
<1>2. PICK w \in job.plan, saved \in BOOLEAN, ok \in BOOLEAN :
        /\ Rewritten(w, saved, ok)
        /\ ok => saved /\ Execute(Command(w.place, w.new))
        /\ \/ NotExecuted
           \/ saved /\ \E text \in {w.old, w.new, "torn"} : Execute(Command(w.place, text))
  BY <1>1
<1>3. job.pc = "items" /\ job.items = <<>> /\ UNCHANGED <<before, outside>>
  BY DEF RewriteFile, RewriteDashboard
<1>4. PICK errors \in BOOLEAN : errors = (job.errors \/ ~ok)
  OBVIOUS
<1>5. PICK undo : undo = IF saved THEN Append(job.undo, Command(w.place, w.old)) ELSE job.undo
  OBVIOUS
<1>6. undo \in Seq(EntityCommands)
  <2>1. Command(w.place, w.old) \in EntityCommands
    BY DEF Command, EntityCommands, PlaceCommands, EntityJobs
  <2>2. job.undo \in Seq(EntityCommands)
    BY DEF EntityJobs
  <2> QED
    BY <1>5, <2>1, <2>2
<1>7. PICK plan \in SUBSET EntityPlans : plan = job.plan \ {w}
  BY DEF EntityJobs, EntityPlans
<1>8. job' = [job EXCEPT !.plan = plan, !.errors = errors, !.undo = undo]
  BY <1>2, <1>4, <1>5, <1>7 DEF Rewritten
<1>9. /\ job' \in EntityJobs /\ job'.pc = "items" /\ job'.tool = job.tool /\ job'.planned = job.planned
      /\ job'.items = <<>> /\ job'.plan = plan /\ job'.undo = undo /\ job'.errors = errors
  BY <1>3, <1>6, <1>8 DEF EntityJobs, EntityPlans
<1> QED
  BY <1>2, <1>3, <1>4, <1>5, <1>7, <1>9 DEF Advanced

LEMMA EntriesGrow ==
  ASSUME NEW S, NEW s \in Seq(S), NEW x \in S
  PROVE  Entries(Append(s, x)) = Entries(s) \cup {x}
<1>1. PICK n \in Nat : n = Len(s) /\ DOMAIN s = 1..n
  OBVIOUS
<1>2. PICK t : t = Append(s, x)
  OBVIOUS
<1>3. DOMAIN t = 1..(n + 1) /\ t[n + 1] = x /\ \A k \in 1..n : t[k] = s[k]
  BY <1>1, <1>2
<1>4. \A k \in 1..(n + 1) : k \in 1..n \/ k = n + 1
  BY <1>1
<1>5. \A y : (\E k \in 1..(n + 1) : y = t[k]) <=> (y = x \/ \E k \in 1..n : y = s[k])
  BY <1>3, <1>4
<1>6. Entries(t) = Entries(s) \cup {x}
  BY <1>1, <1>3, <1>5 DEF Entries
<1> QED
  BY <1>2, <1>6

LEMMA EntriesSplit ==
  ASSUME NEW S, NEW s \in Seq(S), s # <<>>
  PROVE  Entries(s) = {Head(s)} \cup Entries(Tail(s))
<1>1. PICK n \in Nat : n = Len(s) /\ DOMAIN s = 1..n /\ n > 0
  OBVIOUS
<1>2. PICK t : t = Tail(s)
  OBVIOUS
<1>3. DOMAIN t = 1..(n - 1) /\ s[1] = Head(s) /\ \A k \in 1..(n - 1) : t[k] = s[k + 1]
  BY <1>1, <1>2
<1>4. \A k \in 1..n : k = 1 \/ (k - 1 \in 1..(n - 1) /\ t[k - 1] = s[k])
  BY <1>1, <1>3
<1>5. \A y : (\E k \in 1..n : y = s[k]) <=> (y = Head(s) \/ \E k \in 1..(n - 1) : y = t[k])
  BY <1>1, <1>3, <1>4
<1>6. PICK h : h = Head(s)
  OBVIOUS
<1>7. \A y : y \in Entries(s) <=> (y = h \/ y \in Entries(t))
  <2>1. \A y : y \in Entries(s) <=> \E k \in 1..n : y = s[k]
    BY <1>1 DEF Entries
  <2>2. \A y : y \in Entries(t) <=> \E k \in 1..(n - 1) : y = t[k]
    BY <1>3 DEF Entries
  <2> QED
    BY <1>5, <1>6, <2>1, <2>2, Zenon
<1>8. Entries(s) = {h} \cup Entries(t)
  BY <1>7
<1> QED
  BY <1>2, <1>6, <1>8

LEMMA ReverseForm ==
  ASSUME NEW S, NEW s \in Seq(S)
  PROVE  /\ Reverse(s) \in Seq(S)
         /\ Entries(Reverse(s)) = Entries(s)
<1>1. PICK n \in Nat : n = Len(s) /\ DOMAIN s = 1..n
  OBVIOUS
<1>2. PICK r : r = Reverse(s)
  OBVIOUS
<1>3. r = [i \in 1..n |-> s[(n - i) + 1]]
  BY <1>1, <1>2 DEF Reverse
<1>4. \A i \in 1..n : (n - i) + 1 \in 1..n /\ s[(n - i) + 1] \in S /\ r[i] = s[(n - i) + 1]
  BY <1>1, <1>3
<1>5. r \in Seq(S) /\ DOMAIN r = 1..n
  BY <1>3, <1>4
<1>6. \A k \in 1..n : (n - k) + 1 \in 1..n /\ r[(n - k) + 1] = s[k]
  <2>1. \A k \in 1..n : (n - ((n - k) + 1)) + 1 = k
    OBVIOUS
  <2> QED
    BY <1>4, <2>1
<1>7. \A x : (\E k \in 1..n : x = r[k]) <=> (\E k \in 1..n : x = s[k])
  BY <1>4, <1>6
<1>8. Entries(r) = Entries(s)
  BY <1>1, <1>5, <1>7 DEF Entries
<1> QED
  BY <1>2, <1>5, <1>8

(* What undoing makes of the call.                                         *)
Undone(pc, undo, errors) ==
  /\ job' \in EntityJobs
  /\ job'.pc = pc /\ job'.tool = job.tool /\ job'.items = job.items /\ job'.plan = job.plan
  /\ job'.undo = undo /\ job'.errors = errors
  /\ before' = before /\ outside' = outside

LEMMA UndoForm ==
  ASSUME job \in EntityJobs, UndoItem
  PROVE  \E ok \in BOOLEAN, errors \in BOOLEAN, c \in EntityCommands :
           /\ job.pc = "undo" /\ job.undo # <<>> /\ c = Head(job.undo)
           /\ Perform(c, ok)
           /\ errors = (job.errors \/ ~ok)
           /\ Undone("undo", Tail(job.undo), errors)
<1>1. PICK ok \in BOOLEAN :
        Perform(Head(job.undo), ok) /\ job' = [job EXCEPT !.undo = Tail(@), !.errors = @ \/ ~ok]
  BY DEF UndoItem
<1>2. job.pc = "undo" /\ job.undo # <<>> /\ UNCHANGED <<before, outside>>
  BY DEF UndoItem
<1>3. PICK errors \in BOOLEAN : errors = (job.errors \/ ~ok)
  OBVIOUS
<1>4. job.undo \in Seq(EntityCommands)
  BY DEF EntityJobs
<1>5. PICK undo \in Seq(EntityCommands) : undo = Tail(job.undo)
  <2>1. Tail(job.undo) \in Seq(EntityCommands)
    BY <1>2, <1>4
  <2> QED
    BY <2>1
<1>6. job' = [job EXCEPT !.undo = undo, !.errors = errors]
  BY <1>1, <1>3, <1>5
<1>7. /\ job' \in EntityJobs /\ job'.pc = "undo" /\ job'.tool = job.tool
      /\ job'.items = job.items /\ job'.plan = job.plan /\ job'.undo = undo /\ job'.errors = errors
  BY <1>2, <1>6 DEF EntityJobs
<1>8. PICK c \in EntityCommands : c = Head(job.undo)
  BY <1>2, <1>4
<1> QED
  BY <1>1, <1>2, <1>3, <1>5, <1>7, <1>8 DEF Undone

LEMMA StartRollbackForm ==
  ASSUME job \in EntityJobs, StartRollback
  PROVE  /\ job.pc = "done" /\ Undone("undo", Reverse(job.undo), FALSE)
         /\ Entries(job'.undo) = Entries(job.undo)
<1>1. job.pc = "done" /\ job.undo \in Seq(EntityCommands) /\ UNCHANGED <<before, outside>>
  BY DEF StartRollback, EntityJobs
<1>2. PICK undo : undo = Reverse(job.undo)
  OBVIOUS
<1>3. undo \in Seq(EntityCommands) /\ Entries(undo) = Entries(job.undo)
  <2>1. Reverse(job.undo) \in Seq(EntityCommands) /\ Entries(Reverse(job.undo)) = Entries(job.undo)
    BY <1>1, ReverseForm
  <2> QED
    BY <1>2, <2>1
<1>4. job' = [job EXCEPT !.pc = "undo", !.undo = undo, !.errors = FALSE]
  BY <1>2 DEF StartRollback
<1>5. /\ job' \in EntityJobs /\ job'.pc = "undo" /\ job'.tool = job.tool
      /\ job'.items = job.items /\ job'.plan = job.plan /\ job'.undo = undo /\ job'.errors = FALSE
  BY <1>3, <1>4 DEF EntityJobs
<1> QED
  BY <1>1, <1>2, <1>3, <1>5 DEF Undone

(* Steps that only move on.                                                *)
LEMMA MovesOnForm ==
  ASSUME job \in EntityJobs, Confirm \/ FinishJob \/ EndRollback
  PROVE  \E pc \in {"items", "done", "undone"} :
           /\ Undone(pc, job.undo, job.errors) /\ job'.planned = job.planned
           /\ entities' = entities /\ refs' = refs
           /\ pc = "items" => job.pc = "previewed"
           /\ pc = "done" => job.pc = "items" /\ job.items = <<>> /\ job.plan = {}
           /\ pc = "undone" => job.pc = "undo" /\ job.undo = <<>>
<1>1. PICK pc \in {"items", "done", "undone"} :
        /\ job' = [job EXCEPT !.pc = pc]
        /\ pc = "items" => job.pc = "previewed"
        /\ pc = "done" => job.pc = "items" /\ job.items = <<>> /\ job.plan = {}
        /\ pc = "undone" => job.pc = "undo" /\ job.undo = <<>>
  BY DEF Confirm, FinishJob, EndRollback
<1>2. /\ job' \in EntityJobs /\ job'.pc = pc /\ job'.tool = job.tool /\ job'.items = job.items
      /\ job'.plan = job.plan /\ job'.undo = job.undo /\ job'.errors = job.errors /\ job'.planned = job.planned
  BY <1>1 DEF EntityJobs
<1>3. UNCHANGED <<entities, refs, before, outside>>
  BY DEF Confirm, FinishJob, EndRollback
<1> QED
  BY <1>1, <1>2, <1>3 DEF Undone

LEMMA CancelForm ==
  ASSUME job \in EntityJobs, job.pc = "undo" => job.items = <<>>, CancelJob
  PROVE  /\ job' \in EntityJobs /\ job'.pc = "over" /\ before' = before /\ outside' = outside
         /\ NotExecuted \/ \E c \in EntityCommands : Accepts(c) /\ Execute(c)
<1>1. /\ NotExecuted \/ \E c \in Awaited : Accepts(c) /\ Execute(c)
      /\ job' = [NoJob EXCEPT !.pc = "over"] /\ before' = before /\ outside' = outside
  BY DEF CancelJob
<1>2. Awaited \subseteq EntityCommands
  <2>1. CASE job.pc = "undo"
    <3>1. Awaited = {job.undo[i] : i \in DOMAIN job.undo \cap {1}}
      <4>1. job.items = <<>>
        BY <2>1
      <4> QED
        BY <2>1, <4>1, Zenon DEF Awaited
    <3>2. job.undo \in Seq(EntityCommands)
      BY DEF EntityJobs
    <3> QED
      BY <3>1, <3>2
  <2>2. CASE job.pc # "undo" /\ job.items # <<>>
    <3>1. Awaited = {Head(job.items).do}
      BY <2>2, Zenon DEF Awaited
    <3>2. job.items \in Seq(EntityItems)
      BY DEF EntityJobs, EntityItems
    <3>3. Head(job.items) \in EntityItems
      BY <2>2, <3>2
    <3> QED
      BY <3>1, <3>3 DEF EntityItems, EntityCommands
  <2>3. CASE job.pc # "undo" /\ job.items = <<>>
    <3>1. Awaited = {Command("dash", w.new) : w \in Rewrites("dash")}
      BY <2>3, Zenon DEF Awaited
    <3>2. \A w \in Rewrites("dash") : w.new \in EntityIds
      BY DEF Rewrites, EntityJobs
    <3>3. \A id \in EntityIds : Command("dash", id) \in EntityCommands
      BY DEF Command, EntityCommands, PlaceCommands, Places
    <3> QED
      BY <3>1, <3>2, <3>3
  <2> QED
    BY <2>1, <2>2, <2>3
<1>3. job' \in EntityJobs /\ job'.pc = "over"
  <2>1. NoJob \in EntityJobs
    BY DEF NoJob, EntityJobs
  <2>2. job' = [NoJob EXCEPT !.pc = "over"]
    BY <1>1
  <2> QED
    BY <2>1, <2>2 DEF EntityJobs
<1> QED
  BY <1>1, <1>2, <1>3

(* An outside change that counts as one of the file comes before the file  *)
(* is rewritten.                                                           *)
LEMMA OutsideForm ==
  ASSUME job \in EntityJobs, OutsideChange
  PROVE  /\ job' = job /\ before' = before /\ outside' # {}
         /\ job.pc \notin {"idle", "over", "undone"}
         /\ \E c \in EntityCommands :
              /\ Accepts(c) /\ Execute(c)
              /\ outside' \subseteq {"file"} =>
                   outside \subseteq {"file"} /\ c.id = "file" /\ \E w \in job.plan : w.place = "file"
<1>1. PICK c \in EntityCommands :
        /\ Accepts(c) /\ Execute(c)
        /\ outside' = outside \cup {CASE c.id \notin Places      -> "registry"
                                      [] Rewrites(c.id) # {} -> c.id
                                      [] OTHER               -> "late"}
  BY DEF OutsideChange, EntityCommands, RowCommands, PlaceCommands
<1>2. PICK x : x = CASE c.id \notin Places      -> "registry"
                     [] Rewrites(c.id) # {} -> c.id
                     [] OTHER               -> "late"
  OBVIOUS
<1>3. outside' = outside \cup {x}
  BY <1>1, <1>2
<1>4. x = "file" => c.id = "file" /\ Rewrites(c.id) # {}
  <2>1. ASSUME c.id \notin Places
        PROVE  x = "registry"
    <3>1. Rewrites(c.id) = {}
      BY <2>1 DEF Rewrites, EntityJobs
    <3> QED
      BY <1>2, <2>1, <3>1, Zenon
  <2>2. c.id \in Places /\ Rewrites(c.id) # {} => x = c.id
    BY <1>2, Zenon
  <2>3. c.id \in Places /\ Rewrites(c.id) = {} => x = "late"
    BY <1>2, Zenon
  <2> QED
    BY <2>1, <2>2, <2>3
<1>5. outside' \subseteq {"file"} =>
        outside \subseteq {"file"} /\ c.id = "file" /\ \E w \in job.plan : w.place = "file"
  BY <1>3, <1>4 DEF Rewrites
<1>6. job' = job /\ before' = before /\ job.pc \notin {"idle", "over", "undone"}
  BY DEF OutsideChange
<1> QED
  BY <1>1, <1>3, <1>5, <1>6

LEMMA EntityTypeStep ==
  ASSUME EntityTypeOK, [EntityNext]_entityVars
  PROVE  EntityTypeOK'
<1>1. /\ UniqueRows(entities) /\ refs \in [Places -> EntityIds \cup {"torn"}] /\ job \in EntityJobs
      /\ before \in [entities : SUBSET EntityRows, refs : [Places -> EntityIds]] /\ UniqueRows(before.entities)
      /\ job.pc = "idle" => refs \in [Places -> EntityIds]
      /\ job.pc \in {"done", "undo", "undone"} => job.items = <<>> /\ job.plan = {}
      /\ job.pc = "undone" => job.undo = <<>>
  BY DEF EntityTypeOK
<1>2. ASSUME NEW tool \in {"remove", "toggle", "rename"}, NEW items \in Seq(EntityItems), NEW plan \in SUBSET EntityPlans,
             Preview(tool, items, plan), job.pc = "idle"
      PROVE  EntityTypeOK'
  <2>1. Previewed(tool, items, plan)
    BY <1>2, PreviewForm
  <2>2. UniqueRows(entities') /\ UniqueRows(before'.entities)
    BY <1>1, <2>1 DEF Previewed, UniqueRows
  <2>3. entities \subseteq EntityRows
    BY <1>1 DEF UniqueRows
  <2> QED
    BY <1>1, <1>2, <2>1, <2>2, <2>3 DEF Previewed, EntityTypeOK
<1>3. ASSUME UniqueRows(entities'), refs' \in [Places -> EntityIds \cup {"torn"}], job' \in EntityJobs, before' = before,
             job'.pc \in {"items", "over"} \/ (job'.items = <<>> /\ job'.plan = {}),
             job'.pc # "idle", job'.pc = "undone" => job'.undo = <<>>
      PROVE  EntityTypeOK'
  BY <1>1, <1>3 DEF EntityTypeOK, UniqueRows
<1>4. CASE PreviewRemove
  <2>1. PICK items \in Seq(EntityItems) : Preview("remove", items, {})
    BY <1>4, RemoveForm
  <2>2. {} \in SUBSET EntityPlans /\ job.pc = "idle"
    BY <1>4 DEF PreviewRemove
  <2> QED
    BY <1>2, <2>1, <2>2
<1>5. CASE PreviewToggle
  <2>1. PICK items \in Seq(EntityItems) : Preview("toggle", items, {})
    BY <1>5, ToggleForm
  <2>2. {} \in SUBSET EntityPlans /\ job.pc = "idle"
    BY <1>5 DEF PreviewToggle
  <2> QED
    BY <1>2, <2>1, <2>2
<1>6. CASE PreviewRename
  BY <1>2, <1>6, RenameForm DEF PreviewRename
<1>7. CASE Confirm \/ FinishJob \/ EndRollback
  <2>1. PICK pc \in {"items", "done", "undone"} :
           /\ Undone(pc, job.undo, job.errors) /\ entities' = entities /\ refs' = refs
           /\ pc = "done" => job.items = <<>> /\ job.plan = {}
           /\ pc = "undone" => job.pc = "undo" /\ job.undo = <<>>
    BY <1>1, <1>7, MovesOnForm
  <2>2. UniqueRows(entities')
    BY <1>1, <2>1 DEF UniqueRows
  <2> QED
    BY <1>1, <1>3, <2>1, <2>2 DEF Undone
<1>8. CASE RunItem
  <2>1. PICK ok \in BOOLEAN, errors \in BOOLEAN, item \in EntityItems :
           /\ Perform(item.do, ok)
           /\ Advanced(Tail(job.items), job.plan, Append(job.undo, item.undo), errors)
    BY <1>1, <1>8, RunItemForm
  <2>2. item.do \in EntityCommands
    BY DEF EntityItems, EntityCommands
  <2>3. UniqueRows(entities') /\ refs' \in [Places -> EntityIds \cup {"torn"}]
    BY <1>1, <2>1, <2>2, CommandsKeepTheForm DEF Perform
  <2> QED
    BY <1>3, <2>1, <2>3 DEF Advanced
<1>9. CASE RewriteFile \/ RewriteDashboard
  <2>1. PICK w \in job.plan, saved \in BOOLEAN, errors \in BOOLEAN :
           /\ NotExecuted \/ \E text \in {w.old, w.new, "torn"} : Execute(Command(w.place, text))
           /\ Advanced(<<>>, job.plan \ {w}, IF saved THEN Append(job.undo, Command(w.place, w.old)) ELSE job.undo, errors)
    BY <1>1, <1>9, RewriteForm
  <2>2. w.place \in Places /\ w.old \in EntityIds /\ w.new \in EntityIds
    BY <1>1 DEF EntityJobs
  <2>3. ASSUME NEW text \in {w.old, w.new, "torn"}, Execute(Command(w.place, text))
        PROVE  refs' \in [Places -> EntityIds \cup {"torn"}] /\ entities' = entities
    <3>1. refs' = [refs EXCEPT ![w.place] = text] /\ entities' = entities
      BY <2>2, <2>3, ExecutePlace DEF Command
    <3> QED
      BY <1>1, <2>2, <3>1
  <2>4. refs' \in [Places -> EntityIds \cup {"torn"}] /\ entities' = entities
    BY <1>1, <2>1, <2>3 DEF NotExecuted
  <2>5. UniqueRows(entities')
    BY <1>1, <2>4 DEF UniqueRows
  <2> QED
    BY <1>3, <2>1, <2>4, <2>5 DEF Advanced
<1>10. CASE StartRollback
  <2>1. job.pc = "done" /\ Undone("undo", Reverse(job.undo), FALSE)
    BY <1>1, <1>10, StartRollbackForm
  <2>2. entities' = entities /\ refs' = refs
    BY <1>10 DEF StartRollback
  <2>3. UniqueRows(entities')
    BY <1>1, <2>2 DEF UniqueRows
  <2> QED
    BY <1>1, <1>3, <2>1, <2>2, <2>3 DEF Undone
<1>11. CASE UndoItem
  <2>1. PICK ok \in BOOLEAN, errors \in BOOLEAN, c \in EntityCommands :
           job.pc = "undo" /\ Perform(c, ok) /\ Undone("undo", Tail(job.undo), errors)
    BY <1>1, <1>11, UndoForm
  <2>2. UniqueRows(entities') /\ refs' \in [Places -> EntityIds \cup {"torn"}]
    BY <1>1, <2>1, CommandsKeepTheForm DEF Perform
  <2> QED
    BY <1>1, <1>3, <2>1, <2>2 DEF Undone
<1>12. CASE CancelJob
  <2>1. /\ job' \in EntityJobs /\ job'.pc = "over" /\ before' = before
        /\ NotExecuted \/ \E c \in EntityCommands : Accepts(c) /\ Execute(c)
    BY <1>1, <1>12, CancelForm
  <2>2. UniqueRows(entities') /\ refs' \in [Places -> EntityIds \cup {"torn"}]
    <3>1. CASE NotExecuted
      BY <1>1, <3>1 DEF NotExecuted, UniqueRows
    <3>2. CASE \E c \in EntityCommands : Accepts(c) /\ Execute(c)
      BY <1>1, <3>2, CommandsKeepTheForm
    <3> QED
      BY <2>1, <3>1, <3>2
  <2> QED
    BY <1>3, <2>1, <2>2
<1>13. CASE OutsideChange
  <2>1. /\ job' = job /\ before' = before /\ job.pc # "idle" /\ job.pc # "undone"
        /\ \E c \in EntityCommands : Accepts(c) /\ Execute(c)
    BY <1>1, <1>13, OutsideForm
  <2>2. UniqueRows(entities') /\ refs' \in [Places -> EntityIds \cup {"torn"}]
    BY <1>1, <2>1, CommandsKeepTheForm
  <2> QED
    BY <1>1, <2>1, <2>2 DEF EntityTypeOK, UniqueRows
<1>14. CASE UNCHANGED entityVars
  BY <1>1, <1>14 DEF entityVars, EntityTypeOK, UniqueRows
<1> QED
  BY <1>4, <1>5, <1>6, <1>7, <1>8, <1>9, <1>10, <1>11, <1>12, <1>13, <1>14 DEF EntityNext

LEMMA RowAfterIs ==
  ASSUME NEW c, NEW r
  PROVE  /\ c.to = "on" => RowAfter(c, r) = [r EXCEPT !.on = TRUE]
         /\ c.to = "off" => RowAfter(c, r) = [r EXCEPT !.on = FALSE]
         /\ c.to \notin {"on", "off"} => RowAfter(c, r) = [r EXCEPT !.id = c.to]
<1>1. c.to = "on" => RowAfter(c, r) = [r EXCEPT !.on = TRUE]
  <2>1. c.to = "on" => c.to # "off"
    OBVIOUS
  <2> QED
    BY <2>1, Zenon DEF RowAfter
<1>2. c.to = "off" => RowAfter(c, r) = [r EXCEPT !.on = FALSE]
  <2>1. c.to = "off" => c.to # "on"
    OBVIOUS
  <2> QED
    BY <2>1, Zenon DEF RowAfter
<1>3. c.to # "on" /\ c.to # "off" => RowAfter(c, r) = [r EXCEPT !.id = c.to]
  BY Zenon DEF RowAfter
<1> QED
  BY <1>1, <1>2, <1>3

LEMMA SameCommandSameRow ==
  ASSUME NEW c, NEW d, NEW r, c.to = d.to
  PROVE  RowAfter(c, r) = RowAfter(d, r)
<1>1. CASE c.to = "on"
  <2>1. RowAfter(c, r) = [r EXCEPT !.on = TRUE] /\ RowAfter(d, r) = [r EXCEPT !.on = TRUE]
    BY <1>1, RowAfterIs
  <2> QED
    BY <2>1
<1>2. CASE c.to = "off"
  <2>1. RowAfter(c, r) = [r EXCEPT !.on = FALSE] /\ RowAfter(d, r) = [r EXCEPT !.on = FALSE]
    BY <1>2, RowAfterIs
  <2> QED
    BY <2>1
<1>3. CASE c.to \notin {"on", "off"}
  <2>1. PICK to : to = c.to
    OBVIOUS
  <2>2. RowAfter(c, r) = [r EXCEPT !.id = to] /\ RowAfter(d, r) = [r EXCEPT !.id = to]
    BY <1>3, <2>1, RowAfterIs
  <2> QED
    BY <2>2
<1> QED
  BY <1>1, <1>2, <1>3

(* What a toggle or a rename did to a row, its undo entry takes back.      *)
LEMMA SwitchedBack ==
  ASSUME NEW c, NEW d, NEW r \in EntityRows, c.to \in {"on", "off"}, d.to \in {"on", "off"}
  PROVE  RowAfter(d, RowAfter(c, r)) = RowAfter(d, r)
<1>1. PICK x : x = RowAfter(c, r)
  OBVIOUS
<1>2. PICK on, after \in BOOLEAN :
        /\ x = [r EXCEPT !.on = on] /\ RowAfter(d, x) = [x EXCEPT !.on = after]
        /\ RowAfter(d, r) = [r EXCEPT !.on = after]
  <2>1. \E on \in BOOLEAN : x = [r EXCEPT !.on = on]
    BY <1>1, RowAfterIs
  <2>2. \E after \in BOOLEAN : RowAfter(d, x) = [x EXCEPT !.on = after] /\ RowAfter(d, r) = [r EXCEPT !.on = after]
    BY RowAfterIs
  <2> QED
    BY <2>1, <2>2
<1>3. [x EXCEPT !.on = after] = [r EXCEPT !.on = after]
  BY <1>2 DEF EntityRows
<1> QED
  BY <1>1, <1>2, <1>3

LEMMA MovedBack ==
  ASSUME NEW r \in EntityRows, NEW c \in RowCommands, c.to \in EntityIds, r.id = c.id,
         NEW d, d = Command(c.to, c.id)
  PROVE  RowAfter(d, RowAfter(c, r)) = r
<1>1. c.to \notin {"on", "off"} /\ d.to \notin {"on", "off"} /\ d.to = r.id
  BY EntityAssumption DEF EntityRows, Command
<1>2. PICK x : x = RowAfter(c, r)
  OBVIOUS
<1>3. x = [r EXCEPT !.id = c.to] /\ RowAfter(d, x) = [x EXCEPT !.id = r.id]
  BY <1>1, <1>2, RowAfterIs
<1>4. [x EXCEPT !.id = r.id] = r
  BY <1>3 DEF EntityRows
<1> QED
  BY <1>2, <1>3, <1>4

(* A preview sees the tables as they are, and what it plans can be undone. *)
LEMMA ToggleGoesBack ==
  ASSUME EntityTypeOK, PreviewToggle
  PROVE  CanGoBack'
<1>1. PICK enable \in BOOLEAN, items \in Seq(EntityItems) :
        /\ Preview("toggle", items, {})
        /\ \A i \in DOMAIN items : \E b \in entities :
             /\ b.on # enable
             /\ items[i] = Undoable(Command(b.id, Switch(enable)), Command(b.id, Switch(~enable)))
  BY ToggleForm
<1>2. Previewed("toggle", items, {})
  BY <1>1, PreviewForm
<1>3. PICK on, off \in {"on", "off"} : on = Switch(enable) /\ off = Switch(~enable)
  BY DEF Switch
<1>4. \A i \in DOMAIN items : \E b \in entities :
        /\ b.on # enable /\ items[i].do = Command(b.id, on) /\ items[i].undo = Command(b.id, off)
  BY <1>1, <1>3 DEF Undoable
<1>5. /\ job'.items = items /\ job'.plan = {} /\ job'.undo = <<>> /\ job'.tool = "toggle" /\ job'.pc = "previewed"
      /\ before'.entities = entities /\ before'.refs = refs /\ entities' = entities /\ refs' = refs
  BY <1>2 DEF Previewed
<1>6. Undos' = {items[i].undo : i \in DOMAIN items}
  BY <1>5 DEF Undos, Entries
<1>7. \A b \in entities : b \in EntityRows /\ b.id \in EntityIds /\ b.id \notin Places
  BY EntityAssumption DEF EntityTypeOK, UniqueRows, EntityRows, Places
<1>8. \A b \in entities : b.on # enable => RowAfter(Command(b.id, off), b) = b
  <2>1. SUFFICES ASSUME NEW b \in entities, b.on # enable
                 PROVE  RowAfter(Command(b.id, off), b) = b
    OBVIOUS
  <2>2. \E x \in BOOLEAN : (x = ~enable) /\ RowAfter(Command(b.id, off), b) = [b EXCEPT !.on = x]
    BY <1>3, RowAfterIs DEF Command, Switch
  <2>3. b \in EntityRows
    BY <1>7
  <2> QED
    BY <2>1, <2>2, <2>3 DEF EntityRows
<1>9. UndosAgree'
  <2>1. \A c \in Undos' : \E b \in entities : b.on # enable /\ c = Command(b.id, off)
    BY <1>4, <1>6
  <2>2. \A c \in Undos' : c.to = off /\ c.id \notin Places
    BY <1>7, <2>1 DEF Command
  <2>3. \A c \in Undos', b \in entities : c.id = b.id => RowAfter(c, b) = b
    BY <1>7, <1>8, <2>1 DEF Command, EntityTypeOK, UniqueRows
  <2> QED
    BY <1>3, <1>5, <2>2, <2>3 DEF UndosAgree
<1>10. ItemsFit'
  <2>1. \A i \in DOMAIN items : Toggles(items[i])
    <3>1. SUFFICES ASSUME NEW i \in DOMAIN items
                   PROVE  Toggles(items[i])
      OBVIOUS
    <3>2. PICK b \in entities : items[i].do = Command(b.id, on) /\ items[i].undo = Command(b.id, off)
      BY <1>4
    <3>3. items[i].do.id = b.id /\ items[i].do.to = on /\ items[i].undo.id = b.id /\ items[i].undo.to = off
      BY <3>2 DEF Command
    <3> QED
      BY <1>3, <3>3 DEF Toggles
  <2> QED
    BY <1>5, <2>1 DEF ItemsFit, Toggles
<1>11. SameUids' /\ RowsComeBack' /\ RefsComeBack'
  BY <1>5 DEF SameUids, RowsComeBack, RefsComeBack, EntityTypeOK, UniqueRows
<1> QED
  BY <1>5, <1>9, <1>10, <1>11 DEF CanGoBack, Undoing

LEMMA RenameGoesBack ==
  ASSUME EntityTypeOK, PreviewRename
  PROVE  CanGoBack'
<1>1. PICK items \in Seq(EntityItems), plan \in SUBSET EntityPlans :
        /\ Preview("rename", items, plan)
        /\ plan = {} \/ plan = Planned(items)
        /\ \A i \in DOMAIN items :
             /\ items[i].undo = Command(items[i].do.to, items[i].do.id)
             /\ HasRow(items[i].do.id)
             /\ items[i].do.to \in EntityIds /\ ~HasRow(items[i].do.to)
        /\ \A i, j \in DOMAIN items : items[i].do.to = items[j].do.to => i = j
  BY RenameForm
<1>2. Previewed("rename", items, plan)
  BY <1>1, PreviewForm
<1>3. /\ job'.items = items /\ job'.plan = plan /\ job'.undo = <<>> /\ job'.tool = "rename" /\ job'.pc = "previewed"
      /\ before'.entities = entities /\ before'.refs = refs /\ entities' = entities /\ refs' = refs
  BY <1>2 DEF Previewed
<1>4. Undos' = {items[i].undo : i \in DOMAIN items} \cup {Command(w.place, w.old) : w \in plan}
  BY <1>3 DEF Undos, Entries
<1>5. \A w \in plan : w.place \in Places /\ w.old = refs[w.place] /\ w.old \in EntityIds
  BY <1>1 DEF Planned, EntityPlans
<1>6. \A c \in Undos' :
        \/ \E i \in DOMAIN items : c.id = items[i].do.to /\ c.to = items[i].do.id
        \/ c.id \in Places /\ c.to = refs[c.id]
  <2>1. SUFFICES ASSUME NEW c \in Undos'
                 PROVE  \/ \E i \in DOMAIN items : c.id = items[i].do.to /\ c.to = items[i].do.id
                        \/ c.id \in Places /\ c.to = refs[c.id]
    OBVIOUS
  <2>2. CASE \E i \in DOMAIN items : c = items[i].undo
    <3>1. PICK i \in DOMAIN items : c = Command(items[i].do.to, items[i].do.id)
      BY <1>1, <2>2
    <3> QED
      BY <3>1 DEF Command
  <2>3. CASE \E w \in plan : c = Command(w.place, w.old)
    BY <1>5, <2>3 DEF Command
  <2> QED
    BY <1>4, <2>1, <2>2, <2>3
<1>7. Places \cap EntityIds = {} /\ "remove" \notin EntityIds
  BY EntityAssumption DEF Places
<1>8. \A i \in DOMAIN items : items[i].do.id \in EntityIds
  <2>1. \A i \in DOMAIN items : items[i] \in EntityItems
    OBVIOUS
  <2> QED
    BY <2>1 DEF EntityItems, RowCommands
<1>9. \A c \in Undos', b \in entities : c.id # b.id
  <2>1. \A b \in entities : b.id \in EntityIds
    BY DEF EntityTypeOK, UniqueRows, EntityRows
  <2> QED
    BY <1>1, <1>6, <1>7, <2>1 DEF HasRow
<1>10. UndosAgree'
  <2>1. \A c, d \in Undos' : c.id = d.id => c.to = d.to
    BY <1>1, <1>6, <1>7
  <2>2. \A c \in Undos' : c.id \in Places => c.to = refs[c.id]
    BY <1>1, <1>6, <1>7
  <2>3. \A c \in Undos' : c.id \in EntityIds => c.to # "remove"
    BY <1>6, <1>7, <1>8
  <2> QED
    BY <1>3, <1>9, <2>1, <2>2, <2>3 DEF UndosAgree
<1>11. ItemsFit'
  <2>1. \A i \in DOMAIN items : \E b \in entities : b.id = items[i].do.id
    BY <1>1 DEF HasRow
  <2> QED
    BY <1>1, <1>3, <1>9, <2>1 DEF ItemsFit, Moves
<1>12. SameUids' /\ RowsComeBack' /\ RefsComeBack'
  BY <1>3 DEF SameUids, RowsComeBack, RefsComeBack, EntityTypeOK, UniqueRows
<1> QED
  BY <1>3, <1>10, <1>11, <1>12 DEF CanGoBack, Undoing

LEMMA RunItemGoesBack ==
  ASSUME EntityTypeOK, CanGoBack, RunItem
  PROVE  CanGoBack'
<1>1. PICK ok \in BOOLEAN, errors \in BOOLEAN, item \in EntityItems :
        /\ job.pc = "items" /\ job.items # <<>> /\ item = Head(job.items)
        /\ Perform(item.do, ok)
        /\ Advanced(Tail(job.items), job.plan, Append(job.undo, item.undo), errors)
  BY RunItemForm DEF EntityTypeOK
<1>2. /\ job'.pc = "items" /\ job'.tool = job.tool /\ job'.items = Tail(job.items) /\ job'.plan = job.plan
      /\ job'.undo = Append(job.undo, item.undo) /\ before' = before /\ outside' = outside
  BY <1>1 DEF Advanced
<1>3. SUFFICES ASSUME job.tool # "remove", outside = {}
               PROVE  UndosAgree' /\ ItemsFit' /\ SameUids' /\ RowsComeBack' /\ RefsComeBack'
  BY <1>2 DEF CanGoBack, Undoing
<1>4. UndosAgree /\ ItemsFit /\ SameUids /\ RowsComeBack /\ RefsComeBack
  BY <1>1, <1>3 DEF CanGoBack, Undoing
<1>5. job.items \in Seq(EntityItems) /\ job.undo \in Seq(EntityCommands) /\ item.undo \in EntityCommands
  BY DEF EntityTypeOK, EntityJobs, EntityItems, EntityCommands
<1>6. Entries(job'.undo) = Entries(job.undo) \cup {item.undo}
  BY <1>2, <1>5, EntriesGrow
<1>7. Entries(job.items) = {item} \cup Entries(job'.items)
  BY <1>1, <1>2, <1>5, EntriesSplit
<1>8. Undos' = Undos
  <2>1. {job.items[i].undo : i \in DOMAIN job.items} = {x.undo : x \in Entries(job.items)}
    BY DEF Entries
  <2>2. {job'.items[i].undo : i \in DOMAIN job'.items} = {x.undo : x \in Entries(job'.items)}
    BY DEF Entries
  <2>3. {x.undo : x \in Entries(job.items)} = {item.undo} \cup {x.undo : x \in Entries(job'.items)}
    BY <1>7
  <2> QED
    BY <1>2, <1>6, <2>1, <2>2, <2>3 DEF Undos
<1>9. UndosAgree'
  BY <1>2, <1>4, <1>8 DEF UndosAgree
<1>10. \A i \in DOMAIN job'.items : \E k \in DOMAIN job.items : job'.items[i] = job.items[k]
  BY <1>7 DEF Entries
<1>11. ItemsFit'
  <2>2. CASE job.tool = "toggle" /\ \A i \in DOMAIN job.items : Toggles(job.items[i])
    BY <1>2, <1>10, <2>2 DEF ItemsFit, Toggles
  <2>3. CASE /\ job.tool = "rename"
             /\ \A i \in DOMAIN job.items : Moves(job.items[i])
             /\ \A c \in Undos : \A b \in before.entities : c.id # b.id
    BY <1>2, <1>8, <1>10, <2>3 DEF ItemsFit, Moves
  <2> QED
    BY <1>4, <2>2, <2>3 DEF ItemsFit
<1>12. item.undo \in Undos /\ \E k \in DOMAIN job.items : item = job.items[k]
  BY <1>6, <1>7, <1>8 DEF Undos, Entries
<1>13. CASE NotExecuted
  <2>1. entities' = entities /\ refs' = refs
    BY <1>13 DEF NotExecuted
  <2> QED
    BY <1>2, <1>4, <1>6, <1>9, <1>11, <2>1 DEF SameUids, RowsComeBack, RefsComeBack
<1>14. CASE Accepts(item.do) /\ Execute(item.do)
  <2>1. item.do \in RowCommands /\ item.undo \in RowCommands
    BY DEF EntityItems
  <2>2. UniqueRows(entities)
    BY DEF EntityTypeOK
  <2>3. PICK r \in entities :
          /\ refs' = refs
          /\ r.id = item.do.id
          /\ item.do.to # "remove" => entities' = (entities \ {r}) \cup {RowAfter(item.do, r)}
    BY <1>14, <2>1, <2>2, ExecuteRow
  <2>4. r \in EntityRows
    BY <2>2 DEF UniqueRows
  <2>5. PICK s : s = RowAfter(item.do, r)
    OBVIOUS
  <2>6. ASSUME item.do.to # "remove", s.id = item.undo.id,
               \A b \in before.entities : r.uid = b.uid => RowAfter(item.undo, s) = b
        PROVE  SameUids' /\ RowsComeBack' /\ RefsComeBack'
    <3>1. s.uid = r.uid /\ entities' = (entities \ {r}) \cup {s}
      BY <2>1, <2>3, <2>4, <2>5, <2>6, RowAfterForm DEF EntityCommands
    <3>2. SameUids'
      BY <1>2, <1>4, <3>1 DEF SameUids
    <3>3. RowsComeBack'
      BY <1>2, <1>4, <1>6, <2>6, <3>1 DEF RowsComeBack
    <3>4. RefsComeBack'
      BY <1>2, <1>4, <1>6, <2>3 DEF RefsComeBack
    <3> QED
      BY <3>2, <3>3, <3>4
  <2>7. \A b \in before.entities : r.uid = b.uid =>
          r = b \/ \E c \in Entries(job.undo) : c.id = r.id /\ RowAfter(c, r) = b
    BY <1>4 DEF RowsComeBack
  <2>8. \A c \in Entries(job.undo) : c \in Undos
    BY DEF Undos
  <2>9. CASE Toggles(item)
    <3>1. item.do.to \in {"on", "off"} /\ item.undo.to \in {"on", "off"} /\ item.do.id = item.undo.id
      BY <2>9 DEF Toggles
    <3>2. RowAfter(item.undo, s) = RowAfter(item.undo, r)
      BY <2>4, <2>5, <3>1, SwitchedBack
    <3>3. s.id = item.undo.id
      BY <2>1, <2>3, <2>4, <2>5, <3>1, RowAfterForm DEF EntityCommands
    <3>4. ASSUME NEW b \in before.entities, r.uid = b.uid
          PROVE  RowAfter(item.undo, r) = b
      <4>1. CASE r = b
        BY <1>4, <1>12, <2>3, <3>1, <4>1 DEF UndosAgree
      <4>2. ASSUME NEW c \in Entries(job.undo), c.id = r.id, RowAfter(c, r) = b
            PROVE  RowAfter(item.undo, r) = b
        <5>1. c.to = item.undo.to
          BY <1>4, <1>12, <2>3, <2>8, <3>1, <4>2 DEF UndosAgree
        <5> QED
          BY <4>2, <5>1, SameCommandSameRow
      <4> QED
        BY <2>7, <3>4, <4>1, <4>2
    <3>5. item.do.to # "remove"
      BY <3>1
    <3>6. SameUids' /\ RowsComeBack' /\ RefsComeBack'
      BY <2>6, <3>2, <3>3, <3>4, <3>5
    <3> QED
      BY <1>9, <1>11, <3>6
  <2>10. CASE Moves(item) /\ \A c \in Undos, b \in before.entities : c.id # b.id
    <3>1. /\ item.undo = Command(item.do.to, item.do.id) /\ item.do.to \in EntityIds
          /\ \E b \in before.entities : b.id = item.do.id
      BY <2>10 DEF Moves
    <3>2. RowAfter(item.undo, s) = r
      BY <2>1, <2>3, <2>4, <2>5, <3>1, MovedBack
    <3>3. item.do.to \notin {"on", "off", "remove"}
      BY <3>1, EntityAssumption
    <3>4. s.id = item.undo.id
      <4>1. s.id = item.do.to
        BY <2>1, <2>4, <2>5, <3>3, RowAfterForm DEF EntityCommands
      <4> QED
        BY <3>1, <4>1 DEF Command
    <3>5. \A c \in Entries(job.undo) : c.id # r.id
      BY <2>3, <2>8, <2>10, <3>1
    <3>6. \A b \in before.entities : r.uid = b.uid => RowAfter(item.undo, s) = b
      BY <2>7, <3>2, <3>5
    <3>7. SameUids' /\ RowsComeBack' /\ RefsComeBack'
      BY <2>6, <3>3, <3>4, <3>6
    <3> QED
      BY <1>9, <1>11, <3>7
  <2> QED
    BY <1>4, <1>12, <2>9, <2>10 DEF ItemsFit
<1> QED
  BY <1>1, <1>13, <1>14 DEF Perform

LEMMA RewriteGoesBack ==
  ASSUME EntityTypeOK, CanGoBack, RewriteFile \/ RewriteDashboard
  PROVE  CanGoBack'
<1>1. PICK w \in job.plan, saved \in BOOLEAN, errors \in BOOLEAN :
        /\ job.pc = "items" /\ job.items = <<>>
        /\ \/ NotExecuted
           \/ saved /\ \E text \in {w.old, w.new, "torn"} : Execute(Command(w.place, text))
        /\ Advanced(<<>>, job.plan \ {w}, IF saved THEN Append(job.undo, Command(w.place, w.old)) ELSE job.undo, errors)
  BY RewriteForm DEF EntityTypeOK
<1>2. /\ job'.pc = "items" /\ job'.tool = job.tool /\ job'.items = <<>> /\ job'.plan = job.plan \ {w}
      /\ job'.undo = IF saved THEN Append(job.undo, Command(w.place, w.old)) ELSE job.undo
      /\ before' = before /\ outside' = outside
  BY <1>1 DEF Advanced
<1>3. SUFFICES ASSUME job.tool # "remove", outside = {}
               PROVE  UndosAgree' /\ ItemsFit' /\ SameUids' /\ RowsComeBack' /\ RefsComeBack'
  BY <1>2 DEF CanGoBack, Undoing
<1>4. UndosAgree /\ ItemsFit /\ SameUids /\ RowsComeBack /\ RefsComeBack
  BY <1>1, <1>3 DEF CanGoBack, Undoing
<1>5. w.place \in Places /\ w.old \in EntityIds /\ job.undo \in Seq(EntityCommands)
  BY DEF EntityTypeOK, EntityJobs
<1>6. PICK c \in EntityCommands : c = Command(w.place, w.old)
  <2>1. \A p \in Places, id \in EntityIds : Command(p, id) \in EntityCommands
    BY DEF Command, EntityCommands, PlaceCommands
  <2> QED
    BY <1>5, <2>1
<1>7. Entries(job'.undo) = IF saved THEN Entries(job.undo) \cup {c} ELSE Entries(job.undo)
  <2>1. job'.undo = IF saved THEN Append(job.undo, c) ELSE job.undo
    BY <1>2, <1>6
  <2>2. Entries(Append(job.undo, c)) = Entries(job.undo) \cup {c}
    BY <1>5, EntriesGrow
  <2> QED
    BY <2>1, <2>2
<1>8. c \in Undos /\ Undos' \subseteq Undos
  <2>1. \A x \in {job'.items[i].undo : i \in DOMAIN job'.items} : FALSE
    BY <1>2
  <2> QED
    BY <1>2, <1>6, <1>7, <2>1 DEF Undos
<1>9. UndosAgree'
  BY <1>2, <1>4, <1>8 DEF UndosAgree
<1>10. ItemsFit'
  BY <1>1, <1>2, <1>4, <1>8 DEF ItemsFit
<1>11. CASE NotExecuted
  <2>1. entities' = entities /\ refs' = refs
    BY <1>11 DEF NotExecuted
  <2> QED
    BY <1>2, <1>4, <1>7, <1>9, <1>10, <2>1 DEF SameUids, RowsComeBack, RefsComeBack
<1>12. ASSUME saved, NEW text \in {w.old, w.new, "torn"}, Execute(Command(w.place, text))
       PROVE  SameUids' /\ RowsComeBack' /\ RefsComeBack'
  <2>1. refs' = [refs EXCEPT ![w.place] = text] /\ entities' = entities
    BY <1>5, <1>12, ExecutePlace DEF Command
  <2>2. SameUids' /\ RowsComeBack'
    BY <1>2, <1>4, <1>7, <2>1 DEF SameUids, RowsComeBack
  <2>3. w.old = before.refs[w.place]
    BY <1>4, <1>5, <1>6, <1>8 DEF UndosAgree, Command
  <2>4. c \in Entries(job'.undo) /\ Entries(job.undo) \subseteq Entries(job'.undo)
    BY <1>7, <1>12
  <2>5. \A p \in Places : p # w.place => refs'[p] = refs[p]
    BY <2>1 DEF EntityTypeOK
  <2>6. RefsComeBack'
    BY <1>2, <1>4, <1>6, <2>3, <2>4, <2>5 DEF RefsComeBack
  <2> QED
    BY <2>2, <2>6
<1> QED
  BY <1>1, <1>9, <1>10, <1>11, <1>12

LEMMA UndoGoesBack ==
  ASSUME EntityTypeOK, CanGoBack, UndoItem
  PROVE  CanGoBack'
<1>1. PICK ok \in BOOLEAN, errors \in BOOLEAN, c \in EntityCommands :
        /\ job.pc = "undo" /\ job.undo # <<>> /\ c = Head(job.undo)
        /\ Perform(c, ok)
        /\ errors = (job.errors \/ ~ok)
        /\ Undone("undo", Tail(job.undo), errors)
  BY UndoForm DEF EntityTypeOK
<1>2. /\ job'.pc = "undo" /\ job'.tool = job.tool /\ job'.items = job.items /\ job'.plan = job.plan
      /\ job'.undo = Tail(job.undo) /\ job'.errors = errors /\ before' = before /\ outside' = outside
  BY <1>1 DEF Undone
<1>3. SUFFICES ASSUME job.tool # "remove", outside = {}, ~errors
               PROVE  UndosAgree' /\ SameUids' /\ RowsComeBack' /\ RefsComeBack'
  BY <1>2 DEF CanGoBack, Undoing
<1>4. ok /\ ~job.errors
  BY <1>1, <1>3
<1>5. UndosAgree /\ SameUids /\ RowsComeBack /\ RefsComeBack
  BY <1>1, <1>3, <1>4 DEF CanGoBack, Undoing
<1>6. Accepts(c) /\ Execute(c)
  BY <1>1, <1>4 DEF Perform
<1>7. Entries(job.undo) = {c} \cup Entries(job'.undo)
  <2>1. job.undo \in Seq(EntityCommands)
    BY DEF EntityTypeOK, EntityJobs
  <2> QED
    BY <1>1, <1>2, <2>1, EntriesSplit
<1>8. Undos' \subseteq Undos /\ c \in Undos /\ Entries(job.undo) \subseteq Undos
  BY <1>2, <1>7 DEF Undos
<1>9. UndosAgree'
  BY <1>2, <1>5, <1>8 DEF UndosAgree
<1>10. UniqueRows(entities)
  BY DEF EntityTypeOK
<1>11. \A r \in entities : r \in EntityRows /\ r.id \in EntityIds /\ r.id \notin Places
  BY <1>10, EntityAssumption DEF UniqueRows, EntityRows, Places
<1>12. CASE c \in RowCommands
  <2>1. PICK r \in entities :
          /\ refs' = refs
          /\ r.id = c.id
          /\ c.to # "remove" => entities' = (entities \ {r}) \cup {RowAfter(c, r)}
    BY <1>6, <1>10, <1>12, ExecuteRow
  <2>2. c.to # "remove" /\ c.id \notin Places
    BY <1>5, <1>8, <1>11, <2>1 DEF UndosAgree
  <2>3. PICK s : s = RowAfter(c, r)
    OBVIOUS
  <2>4. s.uid = r.uid /\ entities' = (entities \ {r}) \cup {s}
    BY <1>11, <2>1, <2>2, <2>3, RowAfterForm
  <2>5. \A b \in before.entities : r.uid = b.uid => s = b
    <3>1. SUFFICES ASSUME NEW b \in before.entities, r.uid = b.uid
                   PROVE  s = b
      OBVIOUS
    <3>2. CASE r = b
      BY <1>5, <1>8, <2>1, <2>3, <3>2 DEF UndosAgree
    <3>3. ASSUME NEW d \in Entries(job.undo), d.id = r.id, RowAfter(d, r) = b
          PROVE  s = b
      <4>1. c.to = d.to
        BY <1>5, <1>8, <2>1, <3>3 DEF UndosAgree
      <4> QED
        BY <2>3, <3>3, <4>1, SameCommandSameRow
    <3> QED
      BY <1>5, <3>1, <3>2, <3>3 DEF RowsComeBack
  <2>6. SameUids'
    BY <1>2, <1>5, <2>4 DEF SameUids
  <2>7. \A x \in entities : x # r => x.id # c.id
    BY <1>10, <2>1 DEF UniqueRows
  <2>8. RowsComeBack'
    <3>1. ASSUME NEW x \in entities, x # r, NEW b \in before.entities, x.uid = b.uid
          PROVE  x = b \/ \E d \in Entries(job'.undo) : d.id = x.id /\ RowAfter(d, x) = b
      <4>1. x = b \/ \E d \in Entries(job.undo) : d.id = x.id /\ RowAfter(d, x) = b
        BY <1>5, <3>1 DEF RowsComeBack
      <4> QED
        BY <1>7, <2>7, <3>1, <4>1
    <3> QED
      BY <1>2, <2>4, <2>5, <3>1 DEF RowsComeBack
  <2>9. RefsComeBack'
    <3>1. \A p \in Places, id \in EntityIds : Command(p, id) # c
      BY <2>2 DEF Command
    <3>2. \A p \in Places : before.refs[p] \in EntityIds
      BY DEF EntityTypeOK
    <3> QED
      BY <1>2, <1>5, <1>7, <2>1, <3>1, <3>2 DEF RefsComeBack
  <2> QED
    BY <1>9, <2>6, <2>8, <2>9
<1>13. CASE c \in PlaceCommands
  <2>1. c.id \in Places
    BY <1>13 DEF PlaceCommands
  <2>2. refs' = [refs EXCEPT ![c.id] = c.to] /\ entities' = entities
    BY <1>6, <2>1, ExecutePlace
  <2>3. c.to = before.refs[c.id]
    BY <1>5, <1>8, <2>1 DEF UndosAgree
  <2>4. SameUids'
    BY <1>2, <1>5, <2>2 DEF SameUids
  <2>5. RowsComeBack'
    <3>1. \A r \in entities : r.id # c.id
      BY <1>11, <2>1
    <3> QED
      BY <1>2, <1>5, <1>7, <2>2, <3>1 DEF RowsComeBack
  <2>6. RefsComeBack'
    <3>1. refs'[c.id] = c.to /\ \A p \in Places : p # c.id => refs'[p] = refs[p]
      BY <2>1, <2>2 DEF EntityTypeOK
    <3>2. \A p \in Places : p # c.id => Command(p, before.refs[p]) # c
      BY DEF Command
    <3> QED
      BY <1>2, <1>5, <1>7, <2>3, <3>1, <3>2 DEF RefsComeBack
  <2> QED
    BY <1>9, <2>4, <2>5, <2>6
<1> QED
  BY <1>12, <1>13 DEF EntityCommands

LEMMA GoesBackStep ==
  ASSUME EntityTypeOK, CanGoBack, [EntityNext]_entityVars
  PROVE  CanGoBack'
<1>1. CASE PreviewRemove
  <2>1. PICK items \in Seq(EntityItems) : Preview("remove", items, {})
    BY <1>1, RemoveForm
  <2>2. {} \in SUBSET EntityPlans
    OBVIOUS
  <2>3. Previewed("remove", items, {})
    BY <2>1, <2>2, PreviewForm
  <2> QED
    BY <2>3 DEF Previewed, CanGoBack
<1>2. CASE Confirm \/ FinishJob \/ EndRollback
  <2>1. PICK pc \in {"items", "done", "undone"} :
           /\ Undone(pc, job.undo, job.errors) /\ entities' = entities /\ refs' = refs
           /\ pc = "items" => job.pc = "previewed"
           /\ pc = "done" => job.pc = "items"
           /\ pc = "undone" => job.pc = "undo"
    BY <1>2, MovesOnForm DEF EntityTypeOK
  <2>2. /\ job'.pc = pc /\ job'.tool = job.tool /\ job'.items = job.items /\ job'.plan = job.plan
        /\ job'.undo = job.undo /\ job'.errors = job.errors /\ before' = before /\ outside' = outside
    BY <2>1 DEF Undone
  <2>3. Undos' = Undos
    BY <2>2 DEF Undos
  <2>4. UndosAgree => UndosAgree'
    BY <2>2, <2>3 DEF UndosAgree
  <2>5. ItemsFit => ItemsFit'
    BY <2>2, <2>3 DEF ItemsFit, Toggles, Moves
  <2>6. (SameUids => SameUids') /\ (RowsComeBack => RowsComeBack') /\ (RefsComeBack => RefsComeBack')
    BY <2>1, <2>2 DEF SameUids, RowsComeBack, RefsComeBack
  <2> QED
    BY <2>1, <2>2, <2>4, <2>5, <2>6 DEF CanGoBack, Undoing
<1>3. CASE StartRollback
  <2>1. /\ job.pc = "done" /\ Undone("undo", Reverse(job.undo), FALSE)
        /\ Entries(job'.undo) = Entries(job.undo)
    BY <1>3, StartRollbackForm DEF EntityTypeOK
  <2>2. /\ job'.pc = "undo" /\ job'.tool = job.tool /\ job'.items = job.items /\ job'.plan = job.plan
        /\ before' = before /\ outside' = outside
    BY <2>1 DEF Undone
  <2>3. entities' = entities /\ refs' = refs
    BY <1>3 DEF StartRollback
  <2>4. Undos' = Undos
    BY <2>1, <2>2 DEF Undos
  <2>5. UndosAgree => UndosAgree'
    BY <2>2, <2>4 DEF UndosAgree
  <2>6. (SameUids => SameUids') /\ (RowsComeBack => RowsComeBack') /\ (RefsComeBack => RefsComeBack')
    BY <2>1, <2>2, <2>3 DEF SameUids, RowsComeBack, RefsComeBack
  <2> QED
    BY <2>1, <2>2, <2>5, <2>6 DEF CanGoBack, Undoing
<1>4. CASE CancelJob
  <2>1. job'.pc = "over"
    BY <1>4, CancelForm DEF EntityTypeOK
  <2> QED
    BY <2>1 DEF CanGoBack
<1>5. CASE OutsideChange
  <2>1. outside' # {}
    BY <1>5, OutsideForm DEF EntityTypeOK
  <2> QED
    BY <2>1 DEF CanGoBack
<1>6. CASE UNCHANGED entityVars
  <2>1. UNCHANGED <<entities, refs, job, before, outside>>
    BY <1>6 DEF entityVars
  <2>2. Undos' = Undos
    BY <2>1 DEF Undos
  <2>3. (UndosAgree => UndosAgree') /\ (ItemsFit => ItemsFit')
    BY <2>1, <2>2 DEF UndosAgree, ItemsFit, Toggles, Moves
  <2>4. (SameUids => SameUids') /\ (RowsComeBack => RowsComeBack') /\ (RefsComeBack => RefsComeBack')
    BY <2>1 DEF SameUids, RowsComeBack, RefsComeBack
  <2> QED
    BY <2>1, <2>3, <2>4 DEF CanGoBack, Undoing
<1> QED
  BY <1>1, <1>2, <1>3, <1>4, <1>5, <1>6, ToggleGoesBack, RenameGoesBack, RunItemGoesBack, RewriteGoesBack, UndoGoesBack
     DEF EntityNext

LEMMA EntitiesFirstStep ==
  ASSUME EntityTypeOK, EntitiesFirst, [EntityNext]_entityVars
  PROVE  EntitiesFirst'
<1>1. CASE PreviewRemove
  <2>1. PICK items \in Seq(EntityItems) : Preview("remove", items, {})
    BY <1>1, RemoveForm
  <2>2. {} \in SUBSET EntityPlans
    OBVIOUS
  <2>3. Previewed("remove", items, {})
    BY <2>1, <2>2, PreviewForm
  <2> QED
    BY <2>3 DEF Previewed, EntitiesFirst
<1>2. CASE PreviewToggle
  <2>1. PICK items \in Seq(EntityItems) : Preview("toggle", items, {})
    BY <1>2, ToggleForm
  <2>2. {} \in SUBSET EntityPlans
    OBVIOUS
  <2>3. Previewed("toggle", items, {})
    BY <2>1, <2>2, PreviewForm
  <2> QED
    BY <2>3 DEF Previewed, EntitiesFirst
<1>3. CASE PreviewRename
  <2>1. PICK items \in Seq(EntityItems), plan \in SUBSET EntityPlans :
          /\ Preview("rename", items, plan)
          /\ plan = {} \/ plan = Planned(items)
          /\ \A i \in DOMAIN items :
               /\ items[i].undo = Command(items[i].do.to, items[i].do.id)
               /\ HasRow(items[i].do.id)
               /\ items[i].do.to \in EntityIds /\ ~HasRow(items[i].do.to)
    BY <1>3, RenameForm
  <2>2. Previewed("rename", items, plan)
    BY <2>1, PreviewForm
  <2>3. /\ job'.items = items /\ job'.plan = plan /\ job'.planned = {w.place : w \in plan}
        /\ job'.pc = "previewed" /\ before'.entities = entities /\ entities' = entities /\ refs' = refs
    BY <2>2 DEF Previewed
  <2>4. \A w \in plan : \E i \in DOMAIN items : items[i].do.to = w.new
    <3>1. SUFFICES ASSUME NEW w \in plan
                   PROVE  \E i \in DOMAIN items : items[i].do.to = w.new
      OBVIOUS
    <3>2. RenamedTo(items, w.old, w.new)
      BY <2>1 DEF Planned
    <3>3. PICK i \in DOMAIN items : items[i].do = Command(w.old, w.new)
      BY <3>2 DEF RenamedTo
    <3> QED
      BY <3>3 DEF Command
  <2>5. \A i \in DOMAIN items : Moves(items[i])'
    BY <2>1, <2>3 DEF Moves, HasRow
  <2>6. \A w \in plan, b \in entities : w.new # b.id
    BY <2>1, <2>4 DEF HasRow
  <2> QED
    BY <2>3, <2>4, <2>5, <2>6 DEF EntitiesFirst, Moves
<1>4. CASE Confirm \/ FinishJob \/ EndRollback
  <2>1. PICK pc \in {"items", "done", "undone"} :
           /\ Undone(pc, job.undo, job.errors) /\ job'.planned = job.planned
           /\ entities' = entities /\ refs' = refs
           /\ pc = "items" => job.pc = "previewed"
           /\ pc = "done" => job.pc = "items"
    BY <1>4, MovesOnForm DEF EntityTypeOK
  <2>2. /\ job'.pc = pc /\ job'.tool = job.tool /\ job'.items = job.items /\ job'.plan = job.plan
        /\ job'.errors = job.errors /\ before' = before /\ outside' = outside
    BY <2>1 DEF Undone
  <2> QED
    BY <2>1, <2>2 DEF EntitiesFirst, Moves, HasRow
<1>5. CASE RunItem
  <2>1. PICK ok \in BOOLEAN, errors \in BOOLEAN, item \in EntityItems :
          /\ job.pc = "items" /\ job.items # <<>> /\ item = Head(job.items)
          /\ Perform(item.do, ok)
          /\ errors = (job.errors \/ ~ok)
          /\ Advanced(Tail(job.items), job.plan, Append(job.undo, item.undo), errors)
    BY <1>5, RunItemForm DEF EntityTypeOK
  <2>2. /\ job'.pc = "items" /\ job'.tool = job.tool /\ job'.items = Tail(job.items) /\ job'.plan = job.plan
        /\ job'.planned = job.planned /\ job'.errors = errors /\ before' = before /\ outside' = outside
    BY <2>1 DEF Advanced
  <2>3. SUFFICES ASSUME job.tool = "rename", ~errors, outside \subseteq {"file"}
                 PROVE  EntitiesFirst'
    BY <2>2 DEF EntitiesFirst
  <2>4. /\ \A i \in DOMAIN job.items : Moves(job.items[i])
        /\ \A w \in job.plan : \A b \in before.entities : w.new # b.id
        /\ \A w \in job.plan : HasRow(w.new) \/ \E i \in DOMAIN job.items : job.items[i].do.to = w.new
        /\ \A p \in job.planned : \E w \in job.plan : w.place = p
    BY <2>1, <2>3 DEF EntitiesFirst
  <2>5. Accepts(item.do) /\ Execute(item.do)
    BY <2>1, <2>3 DEF Perform
  <2>6. Entries(job.items) = {item} \cup Entries(job'.items)
    <3>1. job.items \in Seq(EntityItems)
      BY DEF EntityTypeOK, EntityJobs, EntityItems
    <3> QED
      BY <2>1, <2>2, <3>1, EntriesSplit
  <2>7. Moves(item)
    <3>1. \E k \in DOMAIN job.items : item = job.items[k]
      BY <2>6 DEF Entries
    <3> QED
      BY <2>4, <3>1
  <2>8. /\ item.do \in RowCommands /\ item.do.to \in EntityIds /\ item.do.to \notin {"on", "off", "remove"}
        /\ \E b \in before.entities : b.id = item.do.id
    BY <2>7, EntityAssumption DEF EntityItems, Moves
  <2>9. UniqueRows(entities)
    BY DEF EntityTypeOK
  <2>10. PICK r \in entities : r.id = item.do.id /\ entities' = (entities \ {r}) \cup {RowAfter(item.do, r)}
    BY <2>5, <2>8, <2>9, ExecuteRow
  <2>11. RowAfter(item.do, r).id = item.do.to
    BY <2>8, <2>9, RowAfterForm DEF EntityCommands, UniqueRows
  <2>12. \A w \in job.plan : HasRow(w.new) => HasRow(w.new)'
    BY <2>4, <2>8, <2>10 DEF HasRow
  <2>13. \A w \in job.plan : item.do.to = w.new => HasRow(w.new)'
    BY <2>10, <2>11 DEF HasRow
  <2>14. \A i \in DOMAIN job'.items : Moves(job'.items[i])
    <3>1. \A i \in DOMAIN job'.items : \E k \in DOMAIN job.items : job'.items[i] = job.items[k]
      BY <2>6 DEF Entries
    <3> QED
      BY <2>4, <3>1
  <2>15. \A w \in job.plan : HasRow(w.new)' \/ \E i \in DOMAIN job'.items : job'.items[i].do.to = w.new
    <3>1. \A k \in DOMAIN job.items : job.items[k] = item \/ \E i \in DOMAIN job'.items : job'.items[i] = job.items[k]
      BY <2>6 DEF Entries
    <3> QED
      BY <2>4, <2>12, <2>13, <3>1
  <2> QED
    BY <2>2, <2>4, <2>14, <2>15 DEF EntitiesFirst, Moves
<1>6. CASE RewriteFile \/ RewriteDashboard
  <2>1. PICK w \in job.plan, saved \in BOOLEAN, errors \in BOOLEAN :
          /\ job.pc = "items" /\ job.items = <<>>
          /\ ~errors => ~job.errors /\ saved /\ Execute(Command(w.place, w.new))
          /\ Advanced(<<>>, job.plan \ {w}, IF saved THEN Append(job.undo, Command(w.place, w.old)) ELSE job.undo, errors)
    BY <1>6, RewriteForm DEF EntityTypeOK
  <2>2. /\ job'.pc = "items" /\ job'.tool = job.tool /\ job'.items = <<>> /\ job'.plan = job.plan \ {w}
        /\ job'.planned = job.planned /\ job'.errors = errors /\ before' = before /\ outside' = outside
    BY <2>1 DEF Advanced
  <2>3. SUFFICES ASSUME job.tool = "rename", ~errors, outside \subseteq {"file"}
                 PROVE  EntitiesFirst'
    BY <2>2 DEF EntitiesFirst
  <2>4. /\ \A v \in job.plan : \A b \in before.entities : v.new # b.id
        /\ \A v \in job.plan : HasRow(v.new)
        /\ \A p \in job.planned : (\E v \in job.plan : v.place = p) \/ HasRow(refs[p])
    BY <2>1, <2>3 DEF EntitiesFirst
  <2>5. w.place \in Places
    BY DEF EntityTypeOK, EntityJobs
  <2>6. refs' = [refs EXCEPT ![w.place] = w.new] /\ entities' = entities
    BY <2>1, <2>3, <2>5, ExecutePlace DEF Command
  <2>7. job.planned \subseteq Places
    BY DEF EntityTypeOK, EntityJobs
  <2>8. refs'[w.place] = w.new /\ \A p \in Places : p # w.place => refs'[p] = refs[p]
    BY <2>5, <2>6 DEF EntityTypeOK
  <2>9. \A id : HasRow(id)' <=> HasRow(id)
    BY <2>6 DEF HasRow
  <2>10. \A p \in job.planned : (\E v \in job.plan \ {w} : v.place = p) \/ HasRow(refs[p])'
    <3>1. SUFFICES ASSUME NEW p \in job.planned
                   PROVE  (\E v \in job.plan \ {w} : v.place = p) \/ HasRow(refs[p])'
      OBVIOUS
    <3>2. CASE p = w.place
      BY <2>4, <2>6, <2>8, <3>2 DEF HasRow
    <3>3. CASE p # w.place
      BY <2>4, <2>6, <2>7, <2>8, <3>3 DEF HasRow
    <3> QED
      BY <3>2, <3>3
  <2> QED
    BY <2>2, <2>4, <2>6, <2>10 DEF EntitiesFirst, HasRow
<1>7. CASE StartRollback \/ UndoItem
  <2>1. job'.pc = "undo"
    BY <1>7, StartRollbackForm, UndoForm DEF EntityTypeOK, Undone
  <2> QED
    BY <2>1 DEF EntitiesFirst
<1>8. CASE CancelJob
  <2>1. job'.pc = "over"
    BY <1>8, CancelForm DEF EntityTypeOK
  <2> QED
    BY <2>1 DEF EntitiesFirst
<1>9. CASE OutsideChange
  <2>1. SUFFICES ASSUME outside' \subseteq {"file"}
                 PROVE  EntitiesFirst'
    BY DEF EntitiesFirst
  <2>2. PICK c \in EntityCommands :
          /\ Execute(c) /\ outside \subseteq {"file"} /\ c.id = "file" /\ \E w \in job.plan : w.place = "file"
    BY <1>9, <2>1, OutsideForm DEF EntityTypeOK
  <2>3. job' = job /\ before' = before
    BY <1>9, OutsideForm DEF EntityTypeOK
  <2>4. refs' = [refs EXCEPT !["file"] = c.to] /\ entities' = entities
    BY <2>2, ExecutePlace DEF Places
  <2>5. \A p \in Places : p # "file" => refs'[p] = refs[p]
    BY <2>4 DEF EntityTypeOK
  <2>6. job.planned \subseteq Places
    BY DEF EntityTypeOK, EntityJobs
  <2> QED
    BY <2>2, <2>3, <2>4, <2>5, <2>6 DEF EntitiesFirst, Moves, HasRow
<1>10. CASE UNCHANGED entityVars
  BY <1>10 DEF entityVars, EntitiesFirst, Moves, HasRow
<1> QED
  BY <1>1, <1>2, <1>3, <1>4, <1>5, <1>6, <1>7, <1>8, <1>9, <1>10 DEF EntityNext

LEMMA EntityInitOK == EntityInit => EntityInv
<1>1. SUFFICES ASSUME EntityInit
               PROVE  EntityInv
  OBVIOUS
<1>2. PICK ids \in [Uids -> EntityIds], on \in [Uids -> BOOLEAN] :
        IsInjective(ids) /\ entities = {[uid |-> u, id |-> ids[u], on |-> on[u]] : u \in Uids}
  BY <1>1 DEF EntityInit
<1>3. refs \in [Places -> EntityIds] /\ job = NoJob /\ before = [entities |-> entities, refs |-> refs]
  BY <1>1 DEF EntityInit
<1>4. UniqueRows(entities)
  <2>1. \A r \in entities : \E u \in Uids : r = [uid |-> u, id |-> ids[u], on |-> on[u]]
    BY <1>2
  <2>2. \A u, v \in Uids : ids[u] = ids[v] => u = v
    BY <1>2 DEF IsInjective
  <2>3. \A r \in entities : r \in EntityRows
    BY <1>2, <2>1 DEF EntityRows
  <2>4. \A r \in entities : \E u \in Uids : r.uid = u /\ r.id = ids[u] /\ r.on = on[u]
    BY <2>1
  <2>5. \A r, s \in entities : r.uid = s.uid => r = s
    BY <2>1
  <2> QED
    BY <2>2, <2>3, <2>4, <2>5 DEF UniqueRows
<1>5. job \in EntityJobs /\ job.pc = "idle"
  BY <1>3 DEF NoJob, EntityJobs
<1>6. EntityTypeOK
  <2>1. entities \subseteq EntityRows
    BY <1>4 DEF UniqueRows
  <2> QED
    BY <1>3, <1>4, <1>5, <2>1 DEF EntityTypeOK
<1> QED
  BY <1>5, <1>6 DEF EntityInv, CanGoBack, EntitiesFirst

LEMMA EntityInvHolds == EntitySpec => []EntityInv
<1>1. EntityInv /\ [EntityNext]_entityVars => EntityInv'
  BY EntityTypeStep, GoesBackStep, EntitiesFirstStep DEF EntityInv
<1> QED
  BY <1>1, EntityInitOK, PTL DEF EntitySpec

(* A rollback that reports success puts the registry and the references    *)
(* back as they were at the preview, after a toggle or a rename of any     *)
(* number of entities and whatever failed on the way, if nobody interfered *)
(* (rollback_transaction in tools/rollback.py with the undo entries of     *)
(* tools/entity.py).                                                       *)
THEOREM RollbackUndoesTheWhole == EntitySpec => []RenameIsUndoneWhole
<1>1. EntityInv => RenameIsUndoneWhole
  <2>1. SUFFICES ASSUME EntityInv, job.pc = "undone", job.tool # "remove", ~job.errors, outside = {}
                 PROVE  entities = before.entities /\ refs = before.refs
    BY DEF RenameIsUndoneWhole
  <2>2. SameUids /\ RowsComeBack /\ RefsComeBack
    BY <2>1 DEF EntityInv, CanGoBack
  <2>3. Entries(job.undo) = {}
    BY <2>1 DEF EntityInv, EntityTypeOK, Entries
  <2>4. \A r \in entities, b \in before.entities : r.uid = b.uid => r = b
    BY <2>2, <2>3 DEF RowsComeBack
  <2>5. entities = before.entities
    BY <2>2, <2>4 DEF SameUids
  <2>6. \A p \in Places : refs[p] = before.refs[p]
    BY <2>2, <2>3 DEF RefsComeBack
  <2>7. refs \in [Places -> EntityIds \cup {"torn"}] /\ before.refs \in [Places -> EntityIds]
    BY <2>1 DEF EntityInv, EntityTypeOK
  <2> QED
    BY <2>5, <2>6, <2>7
<1> QED
  BY <1>1, EntityInvHolds, PTL

(* After a rename that reports success every reference it planned to move  *)
(* names an entity that exists, whoever edits the file meanwhile: the      *)
(* rewrites follow the registry, and one that finds its file changed is    *)
(* an error (haops_entity_rename in tools/entity.py).                      *)
THEOREM ReferencesAreMovedLast == EntitySpec => []ReferencesFollow
<1>1. EntityInv => ReferencesFollow
  BY DEF EntityInv, EntityTypeOK, EntitiesFirst, ReferencesFollow
<1> QED
  BY <1>1, EntityInvHolds, PTL


================================================================================
