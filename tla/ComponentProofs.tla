---------------------------- MODULE ComponentProofs ----------------------------
(***************************************************************************)
(* The provider of the server's tokens, the stores on disk, the activity   *)
(* log, and the components that hand a scarce or shared thing to           *)
(* concurrent calls: pooled database connections, the one headless         *)
(* browser, the build directories of ESPHome and the reference graph on    *)
(* the context.  Each section has the inductive invariant of one of them,  *)
(* a lemma for every action that keeps it, and the theorems that follow    *)
(* from it.  The last sections are about computations: the plan of a       *)
(* rename, the placing of a patch's hunks and the passes of the reference  *)
(* graph.                                                                  *)
(***************************************************************************)
EXTENDS OAuthProvider, DatabasePool, BrowserCapture, RequestIndex, EsphomeBuilds, DiskStores,
        ActivityLog, RenamePlan, PatchTools, ReferenceGraph, FiniteSetTheorems, WellFoundedInduction,
        TLAPS

-----------------------------------------------------------------------------
(* DatabasePool                                                            *)

DbStages == {"idle", "connected", "prepared", "ready", "ran"}

DbTypeOK ==
  /\ backend \in {"sqlite", "mariadb", "postgresql"}
  /\ session \in [Connections -> {"read", "write"}]
  /\ txn \in [Connections -> {"none", "read", "write"}]
  /\ dbcall \in [DbCalls -> [pc   : DbStages,
                             kind : {"none", "query", "execute", "explain", "health"},
                             conn : Connections \cup {"none"}]]

(* A connection serves one call at a time.                                 *)
OwnConnection ==
  \A c \in DbCalls :
    /\ dbcall[c].pc = "idle" <=> dbcall[c].conn = "none"
    /\ \A d \in DbCalls \ {c} : dbcall[c].pc # "idle" => dbcall[d].conn # dbcall[c].conn

(* A connection nobody has, or that was just taken, has no transaction     *)
(* open: whatever an earlier call did, the pool rolled it back.            *)
RolledBackWhenFree ==
  /\ \A conn \in Connections : ~Busy(conn) => txn[conn] = "none"
  /\ \A c \in DbCalls : dbcall[c].pc = "connected" => txn[dbcall[c].conn] = "none"

(* PostgreSQL keeps nothing in the session; elsewhere a prepared write has *)
(* made it writable.                                                       *)
SessionMode ==
  /\ backend = "postgresql" => \A conn \in Connections : session[conn] = "write"
  /\ \A c \in DbCalls :
       dbcall[c].pc = "prepared" => session[dbcall[c].conn] = "write" /\ dbcall[c].kind # "query"

(* What a call that is about to run its statement finds.                   *)
ReadyMode ==
  \A c \in DbCalls :
    dbcall[c].pc = "ready" =>
      /\ dbcall[c].kind = "query" => Mode(dbcall[c].conn) = "read"
      /\ dbcall[c].kind \notin {"query", "health"}
           => session[dbcall[c].conn] = "write" /\ txn[dbcall[c].conn] = "none"

DbInv == DbTypeOK /\ OwnConnection /\ RolledBackWhenFree /\ SessionMode /\ ReadyMode

LEMMA DbStarts == DbInit => DbInv
  BY DEF DbInit, DbInv, DbTypeOK, OwnConnection, RolledBackWhenFree, SessionMode, ReadyMode, DbStages, IdleCall

(* A step that only touches what is c's own (its record, its connection)   *)
(* leaves the invariant of every other call alone.                         *)
LEMMA OthersKeepTheirConnection ==
  ASSUME DbInv, NEW c \in DbCalls, NEW conn \in Connections, dbcall[c].conn = conn,
         NEW pc \in {"connected", "prepared", "ready", "ran"}, dbcall' = [dbcall EXCEPT ![c].pc = pc],
         NEW s \in {"read", "write"}, session' = [session EXCEPT ![conn] = s],
         NEW x \in {"none", "read", "write"}, txn' = [txn EXCEPT ![conn] = x],
         UNCHANGED backend,
         backend = "postgresql" => s = "write",
         pc = "connected" => x = "none",
         pc = "prepared" => s = "write" /\ dbcall[c].kind # "query",
         pc = "ready" /\ dbcall[c].kind = "query" => "read" = (IF backend = "sqlite" \/ x = "none" THEN s ELSE x),
         pc = "ready" /\ dbcall[c].kind \notin {"query", "health"} => s = "write" /\ x = "none"
  PROVE  DbInv'
<1> USE DEF DbInv, DbTypeOK, OwnConnection, DbStages
<1>1. DbTypeOK' /\ OwnConnection'
  BY DbAssumption
<1>2. \A d \in DbCalls : /\ dbcall'[d].conn = dbcall[d].conn
                         /\ dbcall'[d].kind = dbcall[d].kind
                         /\ d # c => dbcall'[d] = dbcall[d] /\ dbcall[d].conn # conn
  BY DbAssumption
<1>3. /\ \A k \in Connections \ {conn} : session'[k] = session[k] /\ txn'[k] = txn[k]
      /\ dbcall'[c].pc = pc /\ session'[conn] = s /\ txn'[conn] = x
  OBVIOUS
<1>4. RolledBackWhenFree'
  BY <1>2, <1>3 DEF RolledBackWhenFree, Busy
<1>5. SessionMode'
  BY <1>2, <1>3 DEF SessionMode
<1>6. ReadyMode'
  BY <1>2, <1>3 DEF ReadyMode, Mode
<1> QED
  BY <1>1, <1>4, <1>5, <1>6

LEMMA DbSteps == DbInv /\ [DbNext]_dbVars => DbInv'
<1> SUFFICES ASSUME DbInv, [DbNext]_dbVars PROVE DbInv'
  OBVIOUS
<1> USE DEF DbInv, DbTypeOK, DbStages
<1>0. ASSUME NEW c \in DbCalls, dbcall[c].pc # "idle"
      PROVE  /\ dbcall[c].conn \in Connections
             /\ session = [session EXCEPT ![dbcall[c].conn] = session[dbcall[c].conn]]
             /\ txn = [txn EXCEPT ![dbcall[c].conn] = txn[dbcall[c].conn]]
  BY <1>0 DEF OwnConnection
<1>1. ASSUME NEW c \in DbCalls, Connect(c) PROVE DbInv'
  <2>1. PICK conn \in Connections, kind \in {"query", "execute", "explain", "health"} :
          /\ ~Busy(conn)
          /\ dbcall' = [dbcall EXCEPT ![c] =
                          [pc |-> IF kind = "health" THEN "ready" ELSE "connected", kind |-> kind, conn |-> conn]]
    BY <1>1 DEF Connect
  <2>2. /\ UNCHANGED <<backend, session, txn>>
        /\ dbcall[c].conn = "none" /\ conn # "none" /\ txn[conn] = "none"
    BY <1>1, <2>1, DbAssumption DEF Connect, OwnConnection, RolledBackWhenFree
  <2>3. \A d \in DbCalls : d # c => dbcall'[d] = dbcall[d] /\ dbcall[d].conn # conn
    BY <2>1 DEF Busy
  <2>4. /\ dbcall'[c].pc \in {"ready", "connected"} /\ dbcall'[c].conn = conn
        /\ dbcall'[c].pc = "ready" => dbcall'[c].kind = "health"
    BY <2>1
  <2>5. DbTypeOK'
    BY <2>1, <2>2
  <2>6. OwnConnection'
    BY <2>2, <2>3, <2>4 DEF OwnConnection
  <2>7. RolledBackWhenFree'
    BY <2>2, <2>3, <2>4, DbAssumption DEF RolledBackWhenFree, Busy
  <2>8. SessionMode' /\ ReadyMode'
    BY <2>2, <2>3, <2>4 DEF SessionMode, ReadyMode, Mode
  <2> QED
    BY <2>5, <2>6, <2>7, <2>8
<1>2. ASSUME NEW c \in DbCalls, PrepareQuery(c) PROVE DbInv'
  <2> DEFINE conn == dbcall[c].conn
  <2>1. /\ conn \in Connections /\ txn[conn] = "none" /\ dbcall[c].kind = "query"
        /\ dbcall' = [dbcall EXCEPT ![c].pc = "ready"] /\ UNCHANGED backend
    BY <1>0, <1>2 DEF PrepareQuery, RolledBackWhenFree
  <2>2. CASE backend = "postgresql"
    <3>1. session' = [session EXCEPT ![conn] = session[conn]] /\ txn' = [txn EXCEPT ![conn] = "read"]
      BY <1>0, <1>2, <2>2 DEF PrepareQuery, SetReadOnly
    <3> QED
      BY <2>1, <2>2, <3>1, OthersKeepTheirConnection DEF SessionMode
  <2>3. CASE backend # "postgresql"
    <3>1. session' = [session EXCEPT ![conn] = "read"] /\ txn' = [txn EXCEPT ![conn] = "none"]
      BY <1>0, <1>2, <2>1, <2>3 DEF PrepareQuery, SetReadOnly
    <3> QED
      BY <2>1, <2>3, <3>1, OthersKeepTheirConnection
  <2> QED
    BY <2>2, <2>3
<1>3. ASSUME NEW c \in DbCalls, PrepareWrite(c) PROVE DbInv'
  <2> DEFINE conn == dbcall[c].conn
  <2>1. /\ conn \in Connections /\ dbcall[c].kind # "query"
        /\ dbcall' = [dbcall EXCEPT ![c].pc = "prepared"] /\ UNCHANGED backend
    BY <1>0, <1>3 DEF PrepareWrite
  <2>2. CASE backend = "postgresql"
    <3>1. session' = [session EXCEPT ![conn] = "write"] /\ txn' = [txn EXCEPT ![conn] = "write"]
      BY <1>0, <1>3, <2>1, <2>2 DEF PrepareWrite, SetWritable, SessionMode
    <3> QED
      BY <2>1, <3>1, OthersKeepTheirConnection
  <2>3. CASE backend # "postgresql"
    <3>1. session' = [session EXCEPT ![conn] = "write"] /\ txn' = [txn EXCEPT ![conn] = txn[conn]]
      BY <1>0, <1>3, <2>3 DEF PrepareWrite, SetWritable
    <3> QED
      BY <2>1, <3>1, OthersKeepTheirConnection
  <2> QED
    BY <2>2, <2>3
<1>4. ASSUME NEW c \in DbCalls, StartAfresh(c) PROVE DbInv'
  <2> DEFINE conn == dbcall[c].conn
  <2>1. /\ conn \in Connections /\ dbcall[c].kind # "query" /\ session[conn] = "write"
        /\ dbcall' = [dbcall EXCEPT ![c].pc = "ready"] /\ UNCHANGED backend
        /\ session' = [session EXCEPT ![conn] = "write"] /\ txn' = [txn EXCEPT ![conn] = "none"]
    BY <1>0, <1>4 DEF StartAfresh, SessionMode
  <2> QED
    BY <2>1, OthersKeepTheirConnection
<1>5. ASSUME NEW c \in DbCalls, Statement(c) PROVE DbInv'
  <2> DEFINE conn == dbcall[c].conn
             mode == IF txn[conn] = "none" THEN session[conn] ELSE txn[conn]
  <2>1. /\ conn \in Connections /\ mode \in {"none", "read", "write"} /\ session[conn] \in {"read", "write"}
        /\ dbcall' = [dbcall EXCEPT ![c].pc = "ran"] /\ UNCHANGED backend
        /\ session' = [session EXCEPT ![conn] = session[conn]] /\ txn' = [txn EXCEPT ![conn] = mode]
    BY <1>0, <1>5 DEF Statement
  <2>2. backend = "postgresql" => session[conn] = "write"
    BY <2>1 DEF SessionMode
  <2> HIDE DEF mode
  <2> QED
    BY <2>1, <2>2, OthersKeepTheirConnection
<1>6. ASSUME NEW c \in DbCalls, Disconnect(c) PROVE DbInv'
  <2> DEFINE conn == dbcall[c].conn
  <2>1. /\ conn \in Connections
        /\ dbcall' = [dbcall EXCEPT ![c] = IdleCall] /\ UNCHANGED <<backend, session>>
        /\ txn' = [txn EXCEPT ![conn] = "none"]
    BY <1>0, <1>6 DEF Disconnect
  <2>2. /\ \A d \in DbCalls : d # c => dbcall'[d] = dbcall[d] /\ dbcall[d].conn # conn
        /\ dbcall'[c].pc = "idle" /\ dbcall'[c].conn = "none"
    BY <1>6, <2>1 DEF Disconnect, OwnConnection, IdleCall
  <2>3. DbTypeOK'
    BY <2>1 DEF IdleCall
  <2>4. OwnConnection'
    BY <2>2 DEF OwnConnection
  <2>5. txn'[conn] = "none" /\ \A k \in Connections : k # conn => txn'[k] = txn[k]
    BY <2>1
  <2>6. RolledBackWhenFree'
    <3>1. ASSUME NEW k \in Connections, ~Busy(k)', k # conn PROVE txn'[k] = "none"
      <4>1. ~Busy(k)
        BY <2>2, <3>1 DEF Busy
      <4> QED
        BY <2>5, <3>1, <4>1 DEF RolledBackWhenFree
    <3> QED
      BY <2>1, <2>2, <2>5, <3>1 DEF RolledBackWhenFree, OwnConnection
  <2>7. SessionMode' /\ ReadyMode'
    BY <2>1, <2>2, <2>5 DEF SessionMode, ReadyMode, Mode, OwnConnection
  <2> QED
    BY <2>3, <2>4, <2>6, <2>7
<1>7. CASE UNCHANGED dbVars
  BY <1>7 DEF dbVars, OwnConnection, RolledBackWhenFree, Busy, SessionMode, ReadyMode, Mode
<1> QED
  BY <1>1, <1>2, <1>3, <1>4, <1>5, <1>6, <1>7 DEF DbNext

(* On every backend and for any number of calls and connections, a query   *)
(* meets its connection read-only and a write meets it writable.           *)
THEOREM QueriesAreReadOnly == DbSpec => []StatementsMeetTheirMode
<1>1. DbInv => StatementsMeetTheirMode
  <2> SUFFICES ASSUME DbInv, NEW c \in DbCalls, dbcall[c].pc = "ready"
               PROVE  CASE dbcall[c].kind = "query"  -> Mode(dbcall[c].conn) = "read"
                        [] dbcall[c].kind = "health" -> TRUE
                        [] OTHER                     -> Mode(dbcall[c].conn) = "write"
    BY Zenon DEF StatementsMeetTheirMode
  <2>1. /\ dbcall[c].kind = "query" => Mode(dbcall[c].conn) = "read"
        /\ dbcall[c].kind \notin {"query", "health"} => Mode(dbcall[c].conn) = "write"
    BY DEF DbInv, ReadyMode, Mode
  <2> QED
    BY <2>1, Zenon
<1> QED
  BY DbStarts, DbSteps, <1>1, PTL DEF DbSpec

-----------------------------------------------------------------------------
(* BrowserCapture                                                          *)

(* Between entering the semaphore and giving the place back.               *)
InTurn == {"playwright", "opening", "works", "closing", "stopping", "stopped"}

CaptureTypeOK ==
  /\ capture \in [CaptureCalls -> [pc   : {"idle", "waits", "released", "over"} \cup InTurn,
                                   tool : CaptureTools \cup {"none"}]]
  /\ semaphore \subseteq CaptureCalls

(* The place in the semaphore belongs to the one call that is in its turn, *)
(* a browser to a call that is between its launch and the end of           *)
(* playwright, and a temporary file to a call that is not over.            *)
OneTurnAtATime ==
  /\ \A c \in CaptureCalls : c \in semaphore <=> capture[c].pc \in InTurn
  /\ \A c, d \in semaphore : c = d
  /\ \A c \in browsers : c \in CaptureCalls /\ capture[c].pc \in InTurn \ {"playwright", "stopped"}
  /\ \A c \in temps : c \in CaptureCalls /\ capture[c].pc \notin {"idle", "over"}

CaptureInv == CaptureTypeOK /\ OneTurnAtATime

LEMMA CaptureStarts == CaptureInit => CaptureInv
  BY DEF CaptureInit, CaptureInv, CaptureTypeOK, OneTurnAtATime, InTurn, CaptureTools

LEMMA CaptureSteps == CaptureInv /\ [CaptureNext]_captureVars => CaptureInv'
<1> SUFFICES ASSUME CaptureInv, [CaptureNext]_captureVars PROVE CaptureInv'
  OBVIOUS
<1> USE DEF CaptureInv, CaptureTypeOK, OneTurnAtATime, InTurn, CaptureTools, At, Goes
<1>1. ASSUME NEW c \in CaptureCalls, CallCapture(c) PROVE CaptureInv'
  BY <1>1 DEF CallCapture
<1>2. ASSUME NEW c \in CaptureCalls, EnterSemaphore(c) PROVE CaptureInv'
  BY <1>2 DEF EnterSemaphore
<1>3. ASSUME NEW c \in CaptureCalls, Launch(c) PROVE CaptureInv'
  BY <1>3 DEF Launch
<1>4. ASSUME NEW c \in CaptureCalls, Opened(c) \/ Works(c) PROVE CaptureInv'
  BY <1>4 DEF Opened, Works
<1>5. ASSUME NEW c \in CaptureCalls, CloseBrowser(c) PROVE CaptureInv'
  BY <1>5 DEF CloseBrowser
<1>6. ASSUME NEW c \in CaptureCalls, Raises(c) PROVE CaptureInv'
  <2> DEFINE out == CASE At(c, "playwright") -> "released"
                      [] At(c, "works")      -> "closing"
                      [] OTHER               -> "stopping"
  <2>1. /\ At(c, "playwright") \/ At(c, "opening") \/ At(c, "works") \/ At(c, "closing")
        /\ Goes(c, out)
        /\ semaphore' = IF At(c, "playwright") THEN semaphore \ {c} ELSE semaphore
        /\ UNCHANGED <<browsers, temps>>
    BY <1>6, Zenon DEF Raises
  <2>2. /\ At(c, "playwright") /\ ~At(c, "works") => out = "released"
        /\ At(c, "works") /\ ~At(c, "playwright") => out = "closing"
        /\ ~At(c, "playwright") /\ ~At(c, "works") => out = "stopping"
    BY Zenon
  <2> HIDE DEF out
  <2> QED
    BY <2>1, <2>2
<1>7. ASSUME NEW c \in CaptureCalls, StopsWaiting(c) PROVE CaptureInv'
  BY <1>7 DEF StopsWaiting
<1>8. ASSUME NEW c \in CaptureCalls, LeaveWith(c) PROVE CaptureInv'
  <2>1. CASE capture[c].pc = "stopping" /\ c \in semaphore
    BY <1>8, <2>1 DEF LeaveWith
  <2>2. CASE capture[c].pc = "stopped"
    BY <1>8, <2>2 DEF LeaveWith
  <2> QED
    BY <1>8, <2>1, <2>2 DEF LeaveWith
<1>9. ASSUME NEW c \in CaptureCalls, CaptureEnds(c) PROVE CaptureInv'
  BY <1>9 DEF CaptureEnds, TempsAfter
<1>10. CASE UNCHANGED captureVars
  BY <1>10 DEF captureVars
<1> QED
  BY <1>1, <1>2, <1>3, <1>4, <1>5, <1>6, <1>7, <1>8, <1>9, <1>10 DEF CaptureNext

(* However many captures there are and however they fail, one browser is   *)
(* alive at a time and a call that is over left nothing behind.            *)
THEOREM BrowsersTakeTurns == CaptureSpec => []OneBrowserAtATime
<1>1. CaptureInv => OneBrowserAtATime
  <2> SUFFICES ASSUME CaptureInv PROVE OneBrowserAtATime
    OBVIOUS
  <2>1. ASSUME NEW c \in browsers PROVE browsers = {c}
    BY <2>1 DEF CaptureInv, OneTurnAtATime
  <2>2. Cardinality(browsers) = 0 \/ Cardinality(browsers) = 1
    BY <2>1, FS_EmptySet, FS_Singleton, Zenon
  <2>3. Cardinality(browsers) <= 1
    BY <2>2
  <2> QED
    BY <2>3 DEF CaptureInv, OneTurnAtATime, OneBrowserAtATime, At, InTurn
<1> QED
  BY CaptureStarts, CaptureSteps, <1>1, PTL DEF CaptureSpec

-----------------------------------------------------------------------------
(* RequestIndex                                                            *)

(* What builds have read so far: revisions of some of the sources.         *)
Partial == UNION {[S -> Nat] : S \in SUBSET Sources}

IndexRecord ==
  [pc    : {"idle", "listing", "building", "done"},
   kind  : {"none", "references", "check", "plan"},
   since : Partial,
   seen  : Partial]

IndexTypeOK ==
  /\ revision \in [Sources -> Nat]
  /\ indexCall \in [IndexCalls -> IndexRecord]
  /\ requestIndex \subseteq [Sources -> Nat]

(* What is true of a call when the revisions are `now' and the context     *)
(* holds the graphs `there', whatever the others do.                       *)
Current(c, now, there) ==
  /\ c.pc # "idle" => c.since \in [Sources -> Nat] /\ c.since["files"] <= now["files"]
  /\ c.pc \in {"listing", "building"} => "files" \notin DOMAIN c.seen
  /\ c.pc = "listing" => \A refs \in there : refs["files"] >= c.since["files"]
  /\ c.pc = "done" => c.seen["files"] >= c.since["files"]

(* A call began in the past, a build that has not finished has not read    *)
(* the files yet, and whatever lies on the context while a call lists its  *)
(* dashboards was put there after that call began: every later call, like  *)
(* this one, emptied it.                                                   *)
SinceTheBeginning ==
  \A c \in IndexCalls : Current(indexCall[c], revision, requestIndex)

IndexInv == IndexTypeOK /\ SinceTheBeginning

(* What a build has read when it takes in one more source.                 *)
LEMMA ReadOneMore ==
  ASSUME IndexTypeOK, NEW f \in Partial, NEW s \in Sources
  PROVE  /\ WithSource(f, s) \in [DOMAIN f \cup {s} -> Nat]
         /\ WithSource(f, s) \in Partial
         /\ WithSource(f, s)[s] = revision[s]
<1>1. PICK S \in SUBSET Sources : f \in [S -> Nat]
  BY DEF Partial
<1>2. revision[s] \in Nat
  BY DEF IndexTypeOK
<1>3. WithSource(f, s) \in [S \cup {s} -> Nat] /\ WithSource(f, s)[s] = revision[s]
  BY <1>1, <1>2 DEF WithSource
<1>4. S \cup {s} \in SUBSET Sources
  OBVIOUS
<1> QED
  BY <1>1, <1>3, <1>4 DEF Partial

LEMMA UnreadIsPartial == Unread \in Partial /\ DOMAIN Unread = {}
<1>1. Unread \in [{} -> Nat]
  BY DEF Unread
<1> QED
  BY <1>1 DEF Partial

LEMMA IndexStarts == IndexInit => IndexInv
<1> SUFFICES ASSUME IndexInit PROVE IndexInv
  OBVIOUS
<1>1. Waiting \in IndexRecord /\ Waiting.pc = "idle"
  BY UnreadIsPartial DEF Waiting, IndexRecord
<1>2. IndexTypeOK
  BY <1>1 DEF IndexInit, IndexTypeOK
<1>3. SinceTheBeginning
  BY <1>1 DEF IndexInit, SinceTheBeginning, Current
<1> QED
  BY <1>2, <1>3 DEF IndexInv

(* A call that asks for the graph takes one that is current for it, or     *)
(* begins a build of its own.                                              *)
LEMMA TakesOrBuilds ==
  ASSUME NEW call \in IndexRecord, NEW there \in SUBSET [Sources -> Nat],
         call.since \in [Sources -> Nat], call.since["files"] <= revision["files"],
         "files" \notin DOMAIN call.seen,
         \A refs \in there : refs["files"] >= call.since["files"]
  PROVE  GetOrBuild(call, there) \in IndexRecord /\ \A ctx : Current(GetOrBuild(call, there), revision, ctx)
<1>1. CASE there = {}
  BY <1>1 DEF GetOrBuild, IndexRecord, Current
<1>2. CASE there # {}
  <2> DEFINE refs == CHOOSE g \in there : TRUE
  <2>1. refs \in there
    BY <1>2
  <2>2. refs \in Partial
    BY <2>1 DEF Partial
  <2>3. GetOrBuild(call, there) = [call EXCEPT !.pc = "done", !.seen = refs]
    BY <1>2 DEF GetOrBuild
  <2> HIDE DEF refs
  <2> QED
    BY <2>1, <2>2, <2>3 DEF IndexRecord, Current
<1> QED
  BY <1>1, <1>2

LEMMA IndexSteps == IndexInv /\ [IndexNext]_indexVars => IndexInv'
<1> SUFFICES ASSUME IndexInv, [IndexNext]_indexVars PROVE IndexInv'
  OBVIOUS
<1> USE DEF IndexInv
<1>0. /\ IndexTypeOK /\ SinceTheBeginning
      /\ "files" \in Sources /\ revision \in [Sources -> Nat] /\ revision["files"] \in Nat
  BY DEF IndexTypeOK, Sources
<1>1. ASSUME NEW c \in IndexCalls, BeginCall(c) PROVE IndexInv'
  <2>1. PICK kind \in {"references", "check", "plan"} :
          LET call == [pc |-> "listing", kind |-> kind, since |-> revision, seen |-> Unread]
          IN indexCall' = [indexCall EXCEPT ![c] = CASE kind = "references" -> GetOrBuild(call, AtEntry)
                                                     [] kind = "check"      -> GetOrBuild(call, {})
                                                     [] OTHER               -> call]
    BY <1>1 DEF BeginCall
  <2> DEFINE call == [pc |-> "listing", kind |-> kind, since |-> revision, seen |-> Unread]
             next == CASE kind = "references" -> GetOrBuild(call, AtEntry)
                       [] kind = "check"      -> GetOrBuild(call, {})
                       [] OTHER               -> call
  <2>2. requestIndex' = {} /\ UNCHANGED revision
    BY <1>1 DEF BeginCall, AtEntry
  <2>3. indexCall' = [indexCall EXCEPT ![c] = next]
    BY <2>1
  <2>4. /\ call \in IndexRecord /\ call.since = revision /\ "files" \notin DOMAIN call.seen /\ call.pc = "listing"
        /\ revision \in [Sources -> Nat] /\ revision["files"] \in Nat
    <3>1. revision \in Partial
      BY <1>0 DEF Partial
    <3> QED
      BY <1>0, <3>1, UnreadIsPartial DEF IndexRecord
  <2>5. next = call \/ next = GetOrBuild(call, {})
    BY Zenon DEF AtEntry
  <2> HIDE DEF call, next
  <2>6. GetOrBuild(call, {}) \in IndexRecord /\ \A ctx : Current(GetOrBuild(call, {}), revision, ctx)
    BY <2>4, TakesOrBuilds
  <2>7. next \in IndexRecord /\ Current(next, revision, {})
    <3>1. GetOrBuild(call, {}).pc = "building"
      BY <2>4 DEF GetOrBuild, IndexRecord
    <3> QED
      BY <2>2, <2>4, <2>5, <2>6, <3>1 DEF Current
  <2>8. IndexTypeOK'
    BY <2>2, <2>3, <2>7 DEF IndexTypeOK
  <2>9. SinceTheBeginning'
    BY <2>2, <2>3, <2>7 DEF SinceTheBeginning, Current, IndexTypeOK
  <2> QED
    BY <2>8, <2>9
<1>2. ASSUME NEW c \in IndexCalls, DashboardsListed(c) PROVE IndexInv'
  <2> DEFINE next == GetOrBuild(indexCall[c], requestIndex)
  <2>1. indexCall' = [indexCall EXCEPT ![c] = next] /\ UNCHANGED <<revision, requestIndex>>
    BY <1>2 DEF DashboardsListed
  <2>2. next \in IndexRecord /\ Current(next, revision, requestIndex)
    BY <1>0, <1>2, TakesOrBuilds DEF DashboardsListed, IndexTypeOK, SinceTheBeginning, Current
  <2> HIDE DEF next
  <2> QED
    BY <2>1, <2>2 DEF IndexTypeOK, SinceTheBeginning
<1>3. ASSUME NEW c \in IndexCalls, ReadRegistry(c) PROVE IndexInv'
  <2>1. PICK r \in Registries : indexCall' = [indexCall EXCEPT ![c].seen = WithSource(indexCall[c].seen, r)]
    BY <1>3 DEF ReadRegistry
  <2>2. UNCHANGED <<revision, requestIndex>> /\ indexCall[c].pc = "building"
    BY <1>3 DEF ReadRegistry
  <2>3. r \in Sources /\ r # "files" /\ indexCall[c].seen \in Partial /\ indexCall[c] \in IndexRecord
    BY <1>0, IndexAssumption DEF Sources, IndexTypeOK, IndexRecord
  <2> DEFINE more == WithSource(indexCall[c].seen, r)
  <2>4. more \in Partial /\ DOMAIN more = DOMAIN indexCall[c].seen \cup {r}
    BY <1>0, <2>3, ReadOneMore
  <2>5. "files" \notin DOMAIN more
    BY <1>0, <2>2, <2>3, <2>4 DEF SinceTheBeginning, Current
  <2> HIDE DEF more
  <2> QED
    BY <1>0, <2>1, <2>2, <2>3, <2>4, <2>5 DEF IndexTypeOK, SinceTheBeginning, Current, IndexRecord, more
<1>4. ASSUME NEW c \in IndexCalls, FinishBuild(c) PROVE IndexInv'
  <2> DEFINE refs == WithSource(indexCall[c].seen, "files")
  <2>1. /\ indexCall' = [indexCall EXCEPT ![c].pc = "done", ![c].seen = refs]
        /\ requestIndex' = requestIndex \/ requestIndex' = {refs}
        /\ UNCHANGED revision
        /\ Registries \subseteq DOMAIN indexCall[c].seen
    BY <1>4 DEF FinishBuild
  <2>2. indexCall[c].seen \in Partial /\ indexCall[c] \in IndexRecord /\ indexCall[c].pc = "building"
    BY <1>4 DEF FinishBuild, IndexTypeOK, IndexRecord
  <2>3. refs \in Partial /\ refs["files"] = revision["files"] /\ DOMAIN refs = DOMAIN indexCall[c].seen \cup {"files"}
    BY <1>0, <2>2, ReadOneMore
  <2>4. refs \in [Sources -> Nat]
    BY <2>1, <2>3 DEF Partial, Sources
  <2> HIDE DEF refs
  <2>5. IndexTypeOK'
    BY <2>1, <2>2, <2>3, <2>4 DEF IndexTypeOK, IndexRecord
  <2>6. \A d \in IndexCalls : d # c => indexCall'[d] = indexCall[d]
    BY <2>1 DEF IndexTypeOK
  <2>7. /\ indexCall'[c].pc = "done" /\ indexCall'[c].seen = refs
        /\ indexCall'[c].since = indexCall[c].since
    BY <2>1, <2>2 DEF IndexTypeOK, IndexRecord
  <2>8. Current(indexCall'[c], revision', requestIndex')
    BY <1>0, <2>1, <2>2, <2>3, <2>7 DEF SinceTheBeginning, Current
  <2>9. ASSUME NEW d \in IndexCalls, d # c PROVE Current(indexCall'[d], revision', requestIndex')
    BY <1>0, <2>1, <2>3, <2>6, <2>9 DEF SinceTheBeginning, Current
  <2>10. SinceTheBeginning'
    BY <2>8, <2>9 DEF SinceTheBeginning
  <2> QED
    BY <2>5, <2>10
<1>5. ASSUME NEW c \in IndexCalls, AnswerFromGraph(c) PROVE IndexInv'
  BY <1>5, UnreadIsPartial DEF AnswerFromGraph, Waiting, IndexTypeOK, IndexRecord, SinceTheBeginning, Current
<1>6. ASSUME NEW s \in Sources, Change(s) PROVE IndexInv'
  <2>1. /\ revision' = [revision EXCEPT ![s] = @ + 1]
        /\ UNCHANGED <<requestIndex, indexCall>>
    BY <1>6 DEF Change
  <2>2. IndexTypeOK'
    BY <1>0, <2>1 DEF IndexTypeOK
  <2>3. revision'["files"] \in Nat /\ revision["files"] <= revision'["files"]
    BY <1>0, <2>1
  <2>4. SinceTheBeginning'
    BY <1>0, <2>1, <2>3 DEF SinceTheBeginning, Current
  <2> QED
    BY <2>2, <2>4
<1>7. CASE UNCHANGED indexVars
  BY <1>7 DEF indexVars, IndexTypeOK, SinceTheBeginning
<1> QED
  BY <1>1, <1>2, <1>3, <1>4, <1>5, <1>6, <1>7 DEF IndexNext

(* For any number of calls, registries and changes: nobody answers from    *)
(* files that were read before the call began.                             *)
THEOREM NobodyAnswersFromOldFiles == IndexSpec => []IndexFilesAreCurrent
<1>1. IndexInv => IndexFilesAreCurrent
  BY DEF IndexInv, SinceTheBeginning, Current, IndexFilesAreCurrent
<1> QED
  BY IndexStarts, IndexSteps, <1>1, PTL DEF IndexSpec

-----------------------------------------------------------------------------
(* EsphomeBuilds                                                           *)

BuildStages == {"idle", "found", "locked", "compiling", "compiled", "listing"} \cup Gone

EsphomeTypeOK ==
  /\ DOMAIN build = Builders /\ build = [c \in Builders |-> build[c]]
  /\ \A c \in Builders :
       /\ DOMAIN build[c] = {"pc", "node", "exit", "listed", "haunted"}
       /\ build[c] = [x \in DOMAIN build[c] |-> build[c][x]]
       /\ build[c].pc \in BuildStages
       /\ build[c].pc # "idle" => build[c].node \in BuildNodes
  /\ locked \in [BuildNodes -> BOOLEAN]
  /\ DOMAIN firmware = BuildNodes /\ firmware = [n \in BuildNodes |-> firmware[n]]

(* From acquiring the node's lock to giving it back.                       *)
HasLock(c) == build[c].pc \in {"locked", "compiling", "compiled", "listing"}

OneBuildPerNode ==
  /\ \A c \in Builders : HasLock(c) => locked[build[c].node]
  /\ \A c, d \in Builders : HasLock(c) /\ HasLock(d) /\ build[c].node = build[d].node => c = d

(* A process in the container is the one compile of a call that has got    *)
(* that far, and belongs to the call's node.                               *)
ProcessesHaveCalls ==
  /\ \A p \in compiles :
       /\ p.by \in Builders
       /\ p.node = build[p.by].node
       /\ build[p.by].pc \in {"compiling", "compiled", "listing"} \cup Gone
       /\ DOMAIN p = {"node", "by", "met"} /\ p = [x \in DOMAIN p |-> p[x]]
  /\ \A p, q \in compiles : p.by = q.by => p = q
  /\ \A p \in compiles : build[p.by].exit # "ok"

(* A call that found no stray compile has the build directory for itself   *)
(* until its own compile ends, and what is there afterwards is its own.    *)
Undisturbed(c) ==
  ~build[c].haunted =>
    /\ build[c].pc = "compiling" => \A p \in OnNode(build[c].node) : p.by = c /\ ~p.met
    /\ build[c].pc = "compiled" /\ build[c].exit = "ok" =>
         OnNode(build[c].node) = {} /\ firmware[build[c].node] = c
    /\ build[c].pc \in {"listing", "answered"} /\ build[c].exit = "ok" => build[c].listed = c

EsphomeInv ==
  /\ EsphomeTypeOK /\ OneBuildPerNode /\ ProcessesHaveCalls
  /\ \A c \in Builders : /\ Undisturbed(c)
                         /\ build[c].exit = "ok" => build[c].pc \in {"compiled", "listing"} \cup Gone

LEMMA EsphomeStarts == EsphomeInit => EsphomeInv
  BY DEF EsphomeInit, EsphomeInv, EsphomeTypeOK, OneBuildPerNode, ProcessesHaveCalls, Undisturbed, HasLock,
         NoBuild, BuildStages, Gone

(* A step of c that changes its stage only, keeps the processes and the    *)
(* artifacts as they are, and has the lock afterwards only if it had it    *)
(* before or takes it now.                                                 *)
LEMMA StageMoves ==
  ASSUME EsphomeInv, NEW c \in Builders, NEW pc \in BuildStages, build' = [build EXCEPT ![c].pc = pc],
         UNCHANGED <<compiles, firmware>>,
         locked' \in [BuildNodes -> BOOLEAN],
         \A n \in BuildNodes : n # build[c].node => locked'[n] = locked[n],
         build[c].pc # "idle",
         HasLock(c)' => locked'[build[c].node] /\ (HasLock(c) \/ ~locked[build[c].node]),
         ~HasLock(c)' => HasLock(c) \/ locked' = locked,
         pc \in {"found", "locked"} \cup Gone,
         pc \in {"found", "locked"} => build[c].pc \in {"found", "locked"},
         pc = "answered" => build[c].pc \in {"found", "locked", "listing"}
  PROVE  EsphomeInv'
<1> USE DEF EsphomeInv
<1>1. /\ \A d \in Builders : d # c => build'[d] = build[d]
      /\ build'[c].pc = pc /\ build'[c].node = build[c].node /\ build'[c].exit = build[c].exit
      /\ build'[c].listed = build[c].listed /\ build'[c].haunted = build[c].haunted
      /\ EsphomeTypeOK'
  <2>1. /\ build = [d \in Builders |-> build[d]]
        /\ \A d \in Builders : /\ DOMAIN build[d] = {"pc", "node", "exit", "listed", "haunted"}
                               /\ build[d] = [x \in DOMAIN build[d] |-> build[d][x]]
    BY DEF EsphomeTypeOK
  <2>2. \A d \in Builders : d # c => build'[d] = build[d]
    BY <2>1
  <2>3. build'[c] = [build[c] EXCEPT !.pc = pc] /\ build' = [d \in Builders |-> build'[d]]
    BY <2>1
  <2>4. /\ build'[c].pc = pc /\ build'[c].node = build[c].node /\ build'[c].exit = build[c].exit
        /\ build'[c].listed = build[c].listed /\ build'[c].haunted = build[c].haunted
        /\ DOMAIN build'[c] = {"pc", "node", "exit", "listed", "haunted"}
        /\ build'[c] = [x \in DOMAIN build'[c] |-> build'[c][x]]
    BY <2>1, <2>3
  <2> QED
    BY <2>2, <2>3, <2>4 DEF EsphomeTypeOK
<1>2. OneBuildPerNode'
  BY <1>1 DEF OneBuildPerNode, HasLock, EsphomeTypeOK, Gone
<1>3. ProcessesHaveCalls'
  BY <1>1 DEF ProcessesHaveCalls, Gone
<1>4. \A d \in Builders : /\ Undisturbed(d)'
                          /\ build'[d].exit = "ok" => build'[d].pc \in {"compiled", "listing"} \cup Gone
  BY <1>1 DEF Undisturbed, OnNode, Gone
<1> QED
  BY <1>1, <1>2, <1>3, <1>4

(* What a step of c that writes several fields leaves of the types.        *)
LEMMA BuildBecomes ==
  ASSUME EsphomeTypeOK, NEW c \in Builders, NEW r, build' = [build EXCEPT ![c] = r],
         DOMAIN r = DOMAIN build[c] /\ r = [x \in DOMAIN r |-> r[x]],
         r.pc \in BuildStages, r.node \in BuildNodes,
         locked' \in [BuildNodes -> BOOLEAN],
         DOMAIN firmware' = BuildNodes /\ firmware' = [n \in BuildNodes |-> firmware'[n]]
  PROVE  /\ EsphomeTypeOK'
         /\ \A d \in Builders : d # c => build'[d] = build[d]
         /\ build'[c] = r
<1>1. /\ \A d \in Builders : d # c => build'[d] = build[d]
      /\ build'[c] = r /\ build' = [d \in Builders |-> build'[d]]
  BY DEF EsphomeTypeOK
<1> QED
  BY <1>1 DEF EsphomeTypeOK

(* The record of a build has the fields of one.                            *)
LEMMA BuildIs ==
  ASSUME EsphomeTypeOK, NEW c \in Builders
  PROVE  /\ DOMAIN build[c] = {"pc", "node", "exit", "listed", "haunted"}
         /\ build[c] = [x \in DOMAIN build[c] |-> build[c][x]]
BY DEF EsphomeTypeOK

LEMMA EsphomeSteps == EsphomeInv /\ [EsphomeNext]_esphomeVars => EsphomeInv'
<1> SUFFICES ASSUME EsphomeInv, [EsphomeNext]_esphomeVars PROVE EsphomeInv'
  OBVIOUS
<1>0. /\ EsphomeTypeOK /\ OneBuildPerNode /\ ProcessesHaveCalls
      /\ \A c \in Builders : /\ Undisturbed(c)
                             /\ build[c].exit = "ok" => build[c].pc \in {"compiled", "listing"} \cup Gone
  BY DEF EsphomeInv
<1>1. ASSUME NEW c \in Builders, StartBuild(c) PROVE EsphomeInv'
  <2>1. PICK node \in BuildNodes : build' = [build EXCEPT ![c].pc = "found", ![c].node = node]
    BY <1>1 DEF StartBuild
  <2>2. /\ build[c].pc = "idle" /\ UNCHANGED <<locked, compiles, firmware>>
    BY <1>1 DEF StartBuild
  <2> DEFINE r == [build[c] EXCEPT !.pc = "found", !.node = node]
  <2>3. /\ build' = [build EXCEPT ![c] = r]
        /\ DOMAIN r = DOMAIN build[c] /\ r = [x \in DOMAIN r |-> r[x]]
        /\ r.pc = "found" /\ r.node = node /\ r.exit = build[c].exit
    BY <1>0, <2>1 DEF EsphomeTypeOK
  <2> HIDE DEF r
  <2>4. /\ EsphomeTypeOK'
        /\ \A d \in Builders : d # c => build'[d] = build[d]
        /\ build'[c].pc = "found" /\ build'[c].exit = build[c].exit
    <3>1. EsphomeTypeOK /\ r.pc \in BuildStages /\ r.node \in BuildNodes
      BY <1>0, <2>3 DEF BuildStages
    <3>2. /\ locked' \in [BuildNodes -> BOOLEAN]
          /\ DOMAIN firmware' = BuildNodes /\ firmware' = [n \in BuildNodes |-> firmware'[n]]
      BY <1>0, <2>2 DEF EsphomeTypeOK
    <3>3. /\ EsphomeTypeOK' /\ build'[c] = r
          /\ \A d \in Builders : d # c => build'[d] = build[d]
      BY <2>3, <3>1, <3>2, BuildBecomes
    <3> QED
      BY <2>3, <3>3
  <2>5. OneBuildPerNode'
    BY <1>0, <2>2, <2>4 DEF OneBuildPerNode, HasLock
  <2>6. ProcessesHaveCalls'
    BY <1>0, <2>2, <2>4 DEF ProcessesHaveCalls, Gone
  <2>7. \A d \in Builders : /\ Undisturbed(d)'
                            /\ build'[d].exit = "ok" => build'[d].pc \in {"compiled", "listing"} \cup Gone
    BY <1>0, <2>2, <2>4 DEF Undisturbed, OnNode, Gone
  <2> QED
    BY <2>4, <2>5, <2>6, <2>7 DEF EsphomeInv
<1>2. ASSUME NEW c \in Builders, AcquireOrRefuse(c) PROVE EsphomeInv'
  <2>1. build[c].pc = "found" /\ UNCHANGED <<compiles, firmware>> /\ build[c].node \in BuildNodes
    BY <1>0, <1>2 DEF AcquireOrRefuse, EsphomeTypeOK
  <2>2. CASE locked[build[c].node]
    <3>1. build' = [build EXCEPT ![c].pc = "answered"] /\ locked' = locked
      BY <1>2, <2>2 DEF AcquireOrRefuse, AnswerBuild
    <3>2. build'[c].pc = "answered"
      BY <1>0, <3>1 DEF EsphomeTypeOK
    <3> QED
      BY <1>0, <2>1, <3>1, <3>2, StageMoves DEF BuildStages, Gone, HasLock, EsphomeTypeOK
  <2>3. CASE ~locked[build[c].node]
    <3>1. build' = [build EXCEPT ![c].pc = "locked"] /\ locked' = [locked EXCEPT ![build[c].node] = TRUE]
      BY <1>2, <2>3 DEF AcquireOrRefuse
    <3>2. build'[c].pc = "locked"
      BY <1>0, <3>1 DEF EsphomeTypeOK
    <3>3. /\ locked' \in [BuildNodes -> BOOLEAN] /\ locked'[build[c].node]
          /\ \A n \in BuildNodes : n # build[c].node => locked'[n] = locked[n]
      BY <1>0, <2>1, <3>1 DEF EsphomeTypeOK
    <3> QED
      BY <2>1, <2>3, <3>1, <3>2, <3>3, StageMoves DEF BuildStages, Gone, HasLock
  <2> QED
    BY <2>2, <2>3
<1>3. ASSUME NEW c \in Builders, NEW pc \in Gone, build' = [build EXCEPT ![c].pc = pc], HasLock(c),
             pc = "answered" => build[c].pc \in {"locked", "listing"},
             locked' = Unlocked(c), UNCHANGED <<compiles, firmware>>
      PROVE  EsphomeInv'
  <2>1. build'[c].pc = pc /\ build[c].node \in BuildNodes /\ build[c].pc # "idle"
    BY <1>0, <1>3 DEF EsphomeTypeOK, HasLock
  <2>2. /\ locked' \in [BuildNodes -> BOOLEAN]
        /\ \A n \in BuildNodes : n # build[c].node => locked'[n] = locked[n]
    BY <1>0, <1>3, <2>1 DEF EsphomeTypeOK, Unlocked
  <2>3. ~HasLock(c)' /\ pc \in BuildStages
    BY <2>1 DEF HasLock, Gone, BuildStages
  <2> QED
    BY <1>3, <2>1, <2>2, <2>3, StageMoves DEF Gone
<1>4. ASSUME NEW c \in Builders, CompileFails(c) PROVE EsphomeInv'
  BY <1>3, <1>4 DEF CompileFails, AnswerBuild, HasLock, Gone
<1>5. ASSUME NEW c \in Builders, CancelBuild(c) PROVE EsphomeInv'
  <2>1. CASE build[c].pc = "found"
    <3>1. /\ build' = [build EXCEPT ![c].pc = "cancelled"] /\ UNCHANGED <<locked, compiles, firmware>>
      BY <1>5, <2>1 DEF CancelBuild
    <3>2. build'[c].pc = "cancelled"
      BY <1>0, <3>1 DEF EsphomeTypeOK
    <3> QED
      BY <1>0, <2>1, <3>1, <3>2, StageMoves DEF BuildStages, Gone, HasLock, EsphomeTypeOK
  <2>2. CASE build[c].pc # "found"
    BY <1>3, <1>5, <2>2 DEF CancelBuild, HasLock, Gone
  <2> QED
    BY <2>1, <2>2
<1>6. ASSUME NEW c \in Builders, StartCompile(c) PROVE EsphomeInv'
  <2> DEFINE node == build[c].node
             others == OnNode(node)
             haunted == \E p \in others : build[p.by].pc \in Gone
             new == [node |-> node, by |-> c, met |-> others # {}]
  <2>0. PICK h : h = haunted
    BY Zenon
  <2> DEFINE r == [build[c] EXCEPT !.pc = "compiling", !.haunted = h]
  <2>1. build[c].pc = "locked" /\ UNCHANGED <<locked, firmware>>
    BY <1>6 DEF StartCompile
  <2>a. build' = [build EXCEPT ![c].pc = "compiling", ![c].haunted = h]
    BY <1>6, <2>0, Zenon DEF StartCompile
  <2>b. compiles' = {IF p.node = node THEN [p EXCEPT !.met = TRUE] ELSE p : p \in compiles} \cup {new}
    BY <1>6, Zenon DEF StartCompile
  <2>2. node \in BuildNodes
    BY <1>0, <2>1 DEF EsphomeTypeOK
  <2>3. /\ build' = [build EXCEPT ![c] = r]
        /\ DOMAIN r = DOMAIN build[c] /\ r = [x \in DOMAIN r |-> r[x]]
        /\ r.pc = "compiling" /\ r.node = node /\ r.exit = build[c].exit /\ r.haunted = h
    BY <1>0, <2>a DEF EsphomeTypeOK
  <2>4. /\ DOMAIN new = {"node", "by", "met"} /\ new = [x \in DOMAIN new |-> new[x]]
        /\ new.node = node /\ new.by = c /\ new.met = (others # {})
    OBVIOUS
  <2>5. \A p \in compiles : DOMAIN p = {"node", "by", "met"} /\ p = [x \in DOMAIN p |-> p[x]]
    BY <1>0 DEF ProcessesHaveCalls
  <2> HIDE DEF r, new, haunted
  <2>6. /\ EsphomeTypeOK'
        /\ \A d \in Builders : d # c => build'[d] = build[d]
        /\ build'[c].pc = "compiling" /\ build'[c].node = node /\ build'[c].exit = build[c].exit
        /\ build'[c].haunted = h
    <3>1. EsphomeTypeOK /\ r.pc \in BuildStages /\ r.node \in BuildNodes
      BY <1>0, <2>2, <2>3 DEF BuildStages
    <3>2. /\ locked' \in [BuildNodes -> BOOLEAN]
          /\ DOMAIN firmware' = BuildNodes /\ firmware' = [n \in BuildNodes |-> firmware'[n]]
      BY <1>0, <2>1 DEF EsphomeTypeOK
    <3>3. /\ EsphomeTypeOK' /\ build'[c] = r
          /\ \A d \in Builders : d # c => build'[d] = build[d]
      BY <2>3, <3>1, <3>2, BuildBecomes
    <3> QED
      BY <2>3, <3>3
  <2>7. \A q \in compiles' :
          \/ q = new
          \/ q \in compiles /\ q.node # node
          \/ \E p \in compiles : p.node = node /\ q.node = node /\ q.by = p.by /\ DOMAIN q = DOMAIN p
                                 /\ q = [x \in DOMAIN q |-> q[x]] /\ q = [p EXCEPT !.met = TRUE]
    BY <2>b, <2>5
  <2>8. \A p \in compiles : p.by # c
    BY <1>0, <2>1 DEF ProcessesHaveCalls, Gone
  <2>9. OneBuildPerNode'
    BY <1>0, <2>1, <2>6 DEF OneBuildPerNode, HasLock
  <2>10. ProcessesHaveCalls'
    <3>1. \A q \in compiles' : /\ q.by \in Builders /\ q.node = build'[q.by].node
                               /\ build'[q.by].pc \in {"compiling", "compiled", "listing"} \cup Gone
                               /\ build'[q.by].exit # "ok"
                               /\ DOMAIN q = {"node", "by", "met"} /\ q = [x \in DOMAIN q |-> q[x]]
      BY <1>0, <2>1, <2>4, <2>6, <2>7 DEF ProcessesHaveCalls, Gone
    <3>2. ASSUME NEW p \in compiles', NEW q \in compiles', p.by = q.by PROVE p = q
      <4>1. \A x \in compiles' : x = new \/ \E y \in compiles :
               x.by = y.by /\ x = IF y.node = node THEN [y EXCEPT !.met = TRUE] ELSE y
        BY <2>7
      <4>2. CASE p = new \/ q = new
        BY <2>4, <2>8, <3>2, <4>1, <4>2
      <4>3. CASE p # new /\ q # new
        <5>1. PICK x, y \in compiles :
                /\ p.by = x.by /\ p = IF x.node = node THEN [x EXCEPT !.met = TRUE] ELSE x
                /\ q.by = y.by /\ q = IF y.node = node THEN [y EXCEPT !.met = TRUE] ELSE y
          BY <4>1, <4>3
        <5>2. x = y
          BY <1>0, <3>2, <5>1 DEF ProcessesHaveCalls
        <5> QED
          BY <5>1, <5>2, Zenon
      <4> QED
        BY <4>2, <4>3
    <3> QED
      BY <3>1, <3>2 DEF ProcessesHaveCalls
  <2>11. ~h => others = {}
    <3>1. ~haunted => others = {}
      BY <1>0, <2>1, <2>8 DEF haunted, OnNode, ProcessesHaveCalls, OneBuildPerNode, HasLock
    <3> QED
      BY <2>0, <3>1, Zenon
  <2>12. Undisturbed(c)'
    <3>1. ASSUME ~h, NEW q \in compiles', q.node = node PROVE q = new /\ ~new.met
      BY <2>4, <2>7, <2>11, <3>1 DEF OnNode
    <3> QED
      BY <2>4, <2>6, <3>1 DEF Undisturbed, OnNode
  <2>13. ASSUME NEW d \in Builders, d # c PROVE Undisturbed(d)'
    <3>1. HasLock(d) => build[d].node # node
      BY <1>0, <2>1, <2>13 DEF OneBuildPerNode, HasLock
    <3>2. \A q \in compiles' : q.node # node => q \in compiles
      BY <2>4, <2>7
    <3> QED
      BY <1>0, <2>1, <2>6, <2>13, <3>1, <3>2 DEF Undisturbed, OnNode, HasLock
  <2>14. \A d \in Builders : build'[d].exit = "ok" => build'[d].pc \in {"compiled", "listing"} \cup Gone
    BY <1>0, <2>1, <2>6 DEF Gone
  <2> QED
    BY <2>6, <2>9, <2>10, <2>12, <2>13, <2>14 DEF EsphomeInv
<1>7. ASSUME NEW c \in Builders, CompileTimesOut(c) PROVE EsphomeInv'
  <2> DEFINE r == [build[c] EXCEPT !.pc = "compiled", !.exit = "timedOut"]
  <2>1. build[c].pc = "compiling" /\ UNCHANGED <<locked, compiles, firmware>> /\ build[c].node \in BuildNodes
    BY <1>0, <1>7 DEF CompileTimesOut, EsphomeTypeOK
  <2>2. /\ build' = [build EXCEPT ![c] = r]
        /\ DOMAIN r = DOMAIN build[c] /\ r = [x \in DOMAIN r |-> r[x]]
        /\ r.pc = "compiled" /\ r.node = build[c].node /\ r.exit = "timedOut"
    <3>1. build' = [build EXCEPT ![c] = r]
      BY <1>7 DEF CompileTimesOut
    <3>2. /\ DOMAIN r = DOMAIN build[c] /\ r = [x \in DOMAIN r |-> r[x]]
          /\ r.pc = "compiled" /\ r.node = build[c].node /\ r.exit = "timedOut"
      BY <1>0, BuildIs
    <3> QED
      BY <3>1, <3>2
  <2> HIDE DEF r
  <2>3. /\ EsphomeTypeOK'
        /\ \A d \in Builders : d # c => build'[d] = build[d]
        /\ build'[c].pc = "compiled" /\ build'[c].node = build[c].node /\ build'[c].exit = "timedOut"
    <3>1. EsphomeTypeOK /\ r.pc \in BuildStages /\ r.node \in BuildNodes
      BY <1>0, <2>1, <2>2 DEF BuildStages
    <3>2. /\ locked' \in [BuildNodes -> BOOLEAN]
          /\ DOMAIN firmware' = BuildNodes /\ firmware' = [n \in BuildNodes |-> firmware'[n]]
      BY <1>0, <2>1 DEF EsphomeTypeOK
    <3>3. /\ EsphomeTypeOK' /\ build'[c] = r
          /\ \A d \in Builders : d # c => build'[d] = build[d]
      BY <2>2, <3>1, <3>2, BuildBecomes
    <3> QED
      BY <2>2, <3>3
  <2>4. OneBuildPerNode'
    BY <1>0, <2>1, <2>3 DEF OneBuildPerNode, HasLock
  <2>5. ProcessesHaveCalls'
    BY <1>0, <2>1, <2>3 DEF ProcessesHaveCalls, Gone
  <2>6. \A d \in Builders : /\ Undisturbed(d)'
                            /\ build'[d].exit = "ok" => build'[d].pc \in {"compiled", "listing"} \cup Gone
    BY <1>0, <2>1, <2>3 DEF Undisturbed, OnNode
  <2> QED
    BY <2>3, <2>4, <2>5, <2>6 DEF EsphomeInv
<1>8. ASSUME NEW c \in Builders, ListArtifacts(c) PROVE EsphomeInv'
  <2>1. CASE build[c].pc = "compiled"
    <3> DEFINE r == [build[c] EXCEPT !.pc = "listing", !.listed = firmware[build[c].node]]
    <3>0. build' = [build EXCEPT ![c].pc = "listing", ![c].listed = firmware[build[c].node]]
      BY <1>8, <2>1 DEF ListArtifacts
    <3>1. UNCHANGED <<locked, compiles, firmware>> /\ build[c].node \in BuildNodes
      BY <1>0, <1>8, <2>1 DEF ListArtifacts, EsphomeTypeOK
    <3>2. /\ build' = [build EXCEPT ![c] = r]
          /\ DOMAIN r = DOMAIN build[c] /\ r = [x \in DOMAIN r |-> r[x]]
          /\ r.pc = "listing" /\ r.node = build[c].node /\ r.exit = build[c].exit
          /\ r.listed = firmware[build[c].node] /\ r.haunted = build[c].haunted
      <4>1. build' = [build EXCEPT ![c] = r]
        BY <3>0
      <4>2. /\ DOMAIN r = DOMAIN build[c] /\ r = [x \in DOMAIN r |-> r[x]]
            /\ r.pc = "listing" /\ r.node = build[c].node /\ r.exit = build[c].exit
            /\ r.listed = firmware[build[c].node] /\ r.haunted = build[c].haunted
        BY <1>0, BuildIs
      <4> QED
        BY <4>1, <4>2
    <3> HIDE DEF r
    <3>3. /\ EsphomeTypeOK'
          /\ \A d \in Builders : d # c => build'[d] = build[d]
          /\ build'[c].pc = "listing" /\ build'[c].node = build[c].node /\ build'[c].exit = build[c].exit
          /\ build'[c].listed = firmware[build[c].node] /\ build'[c].haunted = build[c].haunted
      BY <1>0, <3>1, <3>2, BuildBecomes DEF BuildStages, EsphomeTypeOK
    <3>4. OneBuildPerNode'
      BY <1>0, <2>1, <3>1, <3>3 DEF OneBuildPerNode, HasLock
    <3>5. ProcessesHaveCalls'
      BY <1>0, <3>1, <3>3 DEF ProcessesHaveCalls, Gone
    <3>6. \A d \in Builders : /\ Undisturbed(d)'
                              /\ build'[d].exit = "ok" => build'[d].pc \in {"compiled", "listing"} \cup Gone
      BY <1>0, <2>1, <3>1, <3>3 DEF Undisturbed, OnNode
    <3> QED
      BY <3>3, <3>4, <3>5, <3>6 DEF EsphomeInv
  <2>2. CASE build[c].pc = "listing"
    BY <1>3, <1>8, <2>2 DEF ListArtifacts, AnswerBuild, HasLock, Gone
  <2> QED
    BY <1>8, <2>1, <2>2 DEF ListArtifacts
<1>9. ASSUME NEW c \in Builders, NEW ok \in BOOLEAN, CompileEnds(c, ok) PROVE EsphomeInv'
  <2>1. PICK p \in compiles :
          /\ p.by = c /\ compiles' = compiles \ {p}
          /\ firmware' = [firmware EXCEPT ![p.node] = IF ~ok THEN @ ELSE IF p.met THEN "mixed" ELSE c]
          /\ build' = IF build[c].pc = "compiling"
                      THEN [build EXCEPT ![c].pc = "compiled", ![c].exit = IF ok THEN "ok" ELSE "failed"]
                      ELSE build
    BY <1>9 DEF CompileEnds
  <2> DEFINE node == build[c].node
  <2>a. p \in compiles /\ p.by = c /\ compiles' = compiles \ {p}
    BY <2>1
  <2>2. /\ UNCHANGED locked /\ p.node = node /\ node \in BuildNodes
        /\ \A q \in compiles : q # p => q.by # c
        /\ build[c].exit # "ok"
        /\ DOMAIN firmware' = BuildNodes /\ firmware' = [n \in BuildNodes |-> firmware'[n]]
        /\ \A n \in BuildNodes : n # node => firmware'[n] = firmware[n]
    BY <1>0, <1>9, <2>1 DEF CompileEnds, ProcessesHaveCalls, EsphomeTypeOK, Gone
  <2>3. \A n : OnNode(n)' \subseteq OnNode(n)
    BY <2>1 DEF OnNode
  <2>4. ASSUME NEW d \in Builders, d # c, HasLock(c) PROVE HasLock(d) => build[d].node # node
    BY <1>0, <2>4 DEF OneBuildPerNode
  <2>5. CASE build[c].pc = "compiling"
    <3>0. PICK exit \in {"ok", "failed"} :
            /\ exit = "ok" => ok
            /\ build' = [build EXCEPT ![c].pc = "compiled", ![c].exit = exit]
      BY <2>1, <2>5
    <3> DEFINE r == [build[c] EXCEPT !.pc = "compiled", !.exit = exit]
    <3>1. /\ build' = [build EXCEPT ![c] = r]
          /\ DOMAIN r = DOMAIN build[c] /\ r = [x \in DOMAIN r |-> r[x]]
          /\ r.pc = "compiled" /\ r.node = node /\ r.haunted = build[c].haunted
          /\ r.exit \in {"ok", "failed"} /\ (r.exit = "ok" => ok)
      <4>1. build' = [build EXCEPT ![c] = r]
        BY <3>0
      <4>2. /\ DOMAIN r = DOMAIN build[c] /\ r = [x \in DOMAIN r |-> r[x]]
            /\ r.pc = "compiled" /\ r.node = node /\ r.haunted = build[c].haunted
            /\ r.exit = exit
        BY <1>0, BuildIs
      <4> QED
        BY <3>0, <4>1, <4>2
    <3> HIDE DEF r
    <3>2. /\ EsphomeTypeOK'
          /\ \A d \in Builders : d # c => build'[d] = build[d]
          /\ build'[c].pc = "compiled" /\ build'[c].node = node /\ build'[c].haunted = build[c].haunted
          /\ build'[c].exit \in {"ok", "failed"} /\ (build'[c].exit = "ok" => ok)
      <4>1. EsphomeTypeOK /\ r.pc \in BuildStages /\ r.node \in BuildNodes
        BY <1>0, <2>2, <3>1 DEF BuildStages
      <4>2. /\ locked' \in [BuildNodes -> BOOLEAN]
            /\ DOMAIN firmware' = BuildNodes /\ firmware' = [n \in BuildNodes |-> firmware'[n]]
        BY <1>0, <2>2 DEF EsphomeTypeOK
      <4>3. /\ EsphomeTypeOK' /\ build'[c] = r
            /\ \A d \in Builders : d # c => build'[d] = build[d]
        BY <3>1, <4>1, <4>2, BuildBecomes
      <4> QED
        BY <3>1, <4>3
    <3>3. OneBuildPerNode'
      BY <1>0, <2>2, <2>5, <3>2 DEF OneBuildPerNode, HasLock
    <3>4. ProcessesHaveCalls'
      BY <1>0, <2>a, <2>2, <3>2 DEF ProcessesHaveCalls, Gone
    <3>5. Undisturbed(c)'
      <4>1. ASSUME ~build[c].haunted, ok PROVE {q \in compiles' : q.node = node} = {} /\ firmware'[node] = c
        <5>1. ~p.met /\ \A q \in OnNode(node) : q.by = c
          BY <1>0, <2>1, <2>2, <2>5, <4>1 DEF Undisturbed, OnNode
        <5>2. {q \in compiles' : q.node = node} = {}
          BY <2>a, <2>2, <5>1 DEF OnNode
        <5>3. firmware'[node] = c
          BY <1>0, <2>1, <2>2, <4>1, <5>1 DEF EsphomeTypeOK
        <5> QED
          BY <5>2, <5>3
      <4> QED
        BY <3>2, <4>1 DEF Undisturbed, OnNode
    <3>6. \A d \in Builders : d # c => Undisturbed(d)'
      <4> SUFFICES ASSUME NEW d \in Builders, d # c PROVE Undisturbed(d)'
        OBVIOUS
      <4>1. Undisturbed(d) /\ build'[d] = build[d]
        BY <1>0, <3>2
      <4>2. HasLock(d) => build[d].node \in BuildNodes /\ firmware'[build[d].node] = firmware[build[d].node]
        BY <1>0, <2>2, <2>4, <2>5 DEF HasLock, EsphomeTypeOK
      <4> QED
        BY <2>3, <4>1, <4>2 DEF Undisturbed, HasLock, OnNode
    <3>7. \A d \in Builders : build'[d].exit = "ok" => build'[d].pc \in {"compiled", "listing"} \cup Gone
      BY <1>0, <3>2
    <3> QED
      BY <3>2, <3>3, <3>4, <3>5, <3>6, <3>7 DEF EsphomeInv
  <2>6. CASE build[c].pc # "compiling"
    <3>1. build' = build
      BY <2>1, <2>6
    <3>2. EsphomeTypeOK'
      BY <1>0, <2>2, <3>1 DEF EsphomeTypeOK
    <3>3. OneBuildPerNode' /\ ProcessesHaveCalls'
      BY <1>0, <2>a, <2>2, <3>1 DEF OneBuildPerNode, HasLock, ProcessesHaveCalls
    <3>4. ASSUME NEW d \in Builders PROVE Undisturbed(d)'
      <4>1. ASSUME ~build[d].haunted, build[d].pc = "compiled", build[d].exit = "ok"
            PROVE  build[d].node # node
        BY <1>0, <2>1, <2>2, <4>1 DEF Undisturbed, OnNode
      <4> QED
        BY <1>0, <2>2, <2>3, <3>1, <4>1 DEF Undisturbed, EsphomeTypeOK
    <3> QED
      BY <1>0, <3>1, <3>2, <3>3, <3>4 DEF EsphomeInv
  <2> QED
    BY <2>5, <2>6
<1>10. CASE UNCHANGED esphomeVars
  BY <1>0, <1>10 DEF esphomeVars, EsphomeInv, EsphomeTypeOK, OneBuildPerNode, ProcessesHaveCalls, Undisturbed,
                     OnNode, HasLock
<1> QED
  BY <1>1, <1>2, <1>4, <1>5, <1>6, <1>7, <1>8, <1>9, <1>10 DEF EsphomeNext

(* For any number of builders and nodes, whatever is cancelled, times out  *)
(* or keeps running: a build that found no stray compile lists its own.    *)
THEOREM BuildsListTheirOwn == EsphomeSpec => []ListedIsOwn
<1>1. EsphomeInv => ListedIsOwn
  BY DEF EsphomeInv, Undisturbed, ListedIsOwn, Gone
<1> QED
  BY EsphomeStarts, EsphomeSteps, <1>1, PTL DEF EsphomeSpec

-----------------------------------------------------------------------------
(* OAuthProvider                                                           *)
(*                                                                         *)
(* What makes the four properties true is true of each copy of the data by *)
(* itself, the one in memory and the one on disk (`Sound'): a save makes   *)
(* the copies equal, a failed one changes what is in memory and tells      *)
(* nobody.  Only the times in the file may be behind while the server      *)
(* runs; when it stops, the tokens they are wrong for become outdated.     *)

Token == [id : Nat, client : Nat, expires : Nat]

Data == [clients : SUBSET Nat, codes : SUBSET Token, access : SUBSET Token, refresh : SUBSET Token]

OAuthTypeOK ==
  /\ mem \in Data /\ disk \in Data
  /\ second \in Nat \ {0} /\ ids \in 0..MaxIds
  /\ seen \in [1..MaxIds -> Nat]

OneEach(tokens) == \A x, y \in tokens : x.id = y.id => x = y

(* Ids were given out once and go with one client.                         *)
WellNumbered(m) ==
  /\ \A x \in m.codes \cup m.access \cup m.refresh : x.id \in 1..ids
  /\ OneEach(m.codes) /\ OneEach(m.access) /\ OneEach(m.refresh)
  /\ \A x \in m.access, y \in m.refresh : x.id = y.id => x.client = y.client

(* Tokens are those of the clients that are there, and none that was       *)
(* confirmed revoked or has bought a pair.                                 *)
Legitimate(m) ==
  /\ \A x \in m.access \cup m.refresh : x.client \in m.clients /\ x.id \notin revoked
  /\ \A x \in m.codes : <<"code", x.id>> \notin used
  /\ \A x \in m.refresh : <<"refresh", x.id>> \notin used

(* When a token was last handed out or verified, at least half of its      *)
(* lifetime was ahead of it, unless it came back outdated.                 *)
Sliding(m) ==
  \A x \in m.access : x.id \notin outdated /\ seen[x.id] > 0 => 2 * (x.expires - seen[x.id]) >= AccessTtl

Kept(m) == WellNumbered(m) /\ Legitimate(m)

Sound(m) == WellNumbered(m) /\ Legitimate(m) /\ Sliding(m)

(* What was recorded is of the past.                                       *)
Recorded ==
  /\ \A i \in 1..MaxIds : seen[i] <= second
  /\ \A i \in revoked : i \in 1..ids
  /\ \A i \in Nat : <<"code", i>> \in used \/ <<"refresh", i>> \in used => i \in 1..ids

OAuthInv ==
  /\ OAuthTypeOK /\ Recorded /\ reused = {}
  /\ Sound(mem) /\ Kept(disk)
  /\ ~serving => Sliding(disk)

LEMMA NothingIsSound == Nothing \in Data /\ Sound(Nothing)
  BY DEF Nothing, Data, Sound, WellNumbered, OneEach, Legitimate, Sliding

LEMMA OAuthStarts == OAuthInit => OAuthInv
<1> SUFFICES ASSUME OAuthInit PROVE OAuthInv
  OBVIOUS
<1>1. OAuthTypeOK
  BY NothingIsSound, OAuthAssumption DEF OAuthInit, OAuthTypeOK
<1>2. Recorded
  BY DEF OAuthInit, Recorded
<1> QED
  BY <1>1, <1>2, NothingIsSound DEF OAuthInit, OAuthInv, Sound, Kept

(* A copy that a step leaves alone stays sound while ids are given out and *)
(* time goes by.                                                           *)
LEMMA CopyStaysSound ==
  ASSUME NEW m \in Data, Kept(m), ids \in Nat, ids' \in {ids, ids + 1}, UNCHANGED <<used, revoked, seen>>
  PROVE  /\ Kept(m)'
         /\ Sliding(m) /\ outdated \subseteq outdated' => Sound(m)'
<1>1. WellNumbered(m)'
  BY DEF Kept, WellNumbered, OneEach
<1>2. Legitimate(m)'
  BY DEF Kept, Legitimate
<1>3. Sliding(m) /\ outdated \subseteq outdated' => Sliding(m)'
  BY DEF Sliding
<1> QED
  BY <1>1, <1>2, <1>3 DEF Sound, Kept

(* A save that succeeds or fails leaves sound copies, if the new data is   *)
(* sound and the answer, if there is one, is recorded.                     *)
LEMMA SaveKeeps ==
  ASSUME OAuthInv, NEW m \in Data, Sound(m)', OAuthTypeOK',
         \/ Written(m)
         \/ NotSaved(m) /\ UNCHANGED <<used, revoked, seen>>,
         ids' \in {ids, ids + 1}, Recorded', reused' = {}
  PROVE  OAuthInv'
<1>1. CASE Written(m)
  BY <1>1 DEF OAuthInv, Written, Sound, Kept
<1>2. CASE NotSaved(m) /\ UNCHANGED <<used, revoked, seen>>
  <2>1. ids \in Nat /\ disk \in Data /\ disk' = disk /\ Kept(disk)
    BY <1>2, OAuthAssumption DEF OAuthInv, OAuthTypeOK, NotSaved, ServerStops
  <2> PICK d : d = disk
    OBVIOUS
  <2>2. Kept(d)'
    BY <1>2, <2>1, CopyStaysSound
  <2>3. CASE ServerStops
    <3>1. mem' = Nothing /\ outdated' = outdated \cup {x.id : x \in disk.access \ mem.access}
      BY <2>3 DEF ServerStops
    <3>2. Sliding(d)'
      <4> SUFFICES ASSUME NEW x \in d.access, x.id \notin outdated', seen[x.id] > 0
                   PROVE  2 * (x.expires - seen[x.id]) >= AccessTtl
        BY <1>2 DEF Sliding
      <4>1. x \in mem.access /\ x.id \notin outdated
        BY <3>1
      <4> QED
        BY <4>1 DEF OAuthInv, Sound, Sliding
    <3>3. Sound(Nothing)'
      BY DEF Nothing, Sound, WellNumbered, OneEach, Legitimate, Sliding
    <3> QED
      BY <2>1, <2>2, <3>1, <3>2, <3>3 DEF OAuthInv
  <2>4. CASE serving' = TRUE /\ mem' = m
    BY <2>1, <2>2, <2>4 DEF OAuthInv
  <2> QED
    BY <1>2, <2>3, <2>4 DEF NotSaved
<1> QED
  BY <1>1, <1>2

(* Dropping tokens, and clients that have none left, keeps a copy sound.   *)
LEMMA FewerIsSound ==
  ASSUME NEW m \in Data, NEW n \in Data, Sound(m),
         n.codes \subseteq m.codes, n.access \subseteq m.access, n.refresh \subseteq m.refresh,
         \A x \in n.access \cup n.refresh : x.client \in n.clients
  PROVE  Sound(n)
<1>1. WellNumbered(n)
  BY DEF Sound, WellNumbered, OneEach
<1>2. Legitimate(n) /\ Sliding(n)
  BY DEF Sound, Legitimate, Sliding
<1> QED
  BY <1>1, <1>2 DEF Sound

(* A new pair for one of the clients keeps a copy sound.                   *)
LEMMA PairIsSound ==
  ASSUME OAuthTypeOK, NEW n \in Data, WellNumbered(n), Legitimate(n)', Sliding(n)',
         NEW c \in n.clients, ids < MaxIds, ids' = ids + 1, seen' \in [1..MaxIds -> Nat],
         seen'[New] <= second, New \notin revoked', <<"refresh", New>> \notin used',
         NEW m, m = WithPair(n, c)
  PROVE  m \in Data /\ Sound(m)'
<1> DEFINE a == [id |-> New, client |-> c, expires |-> second + AccessTtl]
           r == [id |-> New, client |-> c, expires |-> second + RefreshTtl]
<1>1. /\ a \in Token /\ a.id = New /\ a.client = c /\ a.expires = second + AccessTtl
      /\ r \in Token /\ r.id = New /\ r.client = c
  BY OAuthAssumption DEF Token, OAuthTypeOK, New, Data
<1>2. /\ m.access = n.access \cup {a} /\ m.refresh = n.refresh \cup {r}
      /\ m.codes = n.codes /\ m.clients = n.clients /\ m \in Data
  BY <1>1 DEF WithPair, Data
<1> HIDE DEF a, r
<1>3. ids \in Nat /\ MaxIds \in Nat /\ New = ids + 1 /\ New \in 1..MaxIds
  BY OAuthAssumption DEF OAuthTypeOK, New
<1>4. WellNumbered(m)'
  <2>1. \A x \in n.codes \cup n.access \cup n.refresh : x.id \in 1..ids /\ x.id # New
    BY <1>3 DEF WellNumbered
  <2> QED
    BY <1>1, <1>2, <1>3, <2>1 DEF WellNumbered, OneEach
<1>5. Legitimate(m)'
  BY <1>1, <1>2 DEF Legitimate
<1>6. Sliding(m)'
  <2>1. seen'[New] > 0 => 2 * (a.expires - seen'[New]) >= AccessTtl
    <3>1. second \in Nat /\ seen'[New] \in Nat /\ AccessTtl \in Nat
      BY <1>3, OAuthAssumption DEF OAuthTypeOK
    <3> QED
      BY <1>1, <3>1
  <2> QED
    BY <1>1, <1>2, <2>1 DEF Sliding
<1> QED
  BY <1>2, <1>4, <1>5, <1>6 DEF Sound

LEMMA RegisterKeeps == OAuthInv /\ RegisterClient => OAuthInv'
<1> SUFFICES ASSUME OAuthInv, RegisterClient PROVE OAuthInv'
  OBVIOUS
<1> DEFINE larger == [mem EXCEPT !.clients = @ \cup {New}]
           cs == Excess(larger.clients)
<1>1. PICK m : m = Drop(larger, cs)
  OBVIOUS
<1>2. ids < MaxIds /\ ids' = ids + 1 /\ UNCHANGED <<second, used, reused, revoked, seen>>
  BY DEF RegisterClient, MayServe, New
<1>3. Saved(m) \/ NotSaved(m)
  BY <1>1, Zenon DEF RegisterClient
<1>4. /\ mem \in Data /\ ids \in Nat /\ MaxIds \in Nat
      /\ larger \in Data /\ larger.clients = mem.clients \cup {New} /\ larger.access = mem.access
      /\ larger.refresh = mem.refresh /\ larger.codes = mem.codes
  <2>1. mem \in Data /\ ids \in 0..MaxIds /\ MaxIds \in Nat
    BY OAuthAssumption DEF OAuthInv, OAuthTypeOK
  <2>2. mem.clients \cup {New} \subseteq Nat
    BY <2>1 DEF Data, New
  <2>3. PICK clients \in SUBSET Nat : clients = mem.clients \cup {New}
    BY <2>2
  <2>4. larger = [mem EXCEPT !.clients = clients]
    BY <2>3
  <2> HIDE DEF larger
  <2> QED
    BY <2>1, <2>3, <2>4 DEF Data
<1>5. /\ m \in Data /\ m.codes = mem.codes /\ m.clients = (mem.clients \cup {New}) \ cs
      /\ m.access = {x \in mem.access : x.client \notin cs}
      /\ m.refresh = {x \in mem.refresh : x.client \notin cs}
  <2> HIDE DEF larger, cs
  <2> QED
    BY <1>1, <1>4 DEF Drop, Data
<1>6. Sound(m)
  <2>1. \A x \in mem.access \cup mem.refresh : x.client \in mem.clients
    BY DEF OAuthInv, Sound, Legitimate
  <2>2. \A x \in m.access \cup m.refresh : x.client \in m.clients
    BY <1>5, <2>1
  <2> PICK n : n = mem
    OBVIOUS
  <2>3. n \in Data /\ Sound(n)
    BY <1>4 DEF OAuthInv
  <2> QED
    BY <1>5, <2>2, <2>3, FewerIsSound
<1>7. Sound(m)'
  BY <1>2, <1>3, <1>4, <1>5, <1>6, CopyStaysSound DEF Sound, Kept, Saved, NotSaved, ServerStops
<1>8. OAuthTypeOK' /\ Recorded' /\ reused' = {}
  <2>1. mem' \in Data /\ disk' \in Data
    BY <1>3, <1>5, NothingIsSound DEF Saved, Written, NotSaved, ServerStops, OAuthInv, OAuthTypeOK
  <2> QED
    BY <1>2, <1>4, <2>1 DEF OAuthInv, OAuthTypeOK, Recorded
<1> QED
  BY <1>2, <1>3, <1>5, <1>7, <1>8, SaveKeeps DEF Saved

(* The next id has not been used for anything.                             *)
LEMMA NextIdIsFresh ==
  ASSUME OAuthInv
  PROVE  New \notin revoked /\ <<"code", New>> \notin used /\ <<"refresh", New>> \notin used
<1>1. New \in Nat /\ New \notin 1..ids
  BY OAuthAssumption DEF OAuthInv, OAuthTypeOK, New
<1> QED
  BY <1>1, Zenon DEF OAuthInv, Recorded

LEMMA AuthorizeKeeps ==
  ASSUME OAuthInv, NEW c \in mem.clients, Authorize(c)
  PROVE  OAuthInv'
<1> DEFINE x == [id |-> New, client |-> c, expires |-> second + CodeTtl]
<1>1. PICK m : m = [mem EXCEPT !.codes = @ \cup {x}]
  OBVIOUS
<1>2. ids < MaxIds /\ ids' = ids + 1 /\ UNCHANGED <<second, used, reused, revoked, seen>>
  BY DEF Authorize, MayServe, New
<1>3. Saved(m) \/ NotSaved(m)
  BY <1>1, Zenon DEF Authorize
<1>4. /\ mem \in Data /\ ids \in Nat /\ MaxIds \in Nat /\ Sound(mem) /\ New = ids + 1
      /\ x \in Token /\ x.id = New
  <2>1. /\ mem \in Data /\ ids \in Nat /\ MaxIds \in Nat /\ Sound(mem) /\ New = ids + 1
        /\ second \in Nat /\ CodeTtl \in Nat
    BY OAuthAssumption DEF OAuthInv, OAuthTypeOK, New
  <2>2. c \in Nat
    BY <2>1 DEF Data
  <2> QED
    BY <2>1, <2>2 DEF Token
<1> HIDE DEF x
<1>5. /\ m \in Data /\ m.codes = mem.codes \cup {x} /\ m.clients = mem.clients
      /\ m.access = mem.access /\ m.refresh = mem.refresh
  BY <1>1, <1>4 DEF Data
<1>6. WellNumbered(m)'
  <2>1. \A y \in mem.codes \cup mem.access \cup mem.refresh : y.id \in 1..ids /\ y.id # New
    BY <1>4 DEF Sound, WellNumbered
  <2> QED
    BY <1>2, <1>4, <1>5, <2>1 DEF Sound, WellNumbered, OneEach
<1>7. Legitimate(m)' /\ Sliding(m)'
  <2>1. <<"code", New>> \notin used
    BY NextIdIsFresh
  <2>2. outdated \subseteq outdated'
    BY <1>3 DEF Saved, NotSaved, ServerStops
  <2> QED
    BY <1>2, <1>4, <1>5, <2>1, <2>2 DEF Sound, Legitimate, Sliding
<1>8. OAuthTypeOK' /\ Recorded' /\ reused' = {}
  <2>1. mem' \in Data /\ disk' \in Data
    BY <1>3, <1>5, NothingIsSound DEF Saved, Written, NotSaved, ServerStops, OAuthInv, OAuthTypeOK
  <2> QED
    BY <1>2, <1>4, <2>1 DEF OAuthInv, OAuthTypeOK, Recorded
<1> QED
  BY <1>2, <1>3, <1>5, <1>6, <1>7, <1>8, SaveKeeps DEF Sound, Saved

(* Saving what is left of a copy, when nothing else changes.               *)
LEMMA DropKeeps ==
  ASSUME OAuthInv, NEW m \in Data, Sound(m), Saved(m) \/ NotSaved(m),
         UNCHANGED <<second, ids, used, reused, revoked, seen>>
  PROVE  OAuthInv'
<1>1. ids \in Nat /\ ids' = ids
  BY OAuthAssumption DEF OAuthInv, OAuthTypeOK
<1>2. Sound(m)'
  BY <1>1, CopyStaysSound DEF Sound, Kept, Saved, NotSaved, ServerStops
<1>3. OAuthTypeOK' /\ Recorded' /\ reused' = {}
  <2>1. mem' \in Data /\ disk' \in Data
    BY NothingIsSound DEF Saved, Written, NotSaved, ServerStops, OAuthInv, OAuthTypeOK
  <2> QED
    BY <2>1 DEF OAuthInv, OAuthTypeOK, Recorded
<1> QED
  BY <1>1, <1>2, <1>3, SaveKeeps DEF Saved

(* A credential buys a pair: it is taken out of the copy and the pair put  *)
(* in; an answer is recorded when the copy was saved.                      *)
LEMMA ExchangeKeeps ==
  ASSUME OAuthInv, NEW n \in Data, Sound(n), NEW c \in n.clients, NEW kind \in {"code", "refresh"}, NEW i \in 1..ids,
         <<kind, i>> \notin used,
         kind = "code" => \A y \in n.codes : y.id # i,
         kind = "refresh" => \A y \in n.refresh : y.id # i,
         NEW m, m = WithPair(n, c),
         ids < MaxIds, ids' = ids + 1, UNCHANGED <<second, revoked>>,
         \/ Saved(m) /\ Answer(<<kind, i>>)
         \/ NotSaved(m) /\ NoAnswer
  PROVE  OAuthInv'
<1>1. ids \in Nat /\ MaxIds \in Nat /\ New = ids + 1 /\ New \in 1..MaxIds /\ second \in Nat \ {0}
      /\ seen \in [1..MaxIds -> Nat]
  BY OAuthAssumption DEF OAuthInv, OAuthTypeOK, New
<1>2. WellNumbered(n) /\ \A y \in n.codes \cup n.access \cup n.refresh : y.id \in 1..ids /\ y.id # New
  BY <1>1 DEF Sound, WellNumbered
<1>3. /\ New \notin revoked' /\ <<"refresh", New>> \notin used' /\ seen'[New] <= second
      /\ seen' \in [1..MaxIds -> Nat] /\ reused' = {}
      /\ \A j \in 1..MaxIds : j # New => seen'[j] = seen[j]
  <2>1. New \notin revoked /\ <<"refresh", New>> \notin used /\ seen[New] <= second
    BY <1>1, NextIdIsFresh DEF OAuthInv, Recorded
  <2>2. CASE Answer(<<kind, i>>)
    <3>1. used' = used \cup {<<kind, i>>} /\ reused' = reused /\ seen' = [seen EXCEPT ![New] = second]
      BY <2>2 DEF Answer
    <3> QED
      BY <1>1, <2>1, <3>1 DEF OAuthInv
  <2>3. CASE NoAnswer
    BY <1>1, <2>1, <2>3 DEF NoAnswer, OAuthInv
  <2> QED
    BY <2>2, <2>3
<1>4. Legitimate(n)'
  <2>1. used' = used \/ used' = used \cup {<<kind, i>>}
    BY DEF Answer, NoAnswer
  <2>0. \A k, j : <<k, j>> = <<kind, i>> => k = kind /\ j = i
    OBVIOUS
  <2>2. \A y \in n.codes : <<"code", y.id>> \notin used'
    <3> SUFFICES ASSUME NEW y \in n.codes PROVE <<"code", y.id>> \notin used'
      OBVIOUS
    <3>1. <<"code", y.id>> \notin used
      BY DEF Sound, Legitimate
    <3>2. <<"code", y.id>> # <<kind, i>>
      BY <2>0, Zenon
    <3> QED
      BY <2>1, <3>1, <3>2
  <2>3. \A y \in n.refresh : <<"refresh", y.id>> \notin used'
    <3> SUFFICES ASSUME NEW y \in n.refresh PROVE <<"refresh", y.id>> \notin used'
      OBVIOUS
    <3>1. <<"refresh", y.id>> \notin used
      BY DEF Sound, Legitimate
    <3>2. <<"refresh", y.id>> # <<kind, i>>
      BY <2>0, Zenon
    <3> QED
      BY <2>1, <3>1, <3>2
  <2> QED
    BY <2>2, <2>3 DEF Sound, Legitimate
<1>5. Sliding(n)'
  <2>1. ASSUME NEW y \in n.access PROVE y.id \in 1..MaxIds /\ seen'[y.id] = seen[y.id]
    <3>1. y.id \in 1..ids /\ y.id # New
      BY <1>2
    <3>2. y.id \in 1..MaxIds
      BY <1>1, <3>1
    <3> QED
      BY <1>3, <3>1, <3>2
  <2>2. outdated \subseteq outdated'
    BY DEF Saved, NotSaved, ServerStops
  <2> QED
    BY <2>1, <2>2 DEF Sound, Sliding
<1>6. m \in Data /\ Sound(m)'
  BY <1>1, <1>2, <1>3, <1>4, <1>5, PairIsSound DEF OAuthInv
<1>7. OAuthTypeOK' /\ Recorded'
  <2>1. mem' \in Data /\ disk' \in Data
    BY <1>6, NothingIsSound DEF Saved, Written, NotSaved, ServerStops, OAuthInv, OAuthTypeOK
  <2>2. OAuthTypeOK'
    BY <1>1, <1>3, <2>1 DEF OAuthTypeOK
  <2>3. \A j \in Nat : <<"code", j>> \in used' \/ <<"refresh", j>> \in used' => j \in 1..ids'
    <3>1. used' \subseteq used \cup {<<kind, i>>}
      BY DEF Answer, NoAnswer
    <3> QED
      BY <1>1, <3>1 DEF OAuthInv, Recorded
  <2>4. \A j \in 1..MaxIds : seen'[j] <= second'
    <3>1. \A j \in 1..MaxIds : seen[j] <= second
      BY DEF OAuthInv, Recorded
    <3> QED
      BY <1>3, <3>1
  <2>5. \A j \in revoked' : j \in 1..ids'
    BY <1>1 DEF OAuthInv, Recorded
  <2> QED
    BY <2>2, <2>3, <2>4, <2>5 DEF Recorded
<1> QED
  BY <1>3, <1>6, <1>7, SaveKeeps DEF NoAnswer, Saved

LEMMA ExchangeCodeKeeps ==
  ASSUME OAuthInv, NEW x \in mem.codes, ExchangeCode(x)
  PROVE  OAuthInv'
<1>1. PICK n : n = [mem EXCEPT !.codes = @ \ {x}]
  OBVIOUS
<1>2. /\ mem \in Data /\ Sound(mem) /\ x.client \in mem.clients
      /\ x.id \in 1..ids /\ <<"code", x.id>> \notin used
  BY DEF OAuthInv, OAuthTypeOK, ExchangeCode, Sound, WellNumbered, Legitimate
<1>3. /\ n \in Data /\ n.codes = mem.codes \ {x} /\ n.clients = mem.clients
      /\ n.access = mem.access /\ n.refresh = mem.refresh
  BY <1>1, <1>2 DEF Data
<1>4. Sound(n)
  <2> PICK m : m = mem
    OBVIOUS
  <2>1. m \in Data /\ Sound(m)
    BY <1>2
  <2>2. \A y \in n.access \cup n.refresh : y.client \in n.clients
    BY <1>2, <1>3 DEF Sound, Legitimate
  <2> QED
    BY <1>3, <2>1, <2>2, FewerIsSound
<1>5. CASE Expired(x)
  <2>1. (Saved(n) \/ NotSaved(n)) /\ UNCHANGED <<second, ids, used, reused, revoked, seen>>
    BY <1>1, <1>5, Zenon DEF ExchangeCode, NoAnswer
  <2> QED
    BY <1>3, <1>4, <2>1, DropKeeps
<1>6. CASE ~Expired(x)
  <2>1. PICK m : m = WithPair(n, x.client)
    OBVIOUS
  <2>2. /\ \/ Saved(m) /\ Answer(<<"code", x.id>>)
           \/ NotSaved(m) /\ NoAnswer
        /\ ids < MaxIds /\ ids' = ids + 1 /\ UNCHANGED <<second, revoked>>
    BY <1>1, <1>6, <2>1, Zenon DEF ExchangeCode, MayServe, New
  <2>3. \A y \in n.codes : y.id # x.id
    BY <1>2, <1>3 DEF Sound, WellNumbered, OneEach
  <2> QED
    BY <1>2, <1>3, <1>4, <2>1, <2>2, <2>3, ExchangeKeeps
<1> QED
  BY <1>5, <1>6

LEMMA ExchangeRefreshKeeps ==
  ASSUME OAuthInv, NEW x \in mem.refresh, ExchangeRefresh(x)
  PROVE  OAuthInv'
<1>2. /\ mem \in Data /\ Sound(mem) /\ x.client \in mem.clients
      /\ x.id \in 1..ids /\ <<"refresh", x.id>> \notin used
  BY DEF OAuthInv, OAuthTypeOK, ExchangeRefresh, Sound, WellNumbered, Legitimate
<1>0. ASSUME NEW n, n = [mem EXCEPT !.refresh = @ \ {x}] \/ n = Rotated(x)
      PROVE  n \in Data /\ Sound(n) /\ n.clients = mem.clients /\ n.refresh = mem.refresh \ {x}
  <2>1. /\ n \in Data /\ n.codes = mem.codes /\ n.clients = mem.clients
        /\ n.access \subseteq mem.access /\ n.refresh = mem.refresh \ {x}
    BY <1>0, <1>2 DEF Data, Rotated, Of
  <2> PICK m : m = mem
    OBVIOUS
  <2>2. m \in Data /\ Sound(m)
    BY <1>2
  <2>3. \A y \in n.access \cup n.refresh : y.client \in n.clients
    BY <1>2, <2>1 DEF Sound, Legitimate
  <2> QED
    BY <2>1, <2>2, <2>3, FewerIsSound
<1>5. CASE Expired(x)
  <2>1. PICK n : n = [mem EXCEPT !.refresh = @ \ {x}]
    OBVIOUS
  <2>2. (Saved(n) \/ NotSaved(n)) /\ UNCHANGED <<second, ids, used, reused, revoked, seen>>
    BY <1>5, <2>1, Zenon DEF ExchangeRefresh, NoAnswer
  <2> QED
    BY <1>0, <2>1, <2>2, DropKeeps
<1>6. CASE ~Expired(x)
  <2>0. PICK n : n = Rotated(x)
    OBVIOUS
  <2>1. PICK m : m = WithPair(n, x.client)
    OBVIOUS
  <2>2. /\ \/ Saved(m) /\ Answer(<<"refresh", x.id>>)
           \/ NotSaved(m) /\ NoAnswer
        /\ ids < MaxIds /\ ids' = ids + 1 /\ UNCHANGED <<second, revoked>>
    BY <1>6, <2>0, <2>1, Zenon DEF ExchangeRefresh, MayServe, New
  <2>3. n \in Data /\ Sound(n) /\ n.clients = mem.clients /\ \A y \in n.refresh : y.id # x.id
    BY <1>0, <1>2, <2>0 DEF Sound, WellNumbered, OneEach
  <2> QED
    BY <1>2, <2>1, <2>2, <2>3, ExchangeKeeps
<1> QED
  BY <1>5, <1>6

(* Extending a token: the renewed one takes the place of the old.          *)
LEMMA RenewalIsSound ==
  ASSUME OAuthInv, NEW x \in mem.access, NEW m,
         m = [mem EXCEPT !.access = (@ \ {x}) \cup {[x EXCEPT !.expires = second + AccessTtl]}],
         UNCHANGED <<second, ids, used, revoked>>, outdated \ {x.id} \subseteq outdated',
         seen' = seen \/ seen' = [seen EXCEPT ![x.id] = second]
  PROVE  m \in Data /\ Sound(m)' /\ OAuthTypeOK' = (mem' \in Data /\ disk' \in Data) /\ Recorded'
<1> DEFINE y == [x EXCEPT !.expires = second + AccessTtl]
<1>1. /\ mem \in Data /\ Sound(mem) /\ x \in Token /\ second \in Nat \ {0} /\ AccessTtl \in Nat
      /\ ids \in 0..MaxIds /\ MaxIds \in Nat /\ seen \in [1..MaxIds -> Nat]
      /\ \A i \in 1..MaxIds : seen[i] <= second
  BY OAuthAssumption DEF OAuthInv, OAuthTypeOK, Data, Recorded
<1>2. y \in Token /\ y.id = x.id /\ y.client = x.client /\ y.expires = second + AccessTtl
  <2>1. PICK expires \in Nat : expires = second + AccessTtl
    BY <1>1
  <2>2. y = [x EXCEPT !.expires = expires]
    BY <2>1
  <2> HIDE DEF y
  <2> QED
    BY <1>1, <2>1, <2>2 DEF Token
<1> HIDE DEF y
<1>3. /\ m.access = (mem.access \ {x}) \cup {y} /\ m.codes = mem.codes /\ m.refresh = mem.refresh
      /\ m.clients = mem.clients /\ m \in Data
  BY <1>1, <1>2 DEF Data, y
<1>4. /\ \A z \in mem.codes \cup mem.access \cup mem.refresh : z.id \in 1..ids
      /\ \A z \in mem.access : z # x => z.id # x.id
  BY <1>1 DEF Sound, WellNumbered, OneEach
<1>5. WellNumbered(m)'
  <2>1. \A z \in m.codes \cup m.access \cup m.refresh : z.id \in 1..ids
    BY <1>2, <1>3, <1>4
  <2>2. OneEach(m.access)
    BY <1>1, <1>2, <1>3, <1>4 DEF Sound, WellNumbered, OneEach
  <2>3. OneEach(m.codes) /\ OneEach(m.refresh)
    BY <1>1, <1>3 DEF Sound, WellNumbered, OneEach
  <2>4. \A z \in m.access, r \in m.refresh : z.id = r.id => z.client = r.client
    BY <1>1, <1>2, <1>3 DEF Sound, WellNumbered
  <2> QED
    BY <2>1, <2>2, <2>3, <2>4 DEF WellNumbered, OneEach
<1>6. Legitimate(m)'
  BY <1>1, <1>2, <1>3 DEF Sound, Legitimate
<1>7. /\ seen' \in [1..MaxIds -> Nat]
      /\ \A i \in 1..MaxIds : i # x.id => seen'[i] = seen[i]
      /\ \A i \in 1..MaxIds : seen'[i] <= second
  <2>1. CASE seen' = seen
    BY <1>1, <2>1
  <2>2. CASE seen' = [seen EXCEPT ![x.id] = second]
    <3>1. \A i \in 1..MaxIds : seen'[i] = IF i = x.id THEN second ELSE seen[i]
      BY <1>1, <2>2
    <3>2. seen' \in [1..MaxIds -> Nat]
      BY <1>1, <2>2
    <3> QED
      BY <1>1, <3>1, <3>2
  <2> QED
    BY <2>1, <2>2
<1>8. Sliding(m)'
  <2>1. ASSUME NEW z \in m.access, z.id \notin outdated', seen'[z.id] > 0 PROVE 2 * (z.expires - seen'[z.id]) >= AccessTtl
    <3>1. CASE z = y
      <4>1. y.id \in 1..MaxIds /\ seen'[y.id] <= second /\ seen'[y.id] \in Nat
        BY <1>1, <1>2, <1>4, <1>7
      <4> QED
        BY <1>1, <1>2, <3>1, <4>1
    <3>2. CASE z # y
      <4>1. z \in mem.access /\ z # x
        BY <1>3, <3>2
      <4>2. z.id \in 1..MaxIds /\ z.id # x.id
        BY <1>1, <1>4, <4>1
      <4> QED
        BY <1>1, <1>7, <2>1, <4>1, <4>2 DEF Sound, Sliding
    <3> QED
      BY <3>1, <3>2
  <2> QED
    BY <2>1 DEF Sliding
<1>9. OAuthTypeOK' = (mem' \in Data /\ disk' \in Data)
  BY <1>1, <1>7 DEF OAuthTypeOK
<1>10. Recorded'
  BY <1>7 DEF OAuthInv, Recorded
<1> QED
  BY <1>3, <1>5, <1>6, <1>8, <1>9, <1>10 DEF Sound

LEMMA VerifyKeeps ==
  ASSUME OAuthInv, NEW x \in mem.access, Verify(x)
  PROVE  OAuthInv'
<1>1. /\ mem \in Data /\ Sound(mem) /\ UNCHANGED <<second, ids, used, reused, revoked>>
      /\ ids \in 0..MaxIds /\ MaxIds \in Nat /\ reused = {}
  BY OAuthAssumption DEF OAuthInv, OAuthTypeOK, Verify
<1>2. CASE Expired(x)
  <2>1. PICK m : m = [mem EXCEPT !.access = @ \ {x}]
    OBVIOUS
  <2>2. (Saved(m) \/ NotSaved(m)) /\ UNCHANGED seen
    BY <1>2, <2>1, Zenon DEF Verify
  <2>3. /\ m \in Data /\ m.codes = mem.codes /\ m.clients = mem.clients
        /\ m.access \subseteq mem.access /\ m.refresh = mem.refresh
    BY <1>1, <2>1 DEF Data
  <2>4. Sound(m)
    <3> PICK n : n = mem
      OBVIOUS
    <3>1. n \in Data /\ Sound(n) /\ \A y \in m.access \cup m.refresh : y.client \in m.clients
      BY <1>1, <2>3 DEF Sound, Legitimate
    <3> QED
      BY <2>3, <3>1, FewerIsSound
  <2> QED
    BY <1>1, <2>2, <2>3, <2>4, DropKeeps
<1>3. CASE ~Expired(x) /\ RunsShort(x)
  <2>1. PICK m : m = [mem EXCEPT !.access = (@ \ {x}) \cup {[x EXCEPT !.expires = second + AccessTtl]}]
    OBVIOUS
  <2>2. \/ Written(m) /\ seen' = [seen EXCEPT ![x.id] = second] /\ outdated' = outdated \ {x.id}
        \/ NotSaved(m) /\ UNCHANGED seen
    BY <1>3, <2>1, Zenon DEF Verify, Seen
  <2>3. m \in Data /\ Sound(m)' /\ OAuthTypeOK' = (mem' \in Data /\ disk' \in Data) /\ Recorded'
    <3>1. outdated \ {x.id} \subseteq outdated'
      BY <2>2 DEF NotSaved, ServerStops
    <3> QED
      BY <1>1, <2>1, <2>2, <3>1, RenewalIsSound
  <2>4. OAuthTypeOK'
    BY <2>2, <2>3, NothingIsSound DEF Saved, Written, NotSaved, ServerStops, OAuthInv, OAuthTypeOK
  <2> QED
    BY <1>1, <2>2, <2>3, <2>4, SaveKeeps
<1>4. CASE ~Expired(x) /\ ~RunsShort(x)
  <2>1. /\ UNCHANGED <<mem, disk, serving>> /\ serving
        /\ seen' = [seen EXCEPT ![x.id] = second] /\ outdated' = outdated \ {x.id}
    BY <1>4 DEF Verify, Seen
  <2>2. /\ seen \in [1..MaxIds -> Nat] /\ second \in Nat /\ AccessTtl \in Nat /\ x \in Token
        /\ x.id \in 1..MaxIds
    BY <1>1, OAuthAssumption DEF OAuthInv, OAuthTypeOK, Data, Sound, WellNumbered
  <2>3. 2 * (x.expires - second) >= AccessTtl
    BY <1>4, <2>2 DEF RunsShort, Token
  <2>4. \A z \in mem.access : z # x => z.id # x.id /\ z.id \in 1..MaxIds
    BY <1>1 DEF Sound, WellNumbered, OneEach
  <2>5. Sliding(mem)'
    BY <1>1, <2>1, <2>2, <2>3, <2>4 DEF Sound, Sliding
  <2>6. WellNumbered(mem)' /\ Legitimate(mem)' /\ Kept(disk)'
    BY <1>1, <2>1 DEF OAuthInv, Sound, Kept, WellNumbered, OneEach, Legitimate
  <2>7. OAuthTypeOK' /\ Recorded'
    BY <1>1, <2>1, <2>2 DEF OAuthInv, OAuthTypeOK, Recorded
  <2> QED
    BY <1>1, <2>1, <2>5, <2>6, <2>7 DEF OAuthInv, Sound
<1> QED
  BY <1>2, <1>3, <1>4

LEMMA RevokeKeeps ==
  ASSUME OAuthInv, NEW x \in mem.access \cup mem.refresh, Revoke(x)
  PROVE  OAuthInv'
<1>1. /\ mem \in Data /\ Sound(mem) /\ UNCHANGED <<second, ids, used, reused, seen>>
      /\ ids \in 0..MaxIds /\ MaxIds \in Nat
  BY OAuthAssumption DEF OAuthInv, OAuthTypeOK, Revoke
<1>2. PICK m \in {WithoutAccess(y) : y \in mem.access \cap {x}} \cup {WithoutRefresh(y) : y \in mem.refresh \cap {x}} :
        \/ Saved(m) /\ revoked' = revoked \cup {x.id}
        \/ NotSaved(m) /\ UNCHANGED revoked
  BY Zenon DEF Revoke
<1>0. \/ x \in mem.access /\ m = WithoutAccess(x)
      \/ x \in mem.refresh /\ m = WithoutRefresh(x)
  <2>1. CASE m \in {WithoutAccess(y) : y \in mem.access \cap {x}}
    <3>1. PICK y \in mem.access \cap {x} : m = WithoutAccess(y)
      BY <2>1, Zenon
    <3>2. y = x /\ x \in mem.access
      OBVIOUS
    <3> QED
      BY <3>1, <3>2
  <2>2. CASE m \in {WithoutRefresh(y) : y \in mem.refresh \cap {x}}
    <3>1. PICK y \in mem.refresh \cap {x} : m = WithoutRefresh(y)
      BY <2>2, Zenon
    <3>2. y = x /\ x \in mem.refresh
      OBVIOUS
    <3> QED
      BY <3>1, <3>2
  <2> QED
    BY <2>1, <2>2
<1>3. /\ m \in Data /\ m.codes = mem.codes /\ m.clients = mem.clients
      /\ m.access \subseteq mem.access /\ m.refresh \subseteq mem.refresh
      /\ \/ x \in mem.access /\ m.access = mem.access \ {x} /\ m.refresh = mem.refresh \ Of(mem.refresh, x.client)
         \/ x \in mem.refresh /\ m.refresh = mem.refresh \ {x} /\ m.access = mem.access \ Of(mem.access, x.client)
  BY <1>0, <1>1 DEF WithoutAccess, WithoutRefresh, Data
<1>4. Sound(m)
  <2> PICK n : n = mem
    OBVIOUS
  <2>1. n \in Data /\ Sound(n) /\ \A y \in m.access \cup m.refresh : y.client \in m.clients
    BY <1>1, <1>3 DEF Sound, Legitimate
  <2> QED
    BY <1>3, <2>1, FewerIsSound
<1>5. CASE NotSaved(m) /\ UNCHANGED revoked
  BY <1>1, <1>3, <1>4, <1>5, DropKeeps
<1>6. CASE Saved(m) /\ revoked' = revoked \cup {x.id}
  <2>1. \A y \in m.access \cup m.refresh : y.id # x.id
    BY <1>1, <1>3 DEF Sound, WellNumbered, OneEach, Of
  <2>2. Sound(m)'
    BY <1>1, <1>4, <1>6, <2>1 DEF Sound, WellNumbered, OneEach, Legitimate, Sliding, Saved
  <2>3. OAuthTypeOK'
    BY <1>1, <1>3, <1>6 DEF OAuthInv, OAuthTypeOK, Saved, Written
  <2>4. Recorded'
    <3>1. x.id \in 1..ids
      BY <1>1 DEF Sound, WellNumbered
    <3> QED
      BY <1>1, <1>6, <3>1 DEF OAuthInv, Recorded
  <2> QED
    BY <1>1, <1>3, <1>6, <2>2, <2>3, <2>4 DEF OAuthInv, Saved, Written, Sound, Kept
<1> QED
  BY <1>2, <1>5, <1>6

LEMMA OAuthSteps == OAuthInv /\ [OAuthNext]_oauthVars => OAuthInv'
<1> SUFFICES ASSUME OAuthInv, [OAuthNext]_oauthVars PROVE OAuthInv'
  OBVIOUS
<1>1. CASE StartServing
  <2>1. PICK m : m = [disk EXCEPT !.codes = {x \in @ : ~Expired(x)}, !.access = {x \in @ : ~Expired(x)},
                                  !.refresh = {x \in @ : ~Expired(x)}]
    OBVIOUS
  <2>2. Saved(m) /\ UNCHANGED <<second, ids, used, reused, revoked, seen>>
    BY <1>1, <2>1, Zenon DEF StartServing
  <2>3. disk \in Data /\ Sound(disk)
    BY <1>1 DEF StartServing, OAuthInv, OAuthTypeOK, Sound, Kept
  <2>4. /\ m \in Data /\ m.clients = disk.clients
        /\ m.codes \subseteq disk.codes /\ m.access \subseteq disk.access /\ m.refresh \subseteq disk.refresh
    BY <2>1, <2>3 DEF Data
  <2>5. Sound(m)
    <3> PICK n : n = disk
      OBVIOUS
    <3>1. n \in Data /\ Sound(n) /\ \A y \in m.access \cup m.refresh : y.client \in m.clients
      BY <2>3, <2>4 DEF Sound, Legitimate
    <3> QED
      BY <2>4, <3>1, FewerIsSound
  <2> QED
    BY <2>2, <2>4, <2>5, DropKeeps
<1>2. CASE CrashServing
  <2>1. NotSaved(Nothing) /\ UNCHANGED <<second, ids, used, reused, revoked, seen>>
    BY <1>2 DEF CrashServing, NotSaved
  <2>2. Nothing \in Data /\ Sound(Nothing)
    BY NothingIsSound
  <2> QED
    BY <2>1, <2>2, DropKeeps
<1>3. CASE NextSecond
  <2>1. second' = second + 1 /\ UNCHANGED <<mem, disk, serving, ids, used, reused, revoked, seen, outdated>>
    BY <1>3 DEF NextSecond
  <2>2. OAuthTypeOK' /\ Recorded'
    BY <2>1 DEF OAuthInv, OAuthTypeOK, Recorded
  <2> QED
    BY <2>1, <2>2 DEF OAuthInv, Sound, Kept, WellNumbered, OneEach, Legitimate, Sliding
<1>4. CASE UNCHANGED oauthVars
  BY <1>4 DEF oauthVars, OAuthInv, OAuthTypeOK, Recorded, Sound, Kept, WellNumbered, OneEach, Legitimate, Sliding
<1> QED
  BY <1>1, <1>2, <1>3, <1>4, RegisterKeeps, AuthorizeKeeps, ExchangeCodeKeeps, ExchangeRefreshKeeps, VerifyKeeps,
     RevokeKeeps DEF OAuthNext

LEMMA OAuthInvariant == OAuthSpec => []OAuthInv
  BY OAuthStarts, OAuthSteps, PTL DEF OAuthSpec

(* No code and no refresh token is answered twice, though saves fail after *)
(* the copy in memory has changed and restarts bring the old file back.    *)
THEOREM SingleUse == OAuthSpec => []CredentialsAreSingleUse
<1>1. OAuthInv => CredentialsAreSingleUse
  BY DEF OAuthInv, CredentialsAreSingleUse
<1> QED
  BY OAuthInvariant, <1>1, PTL

(* Whichever clients the cap evicts, their tokens are gone from both       *)
(* copies.                                                                 *)
THEOREM EvictionIsComplete == OAuthSpec => []NoTokenOutlivesItsClient
<1>1. OAuthInv => NoTokenOutlivesItsClient
  BY DEF OAuthInv, Sound, Kept, Legitimate, NoTokenOutlivesItsClient
<1> QED
  BY OAuthInvariant, <1>1, PTL

(* A confirmed revocation holds for the token and its counterpart, in      *)
(* memory and in the file a restart will load.                             *)
THEOREM RevokedForGood == OAuthSpec => []RevocationIsFinal
<1>1. OAuthInv => RevocationIsFinal
  BY DEF OAuthInv, Sound, Kept, Legitimate, RevocationIsFinal, Ids
<1> QED
  BY OAuthInvariant, <1>1, PTL

(* For any lifetime: a token seen within the last half of it is not        *)
(* expired in the copy that counts, the one in memory while the server     *)
(* runs and the file while it does not, unless the file had another        *)
(* expiry for it when the server stopped.                                  *)
THEOREM SessionsStay == OAuthSpec => []ActiveTokensStay
<1>1. OAuthInv => ActiveTokensStay
  <2> SUFFICES ASSUME OAuthInv, NEW x \in Held, x.id \notin outdated,
                      seen[x.id] > 0, 2 * (second - seen[x.id]) <= AccessTtl
               PROVE  ~Expired(x)
    BY DEF ActiveTokensStay
  <2>1. /\ x \in Token /\ x.id \in 1..MaxIds /\ seen[x.id] \in Nat /\ second \in Nat /\ AccessTtl \in Nat
    BY OAuthAssumption DEF OAuthInv, OAuthTypeOK, Data, Sound, Kept, WellNumbered, Held
  <2>2. 2 * (x.expires - seen[x.id]) >= AccessTtl
    BY DEF OAuthInv, Sound, Sliding, Held
  <2> QED
    BY <2>1, <2>2 DEF Expired, Token
<1> QED
  BY OAuthInvariant, <1>1, PTL

-----------------------------------------------------------------------------
(* DiskStores                                                              *)

(* A set of numbers that is not empty has a least one.                     *)
LEMMA HasLeast ==
  ASSUME NEW S \in SUBSET Nat, S # {}
  PROVE  \E m \in S : \A i \in S : m <= i
<1> DEFINE Less == OpToRel(<, Nat)
<1>1. IsWellFoundedOn(Less, Nat)
  BY NatLessThanWellFounded
<1>2. \A a, b \in Nat : a < b => <<a, b>> \in Less
  BY Zenon DEF OpToRel
<1> HIDE DEF Less
<1>3. PICK m \in S : \A i \in S : ~(<<i, m>> \in Less)
  BY <1>1, WFMin
<1>4. ASSUME NEW i \in S PROVE m <= i
  <2>1. ~(i < m)
    BY <1>2, <1>3
  <2> QED
    BY <2>1
<1> QED
  BY <1>4

(* Sets of ids are finite.                                                 *)
LEMMA IdSets ==
  ASSUME NEW n \in Nat
  PROVE  /\ \A S \in SUBSET (1..n) : IsFiniteSet(S) /\ Cardinality(S) \in Nat
         /\ \A S, T \in SUBSET (1..n) : T \subseteq S => Cardinality(T) <= Cardinality(S)
<1>1. IsFiniteSet(1..n)
  BY FS_Interval
<1>2. ASSUME NEW S \in SUBSET (1..n) PROVE IsFiniteSet(S) /\ Cardinality(S) \in Nat
  BY <1>1, FS_Subset, FS_CardinalityType
<1>3. ASSUME NEW S \in SUBSET (1..n), NEW T \in SUBSET (1..n), T \subseteq S
      PROVE  Cardinality(T) <= Cardinality(S)
  BY <1>2, <1>3, FS_Subset
<1> QED
  BY <1>2, <1>3

(* What was made so far.                                                   *)
LEMMA MadeIs ==
  ASSUME StoreTypeOK
  PROVE  /\ Len(made) \in Nat /\ \A i \in MadeIds : i \in Nat /\ made[i].day \in Nat
         /\ DOMAIN made = MadeIds
<1> DEFINE Made == [kind : Kinds \cup {AnyKind}, day : Nat]
<1>1. made \in Seq(Made) /\ \A r \in Made : r.day \in Nat
  BY DEF StoreTypeOK
<1> HIDE DEF Made
<1>2. Len(made) \in Nat /\ DOMAIN made = MadeIds
  BY <1>1 DEF MadeIds
<1>3. ASSUME NEW i \in MadeIds PROVE i \in Nat /\ made[i] \in Made
  BY <1>1 DEF MadeIds
<1> QED
  BY <1>1, <1>2, <1>3

(* What was made stays, and time goes on.                                  *)
MadeStays ==
  /\ store' = store /\ today <= today' /\ today' \in Nat
  /\ MadeIds \subseteq MadeIds'
  /\ \A i \in MadeIds : made'[i] = made[i]

(* Too old, or displaced by what was appended later.                       *)
Displaced(i) == Age(i) > MaxAge \/ Cardinality(Rivals(i)) >= Cap

(* It stays that way.                                                      *)
LEMMA DisplacedStays ==
  ASSUME StoreInv, StoreTypeOK', MadeStays, appended \subseteq appended', NEW i \in MadeIds, Displaced(i)
  PROVE  Displaced(i)'
<1>1. /\ MaxAge \in Nat /\ Cap \in Nat /\ today \in Nat /\ made[i].day \in Nat
      /\ made'[i] = made[i] /\ made[i].day <= today
  BY StoreAssumption, MadeIs DEF StoreInv, StoreTypeOK, DaysInOrder, MadeStays
<1>2. CASE Age(i) > MaxAge
  BY <1>1, <1>2 DEF Displaced, Age, MadeStays
<1>3. CASE Cardinality(Rivals(i)) >= Cap
  <2>1. Len(made') \in Nat
    <3> DEFINE K == Kinds \cup {AnyKind}
    <3>1. made' \in Seq([kind : K, day : Nat])
      BY DEF StoreTypeOK
    <3> HIDE DEF K
    <3> QED
      BY <3>1
  <2>2. appended \subseteq MadeIds /\ appended' \subseteq 1..Len(made')
    BY DEF StoreInv, StoreTypeOK, MadeIds
  <2>3. Rivals(i) \in SUBSET (1..Len(made')) /\ Rivals(i)' \in SUBSET (1..Len(made'))
    BY <2>2 DEF Rivals, MadeStays, MadeIds
  <2>4. Rivals(i) \subseteq Rivals(i)'
    BY <1>1, <2>2 DEF Rivals, MadeStays
  <2>5. /\ Cardinality(Rivals(i)) <= Cardinality(Rivals(i)')
        /\ Cardinality(Rivals(i)) \in Nat /\ Cardinality(Rivals(i)') \in Nat
    BY <2>1, <2>3, <2>4, IdSets
  <2> QED
    BY <1>1, <1>3, <2>5 DEF Displaced
<1> QED
  BY <1>2, <1>3 DEF Displaced

(* What retention may take away is too old, or displaced.                  *)
LEMMA SpentIsDisplaced ==
  ASSUME StoreInv, NEW i \in Spent(listed)
  PROVE  i \in MadeIds /\ Displaced(i)
<1>1. listed \subseteq appended /\ appended \subseteq MadeIds /\ Cap \in Nat
  BY StoreAssumption DEF StoreInv, StoreTypeOK, LinesAreAppended
<1>2. i \in listed
  BY DEF Spent
<1>3. CASE Age(i) > MaxAge
  BY <1>1, <1>2, <1>3 DEF Displaced
<1>4. CASE Cardinality({j \in SameKind(i, listed) : j > i}) >= Cap
  <2>1. {j \in SameKind(i, listed) : j > i} \subseteq Rivals(i)
    BY <1>1 DEF SameKind, Rivals
  <2>2. Rivals(i) \in SUBSET MadeIds /\ {j \in SameKind(i, listed) : j > i} \in SUBSET MadeIds
    BY <1>1 DEF Rivals, SameKind
  <2>3. Len(made) \in Nat
    BY MadeIs DEF StoreInv
  <2>4. /\ Cardinality({j \in SameKind(i, listed) : j > i}) <= Cardinality(Rivals(i))
        /\ Cardinality({j \in SameKind(i, listed) : j > i}) \in Nat
        /\ Cardinality(Rivals(i)) \in Nat
    BY <2>1, <2>2, <2>3, IdSets DEF MadeIds
  <2>5. Cardinality(Rivals(i)) >= Cap
    BY <1>1, <1>4, <2>4
  <2> QED
    BY <1>1, <1>2, <2>5 DEF Displaced
<1> QED
  BY <1>3, <1>4 DEF Spent

(* An entry that is spent stays so while nothing leaves the list.          *)
LEMMA SpentStays ==
  ASSUME StoreInv, StoreTypeOK', MadeStays, listed \subseteq listed'
  PROVE  Spent(listed) \subseteq Spent(listed)'
<1> SUFFICES ASSUME NEW i \in Spent(listed) PROVE i \in Spent(listed)'
  OBVIOUS
<1>1. i \in listed /\ listed \subseteq MadeIds
  BY DEF Spent, StoreInv, StoreTypeOK
<1>2. /\ MaxAge \in Nat /\ Cap \in Nat /\ today \in Nat /\ made[i].day \in Nat
      /\ made'[i] = made[i] /\ made[i].day <= today
  BY <1>1, StoreAssumption, MadeIs DEF StoreInv, StoreTypeOK, DaysInOrder, MadeStays
<1>3. CASE Age(i) > MaxAge
  BY <1>1, <1>2, <1>3 DEF Spent, Age, MadeStays
<1>4. CASE Cardinality({j \in SameKind(i, listed) : j > i}) >= Cap
  <2> DEFINE A == {j \in SameKind(i, listed) : j > i}
             B == {j \in SameKind(i, listed)' : j > i}
  <2>1. listed' \subseteq 1..Len(made')
    BY DEF StoreTypeOK, MadeIds
  <2>2. A \subseteq B
    BY <1>1, <1>2 DEF SameKind, MadeStays
  <2>3. B \in SUBSET (1..Len(made')) /\ A \in SUBSET (1..Len(made'))
    BY <2>1, <2>2 DEF SameKind
  <2>4. Len(made') \in Nat
    <3> DEFINE Made == [kind : Kinds \cup {AnyKind}, day : Nat]
    <3>1. made' \in Seq(Made)
      BY DEF StoreTypeOK
    <3> HIDE DEF Made
    <3> QED
      BY <3>1
  <2> HIDE DEF A, B
  <2>5. Cardinality(A) <= Cardinality(B) /\ Cardinality(A) \in Nat /\ Cardinality(B) \in Nat
    BY <2>2, <2>3, <2>4, IdSets
  <2>6. Cardinality(A) >= Cap
    BY <1>4 DEF A
  <2>7. Cardinality(B) >= Cap
    BY <1>2, <2>5, <2>6
  <2> QED
    BY <1>1, <2>7 DEF B, Spent
<1> QED
  BY <1>3, <1>4 DEF Spent

(* An entry leaves the list when it is gone.                               *)
LEMMA RetentionKept ==
  ASSUME StoreInv, StoreTypeOK', MadeStays,
         appended \subseteq appended', byHand \subseteq byHand', swallowed \subseteq swallowed',
         \A i \in appended' \ (listed' \cup byHand' \cup swallowed') :
           i \in appended /\ (i \in listed => Displaced(i))
  PROVE  RetentionKeepsNewest'
<1> SUFFICES ASSUME NEW i \in appended' \ (listed' \cup byHand' \cup swallowed') PROVE Displaced(i)'
  BY DEF RetentionKeepsNewest, Displaced
<1>1. i \in appended /\ i \notin byHand \cup swallowed /\ i \in MadeIds
  BY DEF StoreInv, StoreTypeOK
<1>2. Displaced(i)
  BY <1>1 DEF StoreInv, RetentionKeepsNewest, Displaced
<1> QED
  BY <1>1, <1>2, DisplacedStays

(* A step that leaves the lists alone.                                     *)
LEMMA QuietStep ==
  ASSUME StoreInv, UNCHANGED <<store, listed, made, today, appended, byHand, swallowed>>
  PROVE  /\ DaysInOrder' /\ RetentionKeepsNewest'
         /\ MadeIds' = MadeIds /\ (Exempt' <=> Exempt)
         /\ Spent(listed)' = Spent(listed)
         /\ \A S : Trim(S)' <=> Trim(S)
<1>1. DaysInOrder' /\ MadeIds' = MadeIds /\ (Exempt' <=> Exempt)
  BY DEF StoreInv, DaysInOrder, MadeIds, Exempt
<1>2. \A i : Age(i)' = Age(i) /\ Rivals(i)' = Rivals(i) /\ \A S : SameKind(i, S)' = SameKind(i, S)
  BY DEF Age, Rivals, SameKind
<1>3. RetentionKeepsNewest'
  BY <1>2 DEF StoreInv, RetentionKeepsNewest
<1>4. Spent(listed)' = Spent(listed) /\ \A S : Trim(S)' <=> Trim(S)
  BY <1>2 DEF Spent, Trim
<1> QED
  BY <1>1, <1>3, <1>4

(* Where no pass has come to its end.                                      *)
LEMMA NoPass ==
  ASSUME passDay' = 0
  PROVE  PassStands' /\ ListedFilesExist' /\ NothingPilesUp'
  BY DEF PassStands, ListedFilesExist, NothingPilesUp

(* No pass has, in the middle of one.                                      *)
LEMMA MidPass ==
  ASSUME StoreInv, step.pc # "idle"
  PROVE  passDay = 0
  BY DEF StoreInv, StoreTypeOK, PassStands

(* A step in the middle of a pass, or one that begins something, that      *)
(* leaves the lists alone: what is left to show.                           *)
LEMMA StepOfPass ==
  ASSUME StoreInv, UNCHANGED <<store, listed, made, today, appended, byHand, swallowed>>,
         passDay' = 0,
         StoreTypeOK', LinesAreAppended', PassIsSound', MissingAreSpent'
  PROVE  StoreInv'
BY QuietStep, NoPass DEF StoreInv

(* A file is made.                                                         *)
LEMMA MakeFileKeeps ==
  ASSUME StoreInv, NEW kind \in Kinds \cup {AnyKind}, MakeFile(kind)
  PROVE  StoreInv'
<1> DEFINE n == Len(made) + 1
           Made == [kind : Kinds \cup {AnyKind}, day : Nat]
           new == [kind |-> kind, day |-> today]
<1>1. made \in Seq(Made) /\ new \in Made
  BY DEF StoreInv, StoreTypeOK
<1>2. made' = Append(made, new)
  BY DEF MakeFile
<1> HIDE DEF Made
<1>3. /\ made' \in Seq(Made) /\ Len(made) \in Nat /\ Len(made') = n
      /\ \A i \in 1..Len(made) : made'[i] = made[i]
      /\ made'[n] = new
  BY <1>1, <1>2
<1> HIDE DEF new
<1>4. new.day = today /\ MadeIds' = MadeIds \cup {n} /\ n \notin MadeIds
  BY <1>3 DEF new, MadeIds
<1>5. MadeStays
  BY <1>3, <1>4 DEF MadeStays, MakeFile, MadeIds, StoreInv, StoreTypeOK
<1>6. StoreTypeOK'
  <2>1. made' \in Seq([kind : Kinds \cup {AnyKind}, day : Nat])
    BY <1>3 DEF Made
  <2>2. step' = [pc |-> "append", id |-> n, doomed |-> {}, keep |-> {}, auto |-> TRUE]
    BY DEF MakeFile, Resting
  <2> HIDE DEF n
  <2>3. step' \in [pc     : {"idle", "append", "plan", "unlink", "sweep", "down"},
                   id     : {0} \cup MadeIds',
                   doomed : SUBSET MadeIds',
                   keep   : SUBSET MadeIds',
                   auto   : BOOLEAN]
    BY <1>4, <2>2
  <2>4. files' = files \cup {n}
    BY DEF MakeFile, n
  <2> QED
    BY <1>4, <2>1, <2>3, <2>4 DEF StoreInv, StoreTypeOK, MakeFile
<1>7. DaysInOrder'
  <2>1. ASSUME NEW i \in MadeIds' PROVE made'[i].day <= today'
    BY <1>3, <1>4, MadeIs DEF StoreInv, StoreTypeOK, DaysInOrder, MakeFile, MadeIds
  <2>2. ASSUME NEW i \in MadeIds', NEW j \in MadeIds', i < j PROVE made'[i].day <= made'[j].day
    <3>1. i \in MadeIds
      BY <1>3, <1>4, <2>2 DEF MadeIds
    <3>2. CASE j \in MadeIds
      BY <1>3, <2>2, <3>1, <3>2 DEF StoreInv, DaysInOrder, MadeIds
    <3>3. CASE j = n
      BY <1>3, <1>4, <3>1, <3>3 DEF StoreInv, DaysInOrder, MadeIds
    <3> QED
      BY <1>4, <3>2, <3>3
  <2> QED
    BY <2>1, <2>2 DEF DaysInOrder
<1>8. LinesAreAppended'
  BY <1>3, <1>4 DEF LinesAreAppended, MakeFile, Resting, StoreInv, StoreTypeOK
<1>9. RetentionKeepsNewest'
  BY <1>5, <1>6, RetentionKept DEF MakeFile
<1>10. MissingAreSpent'
  BY <1>5, <1>6, SpentStays DEF MissingAreSpent, MakeFile, Exempt, StoreInv
<1> QED
  BY <1>6, <1>7, <1>8, <1>9, <1>10, NoPass DEF StoreInv, PassIsSound, MakeFile, Resting

(* Its line is written, or breaks off.                                     *)
LEMMA AppendKeeps ==
  ASSUME StoreInv, AppendLine \/ AppendBreaks
  PROVE  StoreInv'
<1>1. /\ step.pc = "append" /\ step.id \in MadeIds /\ step.id \in files \ appended /\ step.auto
      /\ passDay = 0
  BY MadeIs, MidPass DEF StoreInv, StoreTypeOK, LinesAreAppended, AppendLine, AppendBreaks, MadeIds
<1>2. /\ UNCHANGED <<store, files, made, today, byHand, passDay>>
      /\ MadeIds' = MadeIds
  BY DEF AppendLine, AppendBreaks, MadeIds
<1>3. step'.pc \in {"plan", "down", "idle"} /\ step' \in [pc     : {"plan", "down", "idle"},
                                                        id     : {0} \cup MadeIds,
                                                        doomed : SUBSET MadeIds,
                                                        keep   : SUBSET MadeIds,
                                                        auto   : {TRUE}]
  <2>1. CASE AppendLine
    <3>1. step \in [pc     : {"idle", "append", "plan", "unlink", "sweep", "down"},
                   id     : {0} \cup MadeIds,
                   doomed : SUBSET MadeIds,
                   keep   : SUBSET MadeIds,
                   auto   : BOOLEAN]
      BY DEF StoreInv, StoreTypeOK
    <3> QED
      BY <1>1, <2>1, <3>1 DEF AppendLine
  <2>2. CASE AppendBreaks
    <3>1. step' \in {Resting, [Resting EXCEPT !.pc = "down"]}
      BY <2>2 DEF AppendBreaks
    <3>2. \E p \in {"idle", "down"} : step' = [pc |-> p, id |-> 0, doomed |-> {}, keep |-> {}, auto |-> TRUE]
      BY <3>1 DEF Resting
    <3> QED
      BY <3>2
  <2> QED
    BY <2>1, <2>2
<1>4. /\ appended \subseteq appended' /\ appended' \subseteq appended \cup {step.id}
      /\ swallowed \subseteq swallowed' /\ swallowed' \subseteq MadeIds
      /\ listed' \subseteq listed \cup {step.id} /\ listed' \subseteq appended'
      /\ appended' \subseteq appended \cup listed' \cup swallowed'
      /\ listed \subseteq listed' \cup swallowed'
      /\ torn' \in BOOLEAN /\ tail' \in {0} \cup MadeIds
      /\ swallowed' = {} => listed \subseteq listed'
  <2>1. /\ listed \subseteq appended /\ swallowed \subseteq MadeIds /\ 0 \notin MadeIds
        /\ tail \in {0} \cup MadeIds /\ listed \subseteq MadeIds /\ torn \in BOOLEAN
    BY DEF StoreInv, StoreTypeOK, LinesAreAppended, MadeIds
  <2>2. CASE AppendLine
    BY <1>1, <2>1, <2>2 DEF AppendLine, AfterAppend, Swallow
  <2>3. CASE AppendBreaks
    BY <1>1, <2>1, <2>3 DEF AppendBreaks, AfterAppend, Swallow
  <2> QED
    BY <2>2, <2>3
<1>5. StoreTypeOK'
  BY <1>1, <1>2, <1>3, <1>4 DEF StoreInv, StoreTypeOK
<1>6. MadeStays
  BY <1>2 DEF MadeStays, StoreInv, StoreTypeOK
<1>7. DaysInOrder'
  BY <1>2 DEF DaysInOrder, StoreInv
<1>8. LinesAreAppended'
  BY <1>3, <1>4 DEF LinesAreAppended
<1>9. RetentionKeepsNewest'
  <2>1. ASSUME NEW i \in appended' \ (listed' \cup byHand' \cup swallowed')
        PROVE  i \in appended /\ i \notin listed
    BY <1>4
  <2> QED
    BY <1>2, <1>4, <1>5, <1>6, <2>1, RetentionKept
<1>10. MissingAreSpent'
  <2> SUFFICES ASSUME ~Exempt' PROVE listed' \ files' \subseteq Spent(listed)'
    BY DEF MissingAreSpent
  <2>1. swallowed' = {} /\ ~Exempt
    BY <1>2, <1>4 DEF Exempt
  <2>2. listed \subseteq listed' /\ listed' \ files' \subseteq listed \ files
    BY <1>1, <1>2, <1>4, <2>1
  <2> QED
    BY <1>5, <1>6, <2>1, <2>2, SpentStays DEF MissingAreSpent, StoreInv
<1> QED
  BY <1>1, <1>2, <1>3, <1>5, <1>7, <1>8, <1>9, <1>10, NoPass DEF StoreInv, PassIsSound

(* A file that was condemned is deleted, or cannot be.                     *)
LEMMA UnlinkKeeps ==
  ASSUME StoreInv, (\E i \in step.doomed : Unlink(i)) \/ BackupUnlinkFails
  PROVE  StoreInv'
<1>1. /\ step.pc = "unlink" /\ passDay = 0
      /\ UNCHANGED <<store, listed, torn, tail, made, today, appended, byHand, swallowed, passDay>>
  BY MidPass DEF Unlink, BackupUnlinkFails
<1>2. PICK i \in step.doomed : /\ step' = [step EXCEPT !.doomed = @ \ {i}]
                               /\ files' \in {files, files \ {i}}
  BY DEF Unlink, BackupUnlinkFails
<1>3. /\ step'.pc = step.pc /\ step'.id = step.id /\ step'.keep = step.keep /\ step'.auto = step.auto
      /\ step'.doomed = step.doomed \ {i}
      /\ MadeIds' = MadeIds
  BY <1>1, <1>2 DEF StoreInv, StoreTypeOK, MadeIds
<1>4. StoreTypeOK'
  BY <1>1, <1>2, <1>3 DEF StoreInv, StoreTypeOK
<1>5. LinesAreAppended'
  BY <1>1, <1>3 DEF StoreInv, LinesAreAppended
<1>6. PassIsSound'
  <2>1. Spent(listed)' = Spent(listed) /\ (Exempt' <=> Exempt) /\ (Trim(step.keep)' <=> Trim(step.keep))
    BY <1>1, <1>3, QuietStep
  <2> QED
    BY <1>1, <1>2, <1>3, <2>1 DEF StoreInv, PassIsSound
<1>7. MissingAreSpent'
  <2>1. Spent(listed)' = Spent(listed) /\ (Exempt' <=> Exempt)
    BY <1>1, QuietStep
  <2>2. ~Exempt => i \in Spent(listed)
    BY <1>1 DEF StoreInv, PassIsSound, Exempt
  <2> QED
    BY <1>1, <1>2, <2>1, <2>2 DEF StoreInv, MissingAreSpent
<1> QED
  BY <1>1, <1>4, <1>5, <1>6, <1>7, StepOfPass

(* The server is killed, and starts.                                       *)
LEMMA ServerKeeps ==
  ASSUME StoreInv, Crash \/ StartUp
  PROVE  StoreInv'
<1>1. /\ UNCHANGED <<store, listed, torn, tail, files, made, today, appended, byHand, swallowed>>
      /\ passDay' = 0 /\ MadeIds' = MadeIds
  BY MidPass DEF Crash, StartUp, MadeIds
<1>2. step'.pc \in {"plan", "down"} /\ step' \in [pc     : {"plan", "down"},
                                                id     : {0} \cup MadeIds,
                                                doomed : SUBSET MadeIds,
                                                keep   : SUBSET MadeIds,
                                                auto   : {TRUE}]
  BY DEF Crash, StartUp, Resting
<1>3. StoreTypeOK'
  <2>1. passDay' \in 0..today'
    BY <1>1 DEF StoreInv, StoreTypeOK
  <2>2. step' \in [pc     : {"idle", "append", "plan", "unlink", "sweep", "down"},
                   id     : {0} \cup MadeIds',
                   doomed : SUBSET MadeIds',
                   keep   : SUBSET MadeIds',
                   auto   : BOOLEAN]
    BY <1>1, <1>2
  <2> QED
    BY <1>1, <2>1, <2>2 DEF StoreInv, StoreTypeOK
<1>4. LinesAreAppended' /\ PassIsSound'
  BY <1>1, <1>2 DEF StoreInv, LinesAreAppended, PassIsSound
<1>5. MissingAreSpent'
  BY <1>1, QuietStep DEF StoreInv, MissingAreSpent
<1> QED
  BY <1>1, <1>3, <1>4, <1>5, StepOfPass

(* A day goes by.                                                          *)
LEMMA TomorrowKeeps ==
  ASSUME StoreInv, Tomorrow
  PROVE  StoreInv'
<1>1. /\ UNCHANGED <<store, listed, torn, tail, files, made, step, appended, byHand, swallowed, passDay>>
      /\ today' = today + 1 /\ today \in Nat /\ step.pc = "idle" /\ MadeIds' = MadeIds
  BY DEF Tomorrow, StoreInv, StoreTypeOK, MadeIds
<1>2. StoreTypeOK'
  <2>1. passDay' \in 0..today' /\ today' \in Nat \ {0}
    BY <1>1 DEF StoreInv, StoreTypeOK
  <2> QED
    BY <1>1, <2>1 DEF StoreInv, StoreTypeOK
<1>3. MadeStays
  BY <1>1 DEF MadeStays
<1>4. DaysInOrder'
  BY <1>1, MadeIs DEF StoreInv, DaysInOrder
<1>5. LinesAreAppended' /\ PassIsSound' /\ PassStands'
  BY <1>1 DEF StoreInv, LinesAreAppended, PassIsSound, PassStands
<1>6. MissingAreSpent'
  BY <1>1, <1>2, <1>3, SpentStays DEF StoreInv, MissingAreSpent, Exempt
<1>7. RetentionKeepsNewest'
  BY <1>1, <1>2, <1>3, RetentionKept DEF StoreInv, LinesAreAppended
<1>8. ListedFilesExist' /\ NothingPilesUp'
  BY <1>1 DEF StoreInv, ListedFilesExist, NothingPilesUp
<1> QED
  BY <1>2, <1>4, <1>5, <1>6, <1>7, <1>8 DEF StoreInv

(* The backups a pass condemns are those that are spent: whoever has been  *)
(* displaced by entries that are themselves too old is older than they.    *)
LEMMA CondemnedAreSpent ==
  ASSUME StoreInv, store = "backup"
  PROVE  Condemned(listed, MaxAge) = Spent(listed)
<1> DEFINE Young == listed \ TooOld(listed, MaxAge)
           Newer(i) == {j \in SameKind(i, listed) : j > i}
           NewerYoung(i) == {j \in Young : made[j].kind = made[i].kind /\ j > i}
<1>1. /\ Len(made) \in Nat /\ listed \subseteq MadeIds /\ Cap \in Nat /\ MaxAge \in Nat /\ today \in Nat
      /\ \A i \in MadeIds : i \in Nat /\ made[i].day \in Nat /\ made[i].day <= today
      /\ \A i, j \in MadeIds : i < j => made[i].day <= made[j].day
  BY MadeIs, StoreAssumption DEF StoreInv, StoreTypeOK, DaysInOrder
<1>2. ASSUME NEW i \in listed
      PROVE  /\ Cardinality(NewerYoung(i)) <= Cardinality(Newer(i))
             /\ Cardinality(NewerYoung(i)) \in Nat /\ Cardinality(Newer(i)) \in Nat
  <2>1. NewerYoung(i) \subseteq Newer(i) /\ NewerYoung(i) \in SUBSET (1..Len(made)) /\ Newer(i) \in SUBSET (1..Len(made))
    BY <1>1 DEF SameKind, MadeIds
  <2> QED
    BY <1>1, <2>1, IdSets
<1>3. ASSUME NEW i \in Young PROVE NewerYoung(i) = Newer(i)
  <2>1. ASSUME NEW j \in listed, j > i PROVE j \in Young
    BY <1>1, <2>1 DEF TooOld, Age
  <2> QED
    BY <2>1 DEF SameKind
<1>4. OverCap(Young) = {i \in Young : Cardinality(NewerYoung(i)) >= Cap}
  BY DEF OverCap
<1>5. ASSUME NEW i \in listed
      PROVE  i \in Condemned(listed, MaxAge) <=> Age(i) > MaxAge \/ Cardinality(Newer(i)) >= Cap
  <2>1. CASE i \in Young
    BY <1>3, <1>4, <2>1 DEF Condemned, TooOld
  <2>2. CASE i \notin Young
    BY <2>2 DEF Condemned, TooOld
  <2> QED
    BY <2>1, <2>2
<1>6. Condemned(listed, MaxAge) \subseteq listed
  BY DEF Condemned, TooOld, OverCap
<1> QED
  BY <1>5, <1>6 DEF Spent

(* Captures and shell outputs are kept unless they are spent.              *)
LEMMA KeptAreNotSpent ==
  ASSUME StoreInv, store # "backup"
  PROVE  Keep = listed \ Spent(listed)
<1>1. /\ Len(made) \in Nat /\ listed \subseteq MadeIds /\ Cap \in Nat /\ MaxAge \in Nat /\ today \in Nat
      /\ \A i \in MadeIds : made[i].day \in Nat /\ made[i].day <= today
  BY MadeIs, StoreAssumption DEF StoreInv, StoreTypeOK, DaysInOrder
<1>2. ASSUME NEW i \in listed PROVE i \in Keep <=> i \notin Spent(listed)
  <2> DEFINE Newer == {j \in listed : j > i}
  <2>1. Cardinality(Newer) \in Nat
    <3>1. Newer \in SUBSET (1..Len(made))
      BY <1>1 DEF MadeIds
    <3> QED
      BY <1>1, <3>1, IdSets
  <2>2. {j \in SameKind(i, listed) : j > i} = Newer
    BY DEF SameKind
  <2>3. Age(i) > MaxAge <=> ~(Age(i) <= MaxAge)
    BY <1>1 DEF Age
  <2>4. Cardinality(Newer) >= Cap <=> ~(Cardinality(Newer) < Cap)
    BY <1>1, <2>1
  <2> QED
    BY <2>2, <2>3, <2>4 DEF Keep, Spent
<1> QED
  BY <1>2 DEF Keep

(* What is not spent is within the limits: the oldest of a kind has fewer  *)
(* than Cap newer ones.                                                    *)
LEMMA KeptAreTrim ==
  ASSUME StoreInv
  PROVE  Trim(listed \ Spent(listed))
<1> DEFINE K == listed \ Spent(listed)
<1> SUFFICES ASSUME NEW i \in K PROVE Cardinality(SameKind(i, K)) <= Cap /\ Age(i) <= MaxAge
  BY DEF Trim
<1>1. /\ Len(made) \in Nat /\ listed \subseteq MadeIds /\ Cap \in Nat /\ MaxAge \in Nat /\ today \in Nat
      /\ \A j \in MadeIds : j \in Nat /\ made[j].day \in Nat /\ made[j].day <= today
  BY MadeIs, StoreAssumption DEF StoreInv, StoreTypeOK, DaysInOrder
<1>2. Age(i) <= MaxAge
  BY <1>1 DEF Spent, Age
<1> DEFINE S == SameKind(i, K)
<1>3. S \in SUBSET (1..Len(made)) /\ S \in SUBSET Nat /\ i \in S
  BY <1>1 DEF SameKind, MadeIds
<1>4. PICK m \in S : \A j \in S : m <= j
  <2> HIDE DEF S
  <2> QED
    BY <1>3, HasLeast
<1> DEFINE Newer == {j \in SameKind(m, listed) : j > m}
<1>5. S \ {m} \subseteq Newer
  BY <1>1, <1>3, <1>4 DEF SameKind
<1>6. m \in listed /\ ~(Cardinality(Newer) >= Cap)
  BY <1>4 DEF SameKind, Spent
<1>7. Newer \in SUBSET (1..Len(made))
  BY <1>1 DEF SameKind, MadeIds
<1> HIDE DEF S, Newer
<1>8. /\ IsFiniteSet(S) /\ Cardinality(S) \in Nat
      /\ Cardinality(Newer) \in Nat /\ Cardinality(S \ {m}) <= Cardinality(Newer)
  BY <1>1, <1>3, <1>5, <1>7, IdSets
<1>9. Cardinality(S \ {m}) = Cardinality(S) - 1
  BY <1>4, <1>8, FS_RemoveElement
<1>10. Cardinality(S) <= Cap
  BY <1>1, <1>6, <1>8, <1>9
<1> QED
  BY <1>2, <1>10 DEF S

(* What step can be.                                                       *)
StepType(p) ==
  [pc : p, id : {0} \cup MadeIds, doomed : SUBSET MadeIds, keep : SUBSET MadeIds, auto : BOOLEAN]

StoreStages == {"idle", "append", "plan", "unlink", "sweep", "down"}

(* A pass is planned: it deletes what is spent, and keeps the rest.        *)
LEMMA PlanKeeps ==
  ASSUME StoreInv, BackupPlan \/ OutputPlan
  PROVE  StoreInv'
<1> DEFINE D == Spent(listed)
<1>1. /\ step.pc = "plan" /\ step.auto /\ passDay = 0 /\ step.id \in {0} \cup MadeIds
      /\ UNCHANGED <<store, listed, torn, tail, files, made, today, appended, byHand, swallowed, passDay>>
      /\ MadeIds' = MadeIds
  BY MidPass DEF BackupPlan, OutputPlan, StoreInv, StoreTypeOK, LinesAreAppended, MadeIds
<1>2. D \subseteq listed /\ listed \subseteq MadeIds
  BY DEF Spent, StoreInv, StoreTypeOK
<1>3. \E i \in {0} \cup MadeIds, p \in {"unlink", "sweep"} :
        /\ step' = [pc |-> p, id |-> i, doomed |-> D, keep |-> listed \ D, auto |-> TRUE]
        /\ p = "sweep" => listed \ D = listed
  <2>1. CASE BackupPlan
    <3>1. Condemned(listed, MaxAge) = D
      BY <2>1, CondemnedAreSpent DEF BackupPlan, AtBackups
    <3>2. step' = [Resting EXCEPT !.pc = "unlink", !.doomed = D, !.keep = listed \ D, !.auto = TRUE]
      BY <2>1, <3>1 DEF BackupPlan, Begin, Survivors
    <3> HIDE DEF D
    <3>3. step' = [pc |-> "unlink", id |-> 0, doomed |-> D, keep |-> listed \ D, auto |-> TRUE]
      BY <3>2 DEF Resting
    <3> QED
      BY <3>3
  <2>2. CASE OutputPlan
    <3>1. Keep = listed \ D
      BY <2>2, KeptAreNotSpent DEF OutputPlan, AtOutputs
    <3>2. listed \ Keep = D
      BY <1>2, <3>1
    <3>3. PICK p \in {"unlink", "sweep"} :
            /\ step' = [step EXCEPT !.pc = p, !.doomed = D, !.keep = listed \ D]
            /\ p = "sweep" => listed \ D = listed
      BY <2>2, <3>1, <3>2 DEF OutputPlan
    <3>4. step \in StepType(StoreStages)
      BY DEF StoreInv, StoreTypeOK, StepType, StoreStages
    <3> HIDE DEF D
    <3>5. step' = [pc |-> p, id |-> step.id, doomed |-> D, keep |-> listed \ D, auto |-> TRUE]
      BY <1>1, <3>3, <3>4 DEF StepType
    <3> QED
      BY <1>1, <3>3, <3>5
  <2> QED
    BY <2>1, <2>2
<1>4. /\ step'.pc \in {"unlink", "sweep"} /\ step'.doomed = D /\ step'.keep = listed \ D /\ step'.auto
      /\ step'.pc = "sweep" => listed \ D = listed
      /\ step' \in StepType({"unlink", "sweep"})
  <2> HIDE DEF D
  <2> QED
    BY <1>2, <1>3 DEF StepType
<1>5. StoreTypeOK'
  BY <1>1, <1>4 DEF StoreInv, StoreTypeOK, StepType
<1>6. LinesAreAppended'
  BY <1>1, <1>4 DEF StoreInv, LinesAreAppended
<1>7. /\ Spent(listed)' = D /\ (Exempt' <=> Exempt)
      /\ ~Exempt => listed \ D \subseteq files
  BY <1>1, QuietStep DEF StoreInv, MissingAreSpent
<1>8. Trim(step.keep)'
  <2>1. Trim(listed \ D)
    BY KeptAreTrim
  <2>2. PICK K : K = listed \ D
    OBVIOUS
  <2>3. Trim(K)'
    BY <1>1, <2>1, <2>2, QuietStep
  <2>4. step'.keep = K
    BY <1>4, <2>2
  <2> QED
    BY <2>3, <2>4 DEF Trim, SameKind, Age
<1>9. PassIsSound'
  <2>1. CASE step'.pc = "unlink"
    BY <1>1, <1>2, <1>4, <1>7, <1>8, <2>1 DEF PassIsSound
  <2>2. CASE step'.pc = "sweep"
    <3>1. Trim(listed)'
      BY <1>1, <1>4, <1>8, <2>2 DEF Trim, SameKind, Age
    <3> QED
      BY <1>1, <1>2, <1>4, <1>7, <2>2, <3>1 DEF PassIsSound
  <2> QED
    BY <1>4, <2>1, <2>2
<1>10. MissingAreSpent'
  BY <1>1, <1>7 DEF StoreInv, MissingAreSpent
<1> QED
  BY <1>1, <1>5, <1>6, <1>9, <1>10, StepOfPass

(* Somebody asks for entries to be deleted.                                *)
LEMMA RequestKeeps ==
  ASSUME StoreInv, BackupPrune \/ CaptureDelete \/ CapturePurge
  PROVE  StoreInv'
<1>1. /\ UNCHANGED <<store, listed, torn, tail, files, made, today, appended, swallowed>>
      /\ passDay' = 0 /\ MadeIds' = MadeIds
  BY DEF BackupPrune, CaptureDelete, CapturePurge, MadeIds
<1>2. PICK D \in SUBSET listed :
        /\ step' = [Resting EXCEPT !.pc = "unlink", !.doomed = D, !.keep = listed \ D, !.auto = FALSE]
        /\ byHand' = byHand \cup D
  <2>1. CASE BackupPrune
    <3>1. PICK ks : \E D \in {{i \in listed : made[i].kind \in ks}} \cup
                             {Condemned({i \in listed : made[i].kind \in ks}, days) : days \in 0..MaxAge} :
                      Begin(D, FALSE) /\ byHand' = byHand \cup D
      BY <2>1 DEF BackupPrune
    <3>2. ASSUME NEW days PROVE Condemned({i \in listed : made[i].kind \in ks}, days) \subseteq listed
      BY DEF Condemned, TooOld, OverCap
    <3> QED
      BY <3>1, <3>2 DEF Begin, Survivors
  <2>2. CASE CaptureDelete
    BY <2>2 DEF CaptureDelete
  <2>3. CASE CapturePurge
    BY <2>3 DEF CapturePurge
  <2> QED
    BY <2>1, <2>2, <2>3
<1>3. listed \subseteq MadeIds /\ D \subseteq MadeIds
  BY DEF StoreInv, StoreTypeOK
<1>4. step' = [pc |-> "unlink", id |-> 0, doomed |-> D, keep |-> listed \ D, auto |-> FALSE]
  BY <1>2 DEF Resting
<1>5. /\ step'.pc = "unlink" /\ step'.doomed = D /\ step'.keep = listed \ D /\ ~step'.auto
      /\ step' \in StepType({"unlink"})
  BY <1>3, <1>4 DEF StepType
<1>6. StoreTypeOK'
  BY <1>1, <1>2, <1>3, <1>5 DEF StoreInv, StoreTypeOK, StepType
<1>7. DaysInOrder'
  BY <1>1 DEF StoreInv, DaysInOrder
<1>8. LinesAreAppended'
  BY <1>1, <1>5 DEF StoreInv, LinesAreAppended
<1>9. MadeStays
  BY <1>1 DEF MadeStays, StoreInv, StoreTypeOK
<1>10. RetentionKeepsNewest'
  BY <1>1, <1>2, <1>6, <1>9, RetentionKept DEF StoreInv, LinesAreAppended, RetentionKeepsNewest, Displaced
<1>11. PassIsSound'
  BY <1>1, <1>2, <1>5 DEF PassIsSound
<1>12. MissingAreSpent'
  BY <1>1, <1>2, <1>6, <1>9, SpentStays DEF StoreInv, MissingAreSpent, Exempt
<1> QED
  BY <1>1, <1>6, <1>7, <1>8, <1>10, <1>11, <1>12, NoPass DEF StoreInv

(* A pass gives up.                                                        *)
LEMMA GivingUpKeeps ==
  ASSUME StoreInv, BackupRewriteFails \/ OutputUnlinkFails
  PROVE  StoreInv'
<1>1. /\ UNCHANGED <<store, listed, torn, tail, files, made, today, appended, byHand, swallowed>>
      /\ passDay' = 0 /\ MadeIds' = MadeIds
  BY MidPass DEF BackupRewriteFails, OutputUnlinkFails, MadeIds
<1>2. \E p \in {"idle", "down"} : step' = [pc |-> p, id |-> 0, doomed |-> {}, keep |-> {}, auto |-> TRUE]
  BY DEF BackupRewriteFails, OutputUnlinkFails, Resting
<1>3. step'.pc \in {"idle", "down"} /\ step' \in StepType({"idle", "down"})
  BY <1>2 DEF StepType
<1>4. StoreTypeOK'
  <2>1. passDay' \in 0..today'
    BY <1>1 DEF StoreInv, StoreTypeOK
  <2> QED
    BY <1>1, <1>3, <2>1 DEF StoreInv, StoreTypeOK, StepType
<1>5. LinesAreAppended' /\ PassIsSound'
  BY <1>1, <1>3 DEF StoreInv, LinesAreAppended, PassIsSound
<1>6. MissingAreSpent'
  BY <1>1, QuietStep DEF StoreInv, MissingAreSpent
<1> QED
  BY <1>1, <1>4, <1>5, <1>6, StepOfPass

(* A pass replaces the manifest.                                           *)
LEMMA RewriteKeeps ==
  ASSUME StoreInv, BackupRewrite \/ OutputRewrite
  PROVE  StoreInv'
<1>1. /\ step.pc = "unlink" /\ passDay = 0 /\ step \in StepType(StoreStages)
      /\ listed' = step.keep /\ torn' = FALSE /\ tail' = 0
      /\ UNCHANGED <<store, files, made, today, appended, byHand, swallowed>>
      /\ MadeIds' = MadeIds /\ today \in Nat
  BY MidPass DEF BackupRewrite, OutputRewrite, MayRewrite, Replace, StoreInv, StoreTypeOK, StepType, StoreStages, MadeIds
<1>2. /\ step'.pc \in {"idle", "sweep"} /\ step' \in StepType({"idle", "sweep"})
      /\ step'.pc = "sweep" => step.auto /\ step'.auto /\ step'.keep = step.keep /\ passDay' = 0
      /\ passDay' \in {0, today}
      /\ passDay' # 0 => step.auto /\ step'.pc = "idle" /\ store = "backup"
  <2>1. CASE BackupRewrite
    <3>1. step' = [pc |-> "idle", id |-> 0, doomed |-> {}, keep |-> {}, auto |-> TRUE]
      BY <2>1 DEF BackupRewrite, Resting
    <3> QED
      BY <2>1, <3>1 DEF BackupRewrite, AtBackups, StepType
  <2>2. CASE OutputRewrite
    <3>1. CASE step.auto
      <4>1. step' = [step EXCEPT !.pc = "sweep"]
        BY <2>2, <3>1 DEF OutputRewrite
      <4> QED
        BY <1>1, <2>2, <3>1, <4>1 DEF OutputRewrite, StepType
    <3>2. CASE ~step.auto
      <4>1. step' = [pc |-> "idle", id |-> 0, doomed |-> {}, keep |-> {}, auto |-> TRUE]
        BY <2>2, <3>2 DEF OutputRewrite, Resting
      <4>2. step' \in StepType({"idle", "sweep"}) /\ step'.pc = "idle"
        BY <4>1 DEF StepType
      <4>3. passDay' = 0
        BY <1>1, <2>2 DEF OutputRewrite
      <4> QED
        BY <4>2, <4>3
    <3> QED
      BY <3>1, <3>2
  <2> QED
    BY <2>1, <2>2
<1>3. /\ step.keep \subseteq listed /\ listed \subseteq MadeIds /\ listed \subseteq appended
      /\ listed \ step.keep \subseteq IF step.auto THEN Spent(listed) ELSE byHand
      /\ step.auto => Trim(step.keep)
      /\ step.auto /\ ~Exempt => step.keep \subseteq files
  BY <1>1 DEF StoreInv, StoreTypeOK, LinesAreAppended, PassIsSound
<1>4. StoreTypeOK'
  <2>1. passDay' \in 0..today'
    BY <1>1, <1>2
  <2> QED
    BY <1>1, <1>2, <1>3, <2>1 DEF StoreInv, StoreTypeOK, StepType
<1>5. DaysInOrder'
  BY <1>1 DEF StoreInv, DaysInOrder
<1>6. LinesAreAppended'
  BY <1>1, <1>2, <1>3 DEF StoreInv, LinesAreAppended
<1>7. MadeStays
  BY <1>1 DEF MadeStays
<1>8. RetentionKeepsNewest'
  <2>1. ASSUME NEW i \in appended' \ (listed' \cup byHand' \cup swallowed')
        PROVE  i \in appended /\ (i \in listed => Displaced(i))
    BY <1>1, <1>3, SpentIsDisplaced
  <2> QED
    BY <1>1, <1>4, <1>7, <2>1, RetentionKept
<1>9. Exempt' <=> Exempt
  BY <1>1 DEF Exempt
<1>10. (step.auto /\ ~Exempt => listed' \subseteq files') /\ (~step.auto /\ ~Exempt => listed' = listed)
  BY <1>1, <1>3 DEF Exempt
<1>11. MissingAreSpent'
  <2>1. CASE step.auto
    BY <1>9, <1>10, <2>1 DEF MissingAreSpent
  <2>2. CASE ~step.auto /\ ~Exempt
    <3>1. Spent(listed)' = Spent(listed)
      BY <1>1, <1>10, <2>2, QuietStep
    <3> QED
      BY <1>1, <1>9, <1>10, <2>2, <3>1 DEF StoreInv, MissingAreSpent
  <2> QED
    BY <1>9, <2>1, <2>2 DEF MissingAreSpent
<1>12. step.auto => Trim(listed)'
  BY <1>1, <1>3 DEF Trim, SameKind, Age
<1>13. PassIsSound'
  BY <1>1, <1>2, <1>9, <1>10, <1>12 DEF PassIsSound
<1>14. PassStands' /\ ListedFilesExist'
  BY <1>1, <1>2, <1>9, <1>10 DEF PassStands, ListedFilesExist, Exempt
<1>15. NothingPilesUp'
  <2>1. ASSUME passDay' > 0, NEW i \in listed'
        PROVE  /\ Cardinality({j \in listed' : store' = "backup" => made'[j].kind = made'[i].kind}) <= Cap
               /\ made'[i].day + MaxAge >= passDay'
    <3>1. passDay' = today /\ Trim(listed)'
      BY <1>1, <1>2, <1>12, <2>1
    <3>2. made[i].day \in Nat /\ MaxAge \in Nat
      BY <1>1, <1>3, MadeIs, StoreAssumption DEF StoreInv
    <3>3. today - made[i].day <= MaxAge
      BY <1>1, <3>1 DEF Trim, Age
    <3>4. made[i].day + MaxAge >= today
      BY <1>1, <3>2, <3>3
    <3> QED
      BY <1>1, <3>1, <3>4 DEF Trim, SameKind
  <2>2. passDay' > 0 => store' = "backup"
    BY <1>1, <1>2
  <2> QED
    BY <2>1, <2>2 DEF NothingPilesUp
<1> QED
  BY <1>4, <1>5, <1>6, <1>8, <1>11, <1>13, <1>14, <1>15 DEF StoreInv

(* Files nothing lists are swept.                                          *)
LEMMA SweepKeeps ==
  ASSUME StoreInv, Sweep
  PROVE  StoreInv'
<1>1. /\ step.pc = "sweep" /\ step.keep = listed /\ Trim(listed) /\ (~Exempt => listed \subseteq files)
      /\ UNCHANGED <<store, listed, torn, tail, made, today, appended, byHand, swallowed>>
      /\ files' = files \cap listed /\ passDay' = today /\ today \in Nat /\ MadeIds' = MadeIds
      /\ listed \subseteq MadeIds
  BY DEF Sweep, Swept, StoreInv, StoreTypeOK, PassIsSound, MadeIds
<1>2. step' = [pc |-> "idle", id |-> 0, doomed |-> {}, keep |-> {}, auto |-> TRUE]
  BY DEF Sweep, Resting
<1>3. step'.pc = "idle" /\ step' \in StepType({"idle"})
  BY <1>2 DEF StepType
<1>4. StoreTypeOK'
  <2>1. passDay' \in 0..today'
    BY <1>1
  <2> QED
    BY <1>1, <1>3, <2>1 DEF StoreInv, StoreTypeOK, StepType
<1>5. LinesAreAppended' /\ PassIsSound' /\ PassStands'
  BY <1>1, <1>3 DEF StoreInv, LinesAreAppended, PassIsSound, PassStands
<1>6. MissingAreSpent'
  BY <1>1, QuietStep DEF MissingAreSpent
<1>7. ListedFilesExist'
  BY <1>1 DEF ListedFilesExist, Exempt
<1>8. NothingPilesUp'
  <2> SUFFICES ASSUME NEW i \in listed'
               PROVE  /\ Cardinality({j \in listed' : store' = "backup" => made'[j].kind = made'[i].kind}) <= Cap
                      /\ made'[i].day + MaxAge >= passDay'
    BY <1>1 DEF NothingPilesUp
  <2>1. made[i].day \in Nat /\ MaxAge \in Nat
    BY <1>1, MadeIs, StoreAssumption DEF StoreInv
  <2>2. today - made[i].day <= MaxAge
    BY <1>1 DEF Trim, Age
  <2>3. made[i].day + MaxAge >= today
    BY <1>1, <2>1, <2>2
  <2> QED
    BY <1>1, <2>3 DEF Trim, SameKind
<1> QED
  BY <1>1, <1>4, <1>5, <1>6, <1>7, <1>8, QuietStep DEF StoreInv

(* A note is written.                                                      *)
LEMMA AnnotateKeeps ==
  ASSUME StoreInv, CaptureAnnotate
  PROVE  StoreInv'
<1>1. /\ UNCHANGED <<store, listed, files, made, today, step, appended, byHand, swallowed, passDay>>
      /\ torn' = FALSE /\ tail' = 0 /\ MadeIds' = MadeIds /\ step.pc = "idle"
  BY DEF CaptureAnnotate, Replace, MadeIds
<1>2. StoreTypeOK' /\ LinesAreAppended' /\ PassIsSound' /\ PassStands'
  BY <1>1 DEF StoreInv, StoreTypeOK, LinesAreAppended, PassIsSound, PassStands
<1>3. MissingAreSpent'
  BY <1>1, QuietStep DEF StoreInv, MissingAreSpent
<1>4. ListedFilesExist' /\ NothingPilesUp'
  BY <1>1 DEF StoreInv, ListedFilesExist, NothingPilesUp
<1> QED
  BY <1>1, <1>2, <1>3, <1>4, QuietStep DEF StoreInv

(* Every step of the three stores keeps the invariant.                     *)
LEMMA StoreStepKeeps ==
  ASSUME StoreInv, [StoreNext]_storeVars
  PROVE  StoreInv'
<1>1. CASE UNCHANGED storeVars
  <2>1. UNCHANGED <<store, listed, torn, tail, files, made, today, step, appended, byHand, swallowed, passDay>>
    BY <1>1 DEF storeVars
  <2>2. StoreTypeOK' /\ LinesAreAppended' /\ PassStands' /\ ListedFilesExist' /\ NothingPilesUp'
    BY <2>1 DEF StoreInv, StoreTypeOK, MadeIds, LinesAreAppended, PassStands, ListedFilesExist, NothingPilesUp
  <2>3. /\ Spent(listed)' = Spent(listed) /\ (Exempt' <=> Exempt)
        /\ (Trim(step.keep)' <=> Trim(step.keep)) /\ (Trim(listed)' <=> Trim(listed))
    BY <2>1, QuietStep
  <2>4. PassIsSound' /\ MissingAreSpent'
    BY <2>1, <2>3 DEF StoreInv, PassIsSound, MissingAreSpent
  <2> QED
    BY <2>1, <2>2, <2>4, QuietStep DEF StoreInv
<1>2. CASE BackupNext
  BY <1>2, MakeFileKeeps, AppendKeeps, PlanKeeps, RequestKeeps, UnlinkKeeps, RewriteKeeps, GivingUpKeeps
  DEF BackupNext, BackupCopy, BackupAppend, BackupAppendBreaks, BackupUnlink
<1>3. CASE OutputNext
  BY <1>3, MakeFileKeeps, AppendKeeps, PlanKeeps, RequestKeeps, UnlinkKeeps, RewriteKeeps, GivingUpKeeps,
     SweepKeeps, AnnotateKeeps
  DEF OutputNext, CaptureSave, ShellSave, OutputAppend, OutputAppendBreaks, OutputUnlink
<1> QED
  BY <1>1, <1>2, <1>3, ServerKeeps, TomorrowKeeps DEF StoreNext

(* An empty store satisfies the invariant.                                 *)
LEMMA InitStores == StoreInit => StoreInv
<1> SUFFICES ASSUME StoreInit PROVE StoreInv
  OBVIOUS
<1>1. /\ listed = {} /\ files = {} /\ appended = {} /\ byHand = {} /\ swallowed = {} /\ made = <<>>
      /\ torn = FALSE /\ tail = 0 /\ today = 1 /\ passDay = 0 /\ store \in Stores
      /\ step = [pc |-> "idle", id |-> 0, doomed |-> {}, keep |-> {}, auto |-> TRUE]
  BY DEF StoreInit, Resting
<1>2. MadeIds = {}
  BY <1>1 DEF MadeIds
<1>3. StoreTypeOK
  <2> DEFINE Made == [kind : Kinds \cup {AnyKind}, day : Nat]
  <2>1. made \in Seq(Made)
    <3> HIDE DEF Made
    <3> QED
      BY <1>1
  <2>2. step \in [pc : {"idle", "append", "plan", "unlink", "sweep", "down"}, id : {0} \cup MadeIds,
                  doomed : SUBSET MadeIds, keep : SUBSET MadeIds, auto : BOOLEAN]
    BY <1>1
  <2>3. /\ store \in Stores /\ today \in Nat \ {0} /\ passDay \in 0..today
        /\ listed \cup files \cup appended \cup byHand \cup swallowed \subseteq MadeIds
        /\ torn \in BOOLEAN /\ tail \in {0} \cup MadeIds
    <3>1. store \in Stores /\ today \in Nat \ {0} /\ passDay \in 0..today
      BY <1>1
    <3>2. /\ listed \cup files \cup appended \cup byHand \cup swallowed \subseteq MadeIds
          /\ torn \in BOOLEAN /\ tail \in {0} \cup MadeIds
      BY <1>1, Zenon
    <3> QED
      BY <3>1, <3>2, Zenon
  <2> QED
    BY <2>1, <2>2, <2>3, Zenon DEF StoreTypeOK, Made
<1> QED
  BY <1>1, <1>2, <1>3 DEF StoreInv, DaysInOrder, LinesAreAppended, PassIsSound, MissingAreSpent, PassStands,
     RetentionKeepsNewest, ListedFilesExist, NothingPilesUp

(* In every state of a store.                                              *)
LEMMA StoreInvariant == StoreSpec => []StoreInv
<1>1. StoreInv /\ [StoreNext]_storeVars => StoreInv'
  BY StoreStepKeeps
<1> QED
  BY <1>1, InitStores, PTL DEF StoreSpec

(* Whatever a store was given stays listed until it is too old or enough   *)
(* newer entries displaced it: crashes, failing disks and broken lines     *)
(* take nothing else away.                                                 *)
THEOREM NothingIsLost == StoreSpec => []RetentionKeepsNewest
<1>1. StoreInv => RetentionKeepsNewest
  BY DEF StoreInv
<1> QED
  BY <1>1, StoreInvariant, PTL

(* After a retention pass the files of what is listed exist, at whatever   *)
(* point the passes before it were interrupted.                            *)
THEOREM ListedIsThere == StoreSpec => []ListedFilesExist
<1>1. StoreInv => ListedFilesExist
  BY DEF StoreInv
<1> QED
  BY <1>1, StoreInvariant, PTL

(* After a retention pass a store is within its limits, for any caps and   *)
(* ages, and captures and shell outputs have no stray files.               *)
THEOREM StoresStaySmall == StoreSpec => []NothingPilesUp
<1>1. StoreInv => NothingPilesUp
  BY DEF StoreInv
<1> QED
  BY <1>1, StoreInvariant, PTL

-----------------------------------------------------------------------------
(* ActivityLog                                                             *)

(* Bounded sets of numbers are finite.                                     *)
LEMMA BoundedSets ==
  ASSUME NEW n \in Nat
  PROVE  /\ \A S \in SUBSET (0..n) : IsFiniteSet(S) /\ Cardinality(S) \in Nat
         /\ \A S, T \in SUBSET (0..n) : T \subseteq S => Cardinality(T) <= Cardinality(S)
<1>1. IsFiniteSet(0..n)
  BY FS_Interval
<1>2. ASSUME NEW S \in SUBSET (0..n) PROVE IsFiniteSet(S) /\ Cardinality(S) \in Nat
  BY <1>1, FS_Subset, FS_CardinalityType
<1>3. ASSUME NEW S \in SUBSET (0..n), NEW T \in SUBSET (0..n), T \subseteq S
      PROVE  Cardinality(T) <= Cardinality(S)
  BY <1>2, <1>3, FS_Subset
<1> QED
  BY <1>2, <1>3

(* A bounded set of numbers that is not empty has a greatest one.          *)
LEMMA HasGreatest ==
  ASSUME NEW n \in Nat, NEW S \in SUBSET (0..n), S # {}
  PROVE  \E m \in S : \A i \in S : i <= m
<1> DEFINE R == {n - i : i \in S}
<1>1. R \in SUBSET Nat /\ R # {}
  <2>1. ASSUME NEW i \in S PROVE n - i \in Nat
    OBVIOUS
  <2>2. PICK i \in S : TRUE
    OBVIOUS
  <2>3. n - i \in R
    OBVIOUS
  <2> QED
    BY <2>1, <2>3
<1>2. PICK r \in R : \A q \in R : r <= q
  <2> HIDE DEF R
  <2> QED
    BY <1>1, HasLeast
<1>3. PICK m \in S : r = n - m
  BY <1>2
<1>4. ASSUME NEW i \in S PROVE i <= m
  <2>1. n - i \in R
    OBVIOUS
  <2>2. n - m <= n - i
    BY <1>2, <1>3, <2>1
  <2> QED
    BY <2>2
<1> QED
  BY <1>4

(* What is not among the newest is older than k of them.                   *)
LEMMA OlderThanTheNewest ==
  ASSUME NEW n \in Nat, NEW S \in SUBSET (0..n), NEW k \in Nat, NEW x \in S \ Newest(S, k)
  PROVE  Cardinality({j \in Newest(S, k) : j > x}) >= k
<1> DEFINE Old == S \ Newest(S, k)
<1>1. Old \in SUBSET (0..n) /\ Old # {}
  OBVIOUS
<1>2. PICK y \in Old : \A i \in Old : i <= y
  <2> HIDE DEF Old
  <2> QED
    BY <1>1, HasGreatest
<1> DEFINE After == {j \in S : j > y}
           Here  == {j \in Newest(S, k) : j > x}
<1>3. After \in SUBSET (0..n) /\ Here \in SUBSET (0..n)
  BY DEF Newest
<1>4. After \subseteq Here
  <2>1. ASSUME NEW j \in After PROVE j \in Newest(S, k) /\ j > x
    <3>1. j \in S /\ j > y /\ j \in Nat /\ y \in Nat /\ x \in Nat
      BY <1>2
    <3>2. j \notin Old
      BY <1>2, <3>1
    <3>3. x <= y
      BY <1>2
    <3> QED
      BY <3>1, <3>2, <3>3
  <2> QED
    BY <2>1
<1>5. ~(Cardinality(After) < k)
  BY <1>2 DEF Newest
<1>6. Cardinality(After) <= Cardinality(Here) /\ Cardinality(After) \in Nat /\ Cardinality(Here) \in Nat
  <2> HIDE DEF After, Here
  <2> QED
    BY <1>3, <1>4, BoundedSets
<1>7. Cardinality(Here) >= k
  <2> HIDE DEF After, Here
  <2> QED
    BY <1>5, <1>6
<1> QED
  BY <1>7

(* Of k or more there are k newest.                                        *)
LEMMA ManyNewest ==
  ASSUME NEW n \in Nat, NEW S \in SUBSET (0..n), NEW k \in Nat, Cardinality(S) >= k
  PROVE  Cardinality(Newest(S, k)) >= k
<1>1. CASE Newest(S, k) = S
  BY <1>1
<1>2. ASSUME NEW x \in S \ Newest(S, k) PROVE Cardinality(Newest(S, k)) >= k
  <2> DEFINE Foremost == Newest(S, k)
             Here  == {j \in Newest(S, k) : j > x}
  <2>1. Here \subseteq Foremost /\ Foremost \in SUBSET (0..n) /\ Here \in SUBSET (0..n)
    BY DEF Newest
  <2>2. Cardinality(Here) >= k
    BY OlderThanTheNewest
  <2>3. Cardinality(Here) <= Cardinality(Foremost) /\ Cardinality(Here) \in Nat /\ Cardinality(Foremost) \in Nat
    <3> HIDE DEF Foremost, Here
    <3> QED
      BY <2>1, BoundedSets
  <2>4. Cardinality(Foremost) >= k
    <3> HIDE DEF Foremost, Here
    <3> QED
      BY <2>2, <2>3
  <2> QED
    BY <2>4
<1> QED
  BY <1>1, <1>2 DEF Newest

(* The newest of a part are the newest of the whole, if every other entry  *)
(* is older than k of that part.                                           *)
LEMMA NewestOfAPart ==
  ASSUME NEW n \in Nat, NEW S \in SUBSET (0..n), NEW A \in SUBSET S, NEW k \in Nat,
         \A x \in S \ A : Cardinality({j \in A : j > x}) >= k
  PROVE  Newest(A, k) = Newest(S, k)
<1>1. ASSUME NEW x \in S
      PROVE  /\ Cardinality({j \in A : j > x}) <= Cardinality({j \in S : j > x})
             /\ Cardinality({j \in A : j > x}) \in Nat /\ Cardinality({j \in S : j > x}) \in Nat
  <2> DEFINE InA == {j \in A : j > x}
             InS == {j \in S : j > x}
  <2>1. InA \subseteq InS /\ InA \in SUBSET (0..n) /\ InS \in SUBSET (0..n)
    OBVIOUS
  <2>2. Cardinality(InA) <= Cardinality(InS) /\ Cardinality(InA) \in Nat /\ Cardinality(InS) \in Nat
    <3> HIDE DEF InA, InS
    <3> QED
      BY <2>1, BoundedSets
  <2> QED
    BY <2>2
<1>2. ASSUME NEW x \in Newest(A, k) PROVE x \in Newest(S, k)
  <2>1. x \in A /\ x \in S /\ Cardinality({j \in A : j > x}) < k
    BY DEF Newest
  <2>2. CASE {j \in S : j > x} \subseteq A
    <3>1. {j \in S : j > x} = {j \in A : j > x}
      BY <2>2
    <3> QED
      BY <2>1, <3>1 DEF Newest
  <2>3. ASSUME NEW y \in S \ A, y > x PROVE FALSE
    <3> DEFINE AfterY == {j \in A : j > y}
               AfterX == {j \in A : j > x}
    <3>1. AfterY \subseteq AfterX /\ AfterY \in SUBSET (0..n) /\ AfterX \in SUBSET (0..n)
      <4>1. x \in Nat /\ y \in Nat /\ A \subseteq 0..n
        BY <2>1, <2>3
      <4>2. \A j \in A : j > y => j > x
        BY <2>3, <4>1
      <4> QED
        BY <4>1, <4>2
    <3>2. Cardinality(AfterY) <= Cardinality(AfterX) /\ Cardinality(AfterY) \in Nat /\ Cardinality(AfterX) \in Nat
      <4> HIDE DEF AfterX, AfterY
      <4> QED
        BY <3>1, BoundedSets
    <3>3. Cardinality(AfterY) >= k /\ Cardinality(AfterX) < k
      BY <2>1
    <3> HIDE DEF AfterX, AfterY
    <3> QED
      BY <3>2, <3>3
  <2> QED
    BY <2>2, <2>3
<1>3. ASSUME NEW x \in Newest(S, k) PROVE x \in Newest(A, k)
  <2>1. x \in S /\ Cardinality({j \in S : j > x}) < k
    BY DEF Newest
  <2>2. Cardinality({j \in A : j > x}) < k
    BY <1>1, <2>1
  <2>3. x \in A
    BY <1>1, <2>1, <2>2
  <2> QED
    BY <2>2, <2>3 DEF Newest
<1> QED
  BY <1>2, <1>3

-----------------------------------------------------------------------------
(* Later lines have later numbers.                                         *)
Rising(lines) ==
  \A i, j \in DOMAIN lines : i < j /\ lines[i] # 0 /\ lines[j] # 0 => lines[i] < lines[j]

(* The lines of a file: numbers up to that of the last entry, in order.    *)
LinesOK(lines, n) ==
  /\ lines \in Seq(Nat) /\ Rising(lines)
  /\ \A i \in DOMAIN lines : lines[i] <= n

(* Both files are in order, and one that ends in the middle of a line has  *)
(* that line.                                                              *)
LogInv ==
  /\ logged \in Nat
  /\ LinesOK(operations, logged) /\ LinesOK(activity, logged)
  /\ cut \subseteq {"operations", "activity"}
  /\ "operations" \in cut => operations # <<>>
  /\ "activity" \in cut => activity # <<>>

(* Appending a line keeps the order.                                       *)
LEMMA AppendOK ==
  ASSUME NEW lines, NEW n \in Nat, LinesOK(lines, n), NEW l \in {0, n + 1}
  PROVE  LinesOK(Append(lines, l), n + 1) /\ Append(lines, l) # <<>>
<1>1. lines \in Seq(Nat) /\ Len(lines) \in Nat /\ DOMAIN lines = 1..Len(lines)
      /\ \A i \in DOMAIN lines : lines[i] \in Nat /\ lines[i] <= n
  BY DEF LinesOK
<1> DEFINE new == Append(lines, l)
<1>2. /\ new \in Seq(Nat) /\ DOMAIN new = 1..(Len(lines) + 1) /\ new # <<>>
      /\ \A i \in 1..(Len(lines) + 1) : new[i] = IF i \in DOMAIN lines THEN lines[i] ELSE l
  <2>1. l \in Nat
    OBVIOUS
  <2>2. new \in Seq(Nat) /\ Len(new) = Len(lines) + 1
    BY <1>1, <2>1
  <2>3. \A i \in 1..(Len(lines) + 1) : new[i] = IF i \in DOMAIN lines THEN lines[i] ELSE l
    BY <1>1, <2>1
  <2>4. DOMAIN new = 1..(Len(lines) + 1) /\ new # <<>>
    <3> HIDE DEF new
    <3> QED
      BY <1>1, <2>2
  <2> QED
    BY <2>2, <2>3, <2>4
<1> HIDE DEF new
<1>3. \A i \in DOMAIN new : new[i] <= n + 1
  BY <1>1, <1>2
<1>4. ASSUME NEW i \in DOMAIN new, NEW j \in DOMAIN new, i < j, new[i] # 0, new[j] # 0
      PROVE  new[i] < new[j]
  <2>1. i \in DOMAIN lines
    BY <1>1, <1>2, <1>4
  <2>2. CASE j \in DOMAIN lines
    BY <1>2, <1>4, <2>1, <2>2 DEF LinesOK, Rising
  <2>3. CASE j \notin DOMAIN lines
    BY <1>1, <1>2, <1>4, <2>1, <2>3
  <2> QED
    BY <2>2, <2>3
<1>5. LinesOK(new, n + 1) /\ new # <<>>
  BY <1>2, <1>3, <1>4 DEF LinesOK, Rising
<1> QED
  BY <1>5 DEF new

(* So does losing it with the one it joins.                                *)
LEMMA JoinOK ==
  ASSUME NEW lines, NEW n \in Nat, LinesOK(lines, n), lines # <<>>
  PROVE  LinesOK([lines EXCEPT ![Len(lines)] = 0], n + 1) /\ [lines EXCEPT ![Len(lines)] = 0] # <<>>
<1>1. lines \in Seq(Nat) /\ Len(lines) \in Nat /\ DOMAIN lines = 1..Len(lines) /\ Len(lines) \in DOMAIN lines
      /\ \A i \in DOMAIN lines : lines[i] \in Nat /\ lines[i] <= n
  BY DEF LinesOK
<1> DEFINE new == [lines EXCEPT ![Len(lines)] = 0]
<1>2. new \in Seq(Nat) /\ DOMAIN new = DOMAIN lines /\ new # <<>>
      /\ \A i \in DOMAIN lines : new[i] = IF i = Len(lines) THEN 0 ELSE lines[i]
  BY <1>1
<1> HIDE DEF new
<1>3. Rising(new)
  BY <1>2 DEF Rising, LinesOK
<1>4. \A i \in DOMAIN new : new[i] <= n + 1
  BY <1>1, <1>2
<1>5. LinesOK(new, n + 1) /\ new # <<>>
  BY <1>2, <1>3, <1>4 DEF LinesOK
<1> QED
  BY <1>5 DEF new

(* A file that is left alone stays in order as entries are numbered on.    *)
LEMMA OldLinesOK ==
  ASSUME NEW lines, NEW n \in Nat, LinesOK(lines, n)
  PROVE  LinesOK(lines, n + 1)
<1>1. \A i \in DOMAIN lines : lines[i] \in Nat /\ lines[i] <= n
  BY DEF LinesOK
<1>2. \A i \in DOMAIN lines : lines[i] <= n + 1
  BY <1>1
<1> QED
  BY <1>2 DEF LinesOK

(* An empty file is in order.                                              *)
LEMMA EmptyOK == \A n : LinesOK(<<>>, n)
  BY DEF LinesOK, Rising

(* The logs start empty.                                                  *)
LEMMA LogStarts == LogInit => LogInv
  BY EmptyOK DEF LogInit, LogInv

(* Lines that break off, rotations and clearing keep both files in order.  *)
LEMMA LoggingKeeps ==
  ASSUME LogInv, [LogNext]_logVars
  PROVE  LogInv'
<1>1. CASE UNCHANGED logVars
  BY <1>1 DEF logVars, LogInv, LinesOK, Rising
<1>2. CASE LogOperation
  <2>1. PICK l \in {0, Number} :
          /\ operations' = WithLine(operations, "operations" \in cut, l)
          /\ cut' \subseteq cut \cup {"operations"}
    BY <1>2 DEF LogOperation
  <2>2. logged' = logged + 1 /\ activity' = activity
    BY <1>2 DEF LogOperation, Number
  <2>3. LinesOK(operations', logged') /\ operations' # <<>>
    <3>1. CASE "operations" \in cut
      BY <2>1, <2>2, <3>1, JoinOK DEF LogInv, WithLine
    <3>2. CASE "operations" \notin cut
      BY <2>1, <2>2, <3>2, AppendOK DEF LogInv, WithLine, Number
    <3> QED
      BY <3>1, <3>2
  <2>4. LinesOK(activity', logged')
    BY <2>2, OldLinesOK DEF LogInv
  <2> QED
    BY <2>1, <2>2, <2>3, <2>4 DEF LogInv
<1>3. CASE LogActivity
  <2>1. PICK now \in {NoRotation, Rotation}, l \in {0, Number} :
          /\ activity' = WithLine(now.activity, "activity" \in now.cut, l)
          /\ cut' \subseteq now.cut \cup {"activity"}
    BY <1>3 DEF LogActivity
  <2>2. logged' = logged + 1 /\ operations' = operations
    BY <1>3 DEF LogActivity, Number
  <2>3. /\ LinesOK(now.activity, logged) /\ now.cut \subseteq cut
        /\ "activity" \in now.cut => now.activity # <<>>
    BY <2>1, EmptyOK DEF LogInv, NoRotation, Rotation
  <2>4. LinesOK(activity', logged') /\ activity' # <<>>
    <3>1. CASE "activity" \in now.cut
      BY <2>1, <2>2, <2>3, <3>1, JoinOK DEF LogInv, WithLine
    <3>2. CASE "activity" \notin now.cut
      BY <2>1, <2>2, <2>3, <3>2, AppendOK DEF LogInv, WithLine, Number
    <3> QED
      BY <3>1, <3>2
  <2>5. LinesOK(operations', logged')
    BY <2>2, OldLinesOK DEF LogInv
  <2>6. cut' \subseteq cut \cup {"activity"}
    BY <2>1, <2>3
  <2> QED
    BY <2>2, <2>4, <2>5, <2>6 DEF LogInv
<1>4. CASE ClearLog
  BY <1>4, EmptyOK DEF ClearLog, LogInv
<1> QED
  BY <1>1, <1>2, <1>3, <1>4 DEF LogNext

-----------------------------------------------------------------------------
(* What the tail of a file leaves out is older than Limit entries of it.   *)
LEMMA TailHasTheNewest ==
  ASSUME NEW lines, NEW n \in Nat, LinesOK(lines, n), Broken(lines) <= Limit
  PROVE  /\ Entries(lines) \subseteq 0..n /\ TailRead(lines) \subseteq Entries(lines)
         /\ \A x \in Entries(lines) \ TailRead(lines) : Cardinality({t \in TailRead(lines) : t > x}) >= Limit
<1> DEFINE last  == LastLines(lines, 2 * Limit)
           valid == Valid(lines, 2 * Limit)
           kept  == Newest(valid, Limit)
<1>1. Limit \in Nat /\ 2 * Limit \in Nat
  BY LogAssumption
<1>2. /\ lines \in Seq(Nat) /\ Len(lines) \in Nat /\ DOMAIN lines = 1..Len(lines)
      /\ \A i \in DOMAIN lines : lines[i] \in Nat /\ lines[i] <= n
  BY DEF LinesOK
<1>3. /\ last \subseteq DOMAIN lines /\ valid \subseteq last /\ kept \subseteq valid
      /\ valid \in SUBSET (0..Len(lines)) /\ last \in SUBSET (0..Len(lines))
  BY <1>2 DEF LastLines, Valid, Newest
<1>4. Entries(lines) \subseteq 0..n
  BY <1>2 DEF Entries
<1>5. TailRead(lines) = {lines[i] : i \in kept}
  BY DEF TailRead
<1>6. TailRead(lines) \subseteq Entries(lines)
  BY <1>3, <1>5 DEF Entries, Valid
<1>7. ASSUME NEW x \in Entries(lines) \ TailRead(lines)
      PROVE  Cardinality({t \in TailRead(lines) : t > x}) >= Limit
  <2>1. PICK k \in DOMAIN lines : lines[k] = x /\ x # 0
    BY DEF Entries
  <2>2. k \notin kept
    BY <1>5, <2>1
  <2> DEFINE after == {j \in kept : j > k}
             later == {t \in TailRead(lines) : t > x}
  <2>3. Cardinality(after) >= Limit
    <3>1. CASE k \in valid
      <4> HIDE DEF valid
      <4> QED
        BY <1>1, <1>2, <1>3, <2>2, <3>1, OlderThanTheNewest
    <3>2. CASE k \notin valid
      <4>1. k <= Len(lines) - 2 * Limit
        BY <1>1, <1>2, <2>1, <3>2 DEF Valid, LastLines
      <4> DEFINE broken == {i \in last : lines[i] = 0}
      <4>2. last = (Len(lines) - 2 * Limit + 1)..Len(lines)
        BY <1>1, <1>2, <4>1 DEF LastLines
      <4>3. IsFiniteSet(last) /\ Cardinality(last) = 2 * Limit
        <5> DEFINE a == Len(lines) - 2 * Limit + 1
        <5>1. a \in Int /\ a <= Len(lines) + 1 /\ Len(lines) - a + 1 = 2 * Limit
          BY <1>1, <1>2, <4>1
        <5>2. IsFiniteSet(a..Len(lines))
              /\ Cardinality(a..Len(lines)) = IF a > Len(lines) THEN 0 ELSE Len(lines) - a + 1
          <6>1. a \in Int /\ Len(lines) \in Int
            BY <1>1, <1>2
          <6> HIDE DEF a
          <6> QED
            BY <6>1, FS_Interval
        <5> QED
          BY <1>1, <1>2, <4>2, <5>1, <5>2
      <4>4. last = valid \cup broken /\ valid \cap broken = {}
        BY DEF Valid
      <4>5. Cardinality(broken) <= Limit
        BY DEF Broken
      <4>6. Cardinality(valid) >= Limit
        <5> HIDE DEF last, valid, broken
        <5>1. IsFiniteSet(valid) /\ IsFiniteSet(broken)
          BY <4>3, <4>4, FS_Subset
        <5>2. Cardinality(last) = Cardinality(valid) + Cardinality(broken) - Cardinality(valid \cap broken)
          BY <4>4, <5>1, FS_Union
        <5>3. Cardinality(valid \cap broken) = 0
          BY <4>4, FS_EmptySet
        <5>4. Cardinality(valid) \in Nat /\ Cardinality(broken) \in Nat
          BY <5>1, FS_CardinalityType
        <5> QED
          BY <1>1, <4>3, <4>5, <5>2, <5>3, <5>4
      <4>7. Cardinality(kept) >= Limit
        <5> HIDE DEF valid
        <5> QED
          BY <1>1, <1>2, <1>3, <4>6, ManyNewest
      <4>8. after = kept
        <5>1. \A j \in last : j > k
          BY <1>1, <1>2, <4>1 DEF LastLines
        <5> QED
          BY <1>3, <5>1
      <4> QED
        BY <4>7, <4>8
    <3> QED
      BY <3>1, <3>2
  <2>4. /\ \A j \in after : lines[j] \in later
        /\ \A i, j \in after : i # j => lines[i] # lines[j]
    <3>1. ASSUME NEW j \in after PROVE j \in DOMAIN lines /\ j > k /\ lines[j] # 0 /\ lines[j] \in TailRead(lines)
      BY <1>3, <1>5 DEF Valid
    <3>2. ASSUME NEW j \in after PROVE lines[j] > x
      BY <1>2, <2>1, <3>1 DEF LinesOK, Rising
    <3>3. ASSUME NEW i \in after, NEW j \in after, i # j PROVE lines[i] # lines[j]
      <4>1. lines[i] \in Nat /\ lines[j] \in Nat /\ i \in Nat /\ j \in Nat
        BY <1>2, <3>1
      <4>2. i < j \/ j < i
        BY <3>3, <4>1
      <4> QED
        BY <3>1, <4>1, <4>2 DEF LinesOK, Rising
    <3> QED
      BY <3>1, <3>2, <3>3
  <2>5. IsFiniteSet(later) /\ IsFiniteSet(after)
    <3>1. later \in SUBSET (0..n) /\ after \in SUBSET (0..Len(lines))
      BY <1>3, <1>4, <1>6
    <3> HIDE DEF later, after
    <3> QED
      BY <1>2, <3>1, BoundedSets
  <2> HIDE DEF kept, after, later
  <2>6. Cardinality(after) <= Cardinality(later)
    <3> DEFINE f == [j \in after |-> lines[j]]
    <3>1. f \in Injection(after, later)
      BY <2>4 DEF Injection, IsInjective
    <3> HIDE DEF f
    <3> QED
      BY <2>5, <3>1, FS_Injection
  <2>7. Cardinality(after) \in Nat /\ Cardinality(later) \in Nat
    BY <2>5, FS_CardinalityType
  <2>8. Cardinality(later) >= Limit
    BY <1>1, <2>3, <2>6, <2>7
  <2> QED
    BY <2>8 DEF later
<1> QED
  BY <1>4, <1>6, <1>7

(* The tails of both files together hold the newest entries of both.       *)
LEMMA MergedIsNewest == LogInv => TimelineIsNewest
<1> SUFFICES ASSUME LogInv, Broken(operations) <= Limit, Broken(activity) <= Limit
             PROVE  Merged = Newest(Entries(operations) \cup Entries(activity), Limit)
  BY DEF TimelineIsNewest
<1> DEFINE S == Entries(operations) \cup Entries(activity)
           A == TailRead(operations) \cup TailRead(activity)
<1>1. /\ Entries(operations) \subseteq 0..logged /\ TailRead(operations) \subseteq Entries(operations)
      /\ \A x \in Entries(operations) \ TailRead(operations) :
           Cardinality({t \in TailRead(operations) : t > x}) >= Limit
  BY TailHasTheNewest DEF LogInv
<1>2. /\ Entries(activity) \subseteq 0..logged /\ TailRead(activity) \subseteq Entries(activity)
      /\ \A x \in Entries(activity) \ TailRead(activity) :
           Cardinality({t \in TailRead(activity) : t > x}) >= Limit
  BY TailHasTheNewest DEF LogInv
<1>3. S \in SUBSET (0..logged) /\ A \in SUBSET S /\ logged \in Nat /\ Limit \in Nat
  BY <1>1, <1>2, LogAssumption DEF LogInv
<1>4. ASSUME NEW T, T = TailRead(operations) \/ T = TailRead(activity), NEW x \in S,
             Cardinality({t \in T : t > x}) >= Limit
      PROVE  Cardinality({j \in A : j > x}) >= Limit
  <2> DEFINE inT == {t \in T : t > x}
             inA == {j \in A : j > x}
  <2>1. inT \subseteq inA /\ inT \in SUBSET (0..logged) /\ inA \in SUBSET (0..logged)
    BY <1>3, <1>4
  <2>2. Cardinality(inT) <= Cardinality(inA) /\ Cardinality(inT) \in Nat /\ Cardinality(inA) \in Nat
    <3> HIDE DEF inT, inA
    <3> QED
      BY <1>3, <2>1, BoundedSets
  <2>3. Cardinality(inT) >= Limit
    BY <1>4
  <2>4. Cardinality(inA) >= Limit
    <3> HIDE DEF inT, inA
    <3> QED
      BY <1>3, <2>2, <2>3
  <2> QED
    BY <2>4
<1>5. \A x \in S \ A : Cardinality({j \in A : j > x}) >= Limit
  BY <1>1, <1>2, <1>4
<1>6. Newest(A, Limit) = Newest(S, Limit)
  <2> HIDE DEF A, S
  <2> QED
    BY <1>3, <1>5, NewestOfAPart
<1> QED
  BY <1>6 DEF Merged

(* The invariant holds whatever is logged.                                 *)
LEMMA LogInvHolds == LogSpec => []LogInv
  BY LogStarts, LoggingKeeps, PTL DEF LogSpec

(* The merged timeline is the newest entries of both logs, for any limits, *)
(* whatever was rotated, cleared or broken off, while no more lines near   *)
(* the end of a file are broken than the timeline shows.                   *)
THEOREM TimelineShowsTheNewest == LogSpec => []TimelineIsNewest
  BY LogInvHolds, MergedIsNewest, PTL

-----------------------------------------------------------------------------
(* RenamePlan                                                              *)

(* The forms a reference takes.                                            *)
RefForms == {"id", "states", "dotted", "key"}

(* Two equal keys are one.                                                 *)
KeysDiffer ==
  \A i, j \in DOMAIN text : text[i].form = "key" /\ text[j] = text[i] => i = j

(* A mapping renames each of its ids to an id of its own.                  *)
MapsApart(m) ==
  /\ m \in [DOMAIN m -> RefIds] /\ DOMAIN m \subseteq RefIds
  /\ \A x, y \in DOMAIN m : m[x] = m[y] => x = y

(* The plan is that of its mapping.                                        *)
PlanIsOfMapping ==
  \/ mapping = <<>> /\ plan = [rewrites |-> {}, review |-> {}]
  \/ /\ MapsApart(mapping)
     /\ plan = [rewrites |-> FileRewrites(mapping) \cup DashboardRewrites(mapping),
                review   |-> ReportOnly(mapping) \cup IndexRefsOutside(mapping)]

(* A text is any number of references, its keys differ, and the plan is    *)
(* that of a mapping.                                                      *)
RenameInv ==
  /\ place \in RefPlaces /\ readable \in BOOLEAN /\ indexed \in BOOLEAN
  /\ live \in {"default", "listed", "removed", "unavailable"}
  /\ \E n \in Nat : text \in [1 .. n -> [form : RefForms, id : RefIds]]
  /\ KeysDiffer /\ PlanIsOfMapping

(* Before there is a plan there is nothing to rewrite or review.           *)
LEMMA RenameStarts == RenameInit => RenameInv
<1> SUFFICES ASSUME RenameInit PROVE RenameInv
  OBVIOUS
<1> DEFINE Forms == {"id", "states", "dotted"} \cup (IF place = "dash" THEN {"key"} ELSE {})
<1>1. PICK n \in 0 .. MaxRefs : text \in [1 .. n -> [form : Forms, id : RefIds]]
  BY DEF RenameInit
<1>2. n \in Nat
  BY <1>1, RenameAssumption
<1>3. text \in [1 .. n -> [form : RefForms, id : RefIds]]
  <2>1. \A r \in [form : Forms, id : RefIds] : r \in [form : RefForms, id : RefIds]
    BY DEF RefForms
  <2> QED
    BY <1>1, <2>1
<1>4. KeysDiffer
  BY DEF RenameInit, KeysDiffer
<1>5. PlanIsOfMapping
  BY DEF RenameInit, PlanIsOfMapping
<1>6. \E k \in Nat : text \in [1 .. k -> [form : RefForms, id : RefIds]]
  BY <1>2, <1>3
<1> QED
  BY <1>4, <1>5, <1>6 DEF RenameInit, RenameInv

(* A plan is made of a mapping that keeps its ids apart, and leaves the    *)
(* text alone.                                                             *)
LEMMA PlanningKeeps ==
  ASSUME RenameInv, [RenameNext]_renameVars
  PROVE  RenameInv'
<1>1. CASE UNCHANGED renameVars
  BY <1>1 DEF renameVars, RenameInv, KeysDiffer, PlanIsOfMapping, FileRewrites, DashboardRewrites, ReportOnly,
     IndexRefsOutside, Found, Covered, FilesScanned, DashboardsScanned, UrlOf, HomeUrl
<1>2. CASE RenameNext
  <2>1. UNCHANGED <<place, text, readable, live, indexed>>
    BY <1>2 DEF RenameNext, PlanReferenceRewrites
  <2>2. MapsApart(mapping')
    BY <1>2 DEF RenameNext, PlanReferenceRewrites, MapsApart
  <2>3. plan' = [rewrites |-> FileRewrites(mapping') \cup DashboardRewrites(mapping'),
                 review   |-> ReportOnly(mapping') \cup IndexRefsOutside(mapping')]
    BY <1>2 DEF RenameNext, PlanReferenceRewrites
  <2>4. Covered' = Covered /\ \A m : Found(m)' = Found(m)
    BY <2>1 DEF Covered, FilesScanned, DashboardsScanned, Found
  <2>5. /\ FileRewrites(mapping)' = FileRewrites(mapping')
        /\ DashboardRewrites(mapping)' = DashboardRewrites(mapping')
    BY <2>1, <2>4 DEF FileRewrites, DashboardRewrites, FilesScanned, DashboardsScanned, Found, UrlOf, HomeUrl
  <2>6. ReportOnly(mapping)' = ReportOnly(mapping')
    BY <2>1, <2>4 DEF ReportOnly, DashboardsScanned, Found, UrlOf, HomeUrl
  <2>7. IndexRefsOutside(mapping)' = IndexRefsOutside(mapping')
    BY <2>1, <2>4 DEF IndexRefsOutside
  <2>8. PlanIsOfMapping'
    BY <2>2, <2>3, <2>5, <2>6, <2>7 DEF PlanIsOfMapping, MapsApart
  <2> QED
    BY <2>1, <2>8 DEF RenameInv, KeysDiffer
<1> QED
  BY <1>1, <1>2

(* One substitution, reference by reference.                               *)
LEMMA SubstitutedIs ==
  ASSUME NEW D, NEW refs \in [D -> [form : RefForms, id : RefIds]], NEW m, MapsApart(m), NEW forms
  PROVE  /\ Substituted(refs, forms, m) \in [D -> [form : RefForms, id : RefIds]]
         /\ \A i \in D : Substituted(refs, forms, m)[i] =
              IF refs[i].form \in forms /\ refs[i].id \in DOMAIN m
              THEN [form |-> refs[i].form, id |-> m[refs[i].id]] ELSE refs[i]
<1>1. ASSUME NEW i \in D
      PROVE  /\ Substituted(refs, forms, m)[i] =
                  IF refs[i].form \in forms /\ refs[i].id \in DOMAIN m
                  THEN [form |-> refs[i].form, id |-> m[refs[i].id]] ELSE refs[i]
             /\ Substituted(refs, forms, m)[i] \in [form : RefForms, id : RefIds]
  <2>1. refs[i] \in [form : RefForms, id : RefIds]
    OBVIOUS
  <2>2. [refs[i] EXCEPT !.id = m[@]] = [form |-> refs[i].form, id |-> m[refs[i].id]]
    BY <2>1
  <2> QED
    BY <2>1, <2>2 DEF Substituted, Hit, MapsApart
<1>2. Substituted(refs, forms, m) = [i \in D |-> Substituted(refs, forms, m)[i]]
  BY DEF Substituted
<1> QED
  BY <1>1, <1>2

(* refs2 is refs with the new ids of m.                                    *)
IsRenamed(D, refs, m, refs2) ==
  /\ refs2 \in [D -> [form : RefForms, id : RefIds]]
  /\ \A i \in D : refs2[i] = IF refs[i].form # "dotted" /\ refs[i].id \in DOMAIN m
                            THEN [form |-> refs[i].form, id |-> m[refs[i].id]] ELSE refs[i]

(* Both substitutions: what is a reference to an id of the mapping now     *)
(* refers to its new id.                                                   *)
LEMMA AppliedIs ==
  ASSUME NEW D, NEW refs \in [D -> [form : RefForms, id : RefIds]], NEW m, MapsApart(m)
  PROVE  IsRenamed(D, refs, m, Applied(refs, m))
<1> DEFINE once == Substituted(refs, AttrForms, m)
<1>1. /\ once \in [D -> [form : RefForms, id : RefIds]]
      /\ \A i \in D : once[i] = IF refs[i].form \in AttrForms /\ refs[i].id \in DOMAIN m
                                THEN [form |-> refs[i].form, id |-> m[refs[i].id]] ELSE refs[i]
  BY SubstitutedIs
<1> HIDE DEF once
<1>2. /\ Substituted(once, PlainForms, m) \in [D -> [form : RefForms, id : RefIds]]
      /\ \A i \in D : Substituted(once, PlainForms, m)[i] =
           IF once[i].form \in PlainForms /\ once[i].id \in DOMAIN m
           THEN [form |-> once[i].form, id |-> m[once[i].id]] ELSE once[i]
  BY <1>1, SubstitutedIs
<1>3. Applied(refs, m) = Substituted(once, PlainForms, m)
  BY DEF Applied, once
<1>4. ASSUME NEW i \in D
      PROVE  Applied(refs, m)[i] = IF refs[i].form # "dotted" /\ refs[i].id \in DOMAIN m
                                   THEN [form |-> refs[i].form, id |-> m[refs[i].id]] ELSE refs[i]
  <2>1. refs[i].form \in RefForms
    OBVIOUS
  <2>2. CASE refs[i].form \in AttrForms
    <3>1. once[i].form \notin PlainForms
      BY <1>1, <2>2 DEF AttrForms, PlainForms
    <3>2. Applied(refs, m)[i] = once[i]
      BY <1>2, <1>3, <3>1
    <3> QED
      BY <1>1, <2>2, <3>2 DEF AttrForms
  <2>3. CASE refs[i].form \in PlainForms
    BY <1>1, <1>2, <1>3, <2>3 DEF AttrForms, PlainForms
  <2>4. CASE refs[i].form = "dotted"
    BY <1>1, <1>2, <1>3, <2>4 DEF AttrForms, PlainForms
  <2> QED
    BY <2>1, <2>2, <2>3, <2>4 DEF RefForms, AttrForms, PlainForms
<1> QED
  BY <1>2, <1>3, <1>4 DEF IsRenamed

(* What a rewrite reports as hits is the number of references it changes.  *)
LEMMA CountIsExact ==
  ASSUME NEW n \in Nat, NEW refs \in [1 .. n -> [form : RefForms, id : RefIds]], NEW m, MapsApart(m)
  PROVE  LET hit == {i \in 1 .. n : refs[i].form # "dotted" /\ refs[i].id \in DOMAIN m}
         IN  Counted(refs, m) = Cardinality(hit) /\ IsFiniteSet(hit)
<1> DEFINE once == Substituted(refs, AttrForms, m)
           A    == {i \in 1 .. n : refs[i].form \in AttrForms /\ refs[i].id \in DOMAIN m}
           B    == {i \in 1 .. n : refs[i].form \in PlainForms /\ refs[i].id \in DOMAIN m}
           hit  == {i \in 1 .. n : refs[i].form # "dotted" /\ refs[i].id \in DOMAIN m}
<1>1. /\ once \in [1 .. n -> [form : RefForms, id : RefIds]]
      /\ \A i \in 1 .. n : once[i] = IF refs[i].form \in AttrForms /\ refs[i].id \in DOMAIN m
                                     THEN [form |-> refs[i].form, id |-> m[refs[i].id]] ELSE refs[i]
  BY SubstitutedIs
<1>2. Hits(refs, AttrForms, m) = Cardinality(A)
  <2>1. {i \in DOMAIN refs : Hit(refs[i], AttrForms, m)} = A
    BY DEF Hit
  <2> QED
    BY <2>1 DEF Hits
<1>3. Hits(once, PlainForms, m) = Cardinality(B)
  <2> HIDE DEF once
  <2>1. ASSUME NEW i \in 1 .. n
        PROVE  Hit(once[i], PlainForms, m) <=> refs[i].form \in PlainForms /\ refs[i].id \in DOMAIN m
    BY <1>1 DEF Hit, AttrForms, PlainForms
  <2>2. DOMAIN once = 1 .. n
    BY <1>1
  <2>3. {i \in DOMAIN once : Hit(once[i], PlainForms, m)} = B
    BY <2>1, <2>2
  <2> QED
    BY <2>3 DEF Hits
<1>4. A \cup B = hit /\ A \cap B = {}
  <2>1. \A i \in 1 .. n : refs[i].form \in RefForms
    OBVIOUS
  <2> QED
    BY <2>1 DEF RefForms, AttrForms, PlainForms
<1>5. IsFiniteSet(A) /\ IsFiniteSet(B)
  <2>1. IsFiniteSet(1 .. n)
    BY FS_Interval
  <2> QED
    BY <2>1, FS_Subset
<1>6. Cardinality(A \cup B) = Cardinality(A) + Cardinality(B) /\ IsFiniteSet(A \cup B)
  <2> HIDE DEF A, B
  <2>1. /\ IsFiniteSet(A \cup B)
        /\ Cardinality(A \cup B) = Cardinality(A) + Cardinality(B) - Cardinality(A \cap B)
    BY <1>5, FS_Union
  <2>2. Cardinality(A \cap B) = 0
    BY <1>4, FS_EmptySet
  <2>3. Cardinality(A) \in Nat /\ Cardinality(B) \in Nat
    BY <1>5, FS_CardinalityType
  <2> QED
    BY <2>1, <2>2, <2>3
<1> QED
  BY <1>2, <1>3, <1>4, <1>6 DEF Counted

(* What the plan holds once there is one.                                  *)
LEMMA PlanHolds ==
  ASSUME RenameInv, RenamePlanned
  PROVE  /\ MapsApart(mapping)
         /\ plan.rewrites = FileRewrites(mapping) \cup DashboardRewrites(mapping)
         /\ plan.review = ReportOnly(mapping) \cup IndexRefsOutside(mapping)
  BY DEF RenameInv, RenamePlanned, PlanIsOfMapping

(* A readable place that mentions a mapped id is counted.                  *)
LEMMA MentionedIsFound ==
  ASSUME RenameInv, MapsApart(mapping)
  PROVE  /\ Counted(text, mapping) = Cardinality({i \in DOMAIN text :
                text[i].form # "dotted" /\ text[i].id \in DOMAIN mapping})
         /\ readable /\ DOMAIN mapping \cap Mentions(text) # {} => Found(mapping) = {place}
<1>1. PICK n \in Nat : text \in [1 .. n -> [form : RefForms, id : RefIds]]
  BY DEF RenameInv
<1> DEFINE hit == {i \in 1 .. n : text[i].form # "dotted" /\ text[i].id \in DOMAIN mapping}
<1>2. Counted(text, mapping) = Cardinality(hit) /\ IsFiniteSet(hit)
  BY <1>1, CountIsExact
<1>3. DOMAIN text = 1 .. n
  BY <1>1
<1>4. ASSUME readable, DOMAIN mapping \cap Mentions(text) # {} PROVE Found(mapping) = {place}
  <2>1. hit # {}
    BY <1>3, <1>4 DEF Mentions
  <2>2. Cardinality(hit) \in Nat /\ Cardinality(hit) # 0
    <3> HIDE DEF hit
    <3> QED
      BY <1>2, <2>1, FS_CardinalityType, FS_EmptySet
  <2>3. Counted(text, mapping) > 0
    BY <1>2, <2>2
  <2> QED
    BY <1>4, <2>3 DEF Found
<1> QED
  BY <1>2, <1>3, <1>4

(* Each place where something is found has its part in the plan.           *)
LEMMA PlanIsComplete == RenameInv => PlanAccountsForReferences
<1> SUFFICES ASSUME RenameInv, RenamePlanned
             PROVE  /\ (/\ readable /\ DOMAIN mapping \cap Mentions(text) # {}
                        /\ place \notin {"custom", "included"}
                        /\ indexed \/ place # "registered")
                       => place \in plan.review \cup {r.place : r \in plan.rewrites}
                    /\ \A r \in plan.rewrites :
                         /\ r.place = "dash" => r.url = HomeUrl
                         /\ r.hits = Cardinality({i \in DOMAIN text :
                                        text[i].form # "dotted" /\ text[i].id \in DOMAIN mapping})
  BY DEF PlanAccountsForReferences
<1>1. /\ MapsApart(mapping)
      /\ plan.rewrites = FileRewrites(mapping) \cup DashboardRewrites(mapping)
      /\ plan.review = ReportOnly(mapping) \cup IndexRefsOutside(mapping)
  BY PlanHolds
<1>2. ASSUME readable, DOMAIN mapping \cap Mentions(text) # {}, place \notin {"custom", "included"},
             indexed \/ place # "registered"
      PROVE  place \in plan.review \cup {r.place : r \in plan.rewrites}
  <2>1. Found(mapping) = {place}
    BY <1>1, <1>2, MentionedIsFound
  <2>2. CASE place = "yaml"
    <3> DEFINE r == [place |-> place, url |-> NoUrl, hits |-> Counted(text, mapping), new |-> Applied(text, mapping)]
    <3>1. r \in FileRewrites(mapping) /\ r.place = place
      BY <2>1, <2>2 DEF FileRewrites, FilesScanned
    <3> QED
      BY <1>1, <3>1
  <2>3. CASE place = "dash" /\ UrlOf # NoUrl
    <3> DEFINE r == [place |-> place, url |-> UrlOf, hits |-> Counted(text, mapping),
                     new |-> AppliedToMap(text, mapping)]
    <3>1. r \in DashboardRewrites(mapping) /\ r.place = place
      BY <2>1, <2>3 DEF DashboardRewrites, DashboardsScanned
    <3> QED
      BY <1>1, <3>1
  <2>4. CASE place = "dash" /\ UrlOf = NoUrl
    BY <1>1, <2>1, <2>4 DEF ReportOnly, DashboardsScanned
  <2>5. CASE place \in {"esphome", "energy"}
    BY <1>1, <2>1, <2>5 DEF ReportOnly
  <2>6. CASE place = "registered"
    <3>1. EdgeLocation(place) \notin Covered
      BY <2>6 DEF EdgeLocation, Covered, FilesScanned, DashboardsScanned
    <3>2. place \in IndexRefsOutside(mapping)
      BY <1>2, <2>6, <3>1 DEF IndexRefsOutside
    <3> QED
      BY <1>1, <3>2
  <2> QED
    BY <1>2, <2>2, <2>3, <2>4, <2>5, <2>6 DEF RenameInv, RefPlaces
<1>3. ASSUME NEW r \in plan.rewrites
      PROVE  /\ r.place = "dash" => r.url = HomeUrl
             /\ r.hits = Cardinality({i \in DOMAIN text :
                            text[i].form # "dotted" /\ text[i].id \in DOMAIN mapping})
  <2>1. Counted(text, mapping) = Cardinality({i \in DOMAIN text :
                            text[i].form # "dotted" /\ text[i].id \in DOMAIN mapping})
    BY <1>1, MentionedIsFound
  <2>2. CASE r \in FileRewrites(mapping)
    BY <2>1, <2>2 DEF FileRewrites, FilesScanned
  <2>3. CASE r \in DashboardRewrites(mapping)
    BY <2>1, <2>3 DEF DashboardRewrites, UrlOf
  <2> QED
    BY <1>1, <2>2, <2>3
<1> QED
  BY <1>2, <1>3

(* While no new id is mentioned that is not renamed itself, no two keys    *)
(* become equal.                                                           *)
LEMMA NoKeyIsLost ==
  ASSUME RenameInv, MapsApart(mapping),
         {mapping[x] : x \in DOMAIN mapping} \cap Mentions(text) \subseteq DOMAIN mapping
  PROVE  AppliedToMap(text, mapping) = Applied(text, mapping)
<1>1. PICK n \in Nat : text \in [1 .. n -> [form : RefForms, id : RefIds]]
  BY DEF RenameInv
<1> DEFINE new  == Applied(text, mapping)
           kept == {i \in DOMAIN new : new[i].form = "key" => \A j \in DOMAIN new : j > i => new[j] # new[i]}
<1>2. /\ new \in [1 .. n -> [form : RefForms, id : RefIds]]
      /\ \A i \in 1 .. n : new[i] =
           IF text[i].form # "dotted" /\ text[i].id \in DOMAIN mapping
           THEN [form |-> text[i].form, id |-> mapping[text[i].id]] ELSE text[i]
  BY <1>1, AppliedIs DEF IsRenamed
<1> HIDE DEF new
<1>3. ASSUME NEW i \in 1 .. n, new[i].form = "key", NEW j \in 1 .. n, new[j] = new[i] PROVE j = i
  <2>1. /\ text[i] \in [form : RefForms, id : RefIds] /\ text[j] \in [form : RefForms, id : RefIds]
        /\ text[i] = [form |-> text[i].form, id |-> text[i].id]
        /\ text[j] = [form |-> text[j].form, id |-> text[j].id]
    BY <1>1
  <2>2. text[i].form = "key" /\ text[j].form = "key"
    BY <1>2, <1>3
  <2>3. text[i].id \in Mentions(text) /\ text[j].id \in Mentions(text)
    BY <1>1, <2>2 DEF Mentions
  <2>4. /\ new[i].id = IF text[i].id \in DOMAIN mapping THEN mapping[text[i].id] ELSE text[i].id
        /\ new[j].id = IF text[j].id \in DOMAIN mapping THEN mapping[text[j].id] ELSE text[j].id
    BY <1>2, <2>2
  <2>5. text[i].id \in DOMAIN mapping <=> text[j].id \in DOMAIN mapping
    BY <1>3, <2>3, <2>4
  <2>6. text[i].id = text[j].id
    BY <1>3, <2>4, <2>5 DEF MapsApart
  <2>7. text[i] = text[j]
    BY <2>1, <2>2, <2>6
  <2> QED
    BY <1>1, <2>2, <2>7 DEF RenameInv, KeysDiffer
<1>4. kept = DOMAIN new
  BY <1>2, <1>3
<1>5. AppliedToMap(text, mapping) = [i \in kept |-> new[i]]
  BY DEF AppliedToMap, new
<1> QED
  BY <1>2, <1>4, <1>5 DEF new

(* Mapped back, a text is what it was.                                     *)
LEMMA AppliedBack ==
  ASSUME NEW D, NEW refs \in [D -> [form : RefForms, id : RefIds]], NEW m, MapsApart(m), NEW back, MapsApart(back),
         DOMAIN back = {m[x] : x \in DOMAIN m}, \A x \in DOMAIN m : back[m[x]] = x,
         \A i \in D : refs[i].form # "dotted" /\ refs[i].id \in DOMAIN back => refs[i].id \in DOMAIN m
  PROVE  Applied(Applied(refs, m), back) = refs
<1> DEFINE new == Applied(refs, m)
<1>1. IsRenamed(D, refs, m, new)
  BY AppliedIs
<1>2. IsRenamed(D, new, back, Applied(new, back))
  <2>1. new \in [D -> [form : RefForms, id : RefIds]]
    BY <1>1 DEF IsRenamed
  <2> HIDE DEF new
  <2> QED
    BY <2>1, AppliedIs
<1> HIDE DEF new
<1>3. ASSUME NEW i \in D PROVE Applied(new, back)[i] = refs[i]
  <2>1. refs[i] = [form |-> refs[i].form, id |-> refs[i].id]
    OBVIOUS
  <2>2. CASE refs[i].form = "dotted"
    BY <1>1, <1>2, <2>2 DEF IsRenamed
  <2>3. CASE refs[i].form # "dotted" /\ refs[i].id \in DOMAIN m
    <3>1. new[i].form = refs[i].form /\ new[i].id = m[refs[i].id]
      BY <1>1, <2>3 DEF IsRenamed
    <3> QED
      BY <1>2, <2>1, <2>3, <3>1 DEF IsRenamed
  <2>4. CASE refs[i].form # "dotted" /\ refs[i].id \notin DOMAIN m
    BY <1>1, <1>2, <2>4 DEF IsRenamed
  <2> QED
    BY <2>2, <2>3, <2>4
<1>4. Applied(new, back) = refs
  BY <1>2, <1>3 DEF IsRenamed
<1> QED
  BY <1>4 DEF new

(* A mapping and what maps its new ids back undo each other.               *)
LEMMA RewritesReverse == RenameInv => RewriteReverses
<1> SUFFICES ASSUME RenameInv, NEW r \in plan.rewrites,
                    {mapping[x] : x \in DOMAIN mapping} \cap Mentions(text) \subseteq DOMAIN mapping
             PROVE  Applied(r.new, [y \in {mapping[x] : x \in DOMAIN mapping} |->
                                      CHOOSE x \in DOMAIN mapping : mapping[x] = y]) = text
  BY DEF RewriteReverses
<1>1. /\ MapsApart(mapping)
      /\ plan.rewrites = FileRewrites(mapping) \cup DashboardRewrites(mapping)
  BY DEF RenameInv, PlanIsOfMapping
<1>2. r.new \in {Applied(text, mapping), AppliedToMap(text, mapping)}
  BY <1>1 DEF FileRewrites, DashboardRewrites
<1>3. r.new = Applied(text, mapping)
  BY <1>1, <1>2, NoKeyIsLost
<1> DEFINE back == [y \in {mapping[x] : x \in DOMAIN mapping} |-> CHOOSE x \in DOMAIN mapping : mapping[x] = y]
<1>4. DOMAIN back = {mapping[x] : x \in DOMAIN mapping} /\ \A x \in DOMAIN mapping : back[mapping[x]] = x
  BY <1>1 DEF MapsApart
<1>5. \A y \in DOMAIN back : back[y] \in DOMAIN mapping /\ mapping[back[y]] = y
  BY <1>4
<1>6. back = [y \in DOMAIN back |-> back[y]]
  BY <1>4
<1> HIDE DEF back
<1>7. MapsApart(back)
  <2>1. DOMAIN back \subseteq RefIds /\ \A y \in DOMAIN back : back[y] \in RefIds
    BY <1>1, <1>4, <1>5 DEF MapsApart
  <2>2. back \in [DOMAIN back -> RefIds]
    BY <1>6, <2>1
  <2> QED
    BY <1>5, <2>1, <2>2 DEF MapsApart
<1>8. PICK n \in Nat : text \in [1 .. n -> [form : RefForms, id : RefIds]]
  BY DEF RenameInv
<1>9. \A i \in 1 .. n : text[i].form # "dotted" /\ text[i].id \in DOMAIN back => text[i].id \in DOMAIN mapping
  BY <1>4, <1>8 DEF Mentions
<1>10. Applied(Applied(text, mapping), back) = text
  BY <1>1, <1>4, <1>7, <1>8, <1>9, AppliedBack
<1> QED
  BY <1>3, <1>10 DEF back

(* The invariant holds of every plan.                                      *)
LEMMA RenameInvHolds == RenameSpec => []RenameInv
  BY RenameStarts, PlanningKeeps, PTL DEF RenameSpec

(* A rename overlooks nothing: every readable place that mentions a        *)
(* renamed id is rewritten, under the url it was read from, or shown for   *)
(* review, unless the index that would have shown it could not be built,   *)
(* and a rewrite counts exactly what it changes.                           *)
THEOREM NothingIsOverlooked == RenameSpec => []PlanAccountsForReferences
  BY RenameInvHolds, PlanIsComplete, PTL

(* A rename of any ids at once, swapped or chained, is one simultaneous    *)
(* substitution: mapped back it gives the text the plan read.              *)
THEOREM RenamesReverse == RenameSpec => []RewriteReverses
  BY RenameInvHolds, RewritesReverse, PTL

-----------------------------------------------------------------------------
(* PatchTools                                                              *)

(* A hunk expects lines of the file, and none only of an empty file.       *)
HunkOK(hunk) ==
  /\ hunk.start \in Nat
  /\ Expected(hunk) \in Seq(FileLines)
  /\ Expected(hunk) = <<>> => hunk.start = 0

(* Hunks stand one behind the other, as long as their lines stand together.*)
Ascending ==
  \A i \in DOMAIN patch : i + 1 \in DOMAIN patch /\ home[i] >= 0 /\ home[i + 1] >= 0
                           => home[i] + Len(Expected(patch[i])) <= home[i + 1]

(* A file is read before it is patched, and patched once.                  *)
PatchInv ==
  /\ drifts \in Nat
  /\ patch # <<>> \/ drifts < MaxDrift => file \in Seq(FileLines)
  /\ \E n \in Nat : /\ Len(patch) = n /\ DOMAIN patch = 1..n
                    /\ home \in [1..n -> Int]
  /\ \A i \in DOMAIN patch : HunkOK(patch[i])
  /\ Ascending

(* No patch is written yet.                                                *)
LEMMA PatchStarts == PatchInit => PatchInv
<1> SUFFICES ASSUME PatchInit PROVE PatchInv
  OBVIOUS
<1>1. drifts = 0 /\ patch = <<>> /\ home = <<>>
  BY DEF PatchInit
<1>2. file \in Seq(FileLines)
  <2>1. PICK n \in 0 .. MaxLines : file \in [1 .. n -> FileLines]
    BY DEF PatchInit
  <2>2. n \in Nat
    BY <2>1, PatchAssumption
  <2> QED
    BY <2>1, <2>2
<1>3. Len(patch) = 0 /\ DOMAIN patch = 1..0 /\ home \in [1..0 -> Int]
  BY <1>1
<1>4. DOMAIN patch = {}
  BY <1>3
<1> QED
  BY <1>1, <1>2, <1>3, <1>4 DEF PatchInv, Ascending

(* A hunk of the client fits the file it was written for.                  *)
LEMMA HunkFits ==
  ASSUME NEW lines \in Seq(FileLines), NEW at \in 0 .. Len(lines), NEW gone \in Nat, NEW slip \in Nat,
         at + gone <= Len(lines)
  PROVE  HunkOK(HunkOf(lines, at, gone, slip))
<1> DEFINE first == IF at = 0 THEN 1 ELSE at
           next  == at + gone + 1
           before  == SubSeq(lines, first, at)
           removed == SubSeq(lines, at + 1, at + gone)
           after   == IF next > Len(lines) THEN <<>> ELSE <<lines[next]>>
           hunk == HunkOf(lines, at, gone, slip)
<1>1. hunk.start = (IF lines = <<>> THEN 0 ELSE first + slip) /\ Expected(hunk) = before \o removed \o after
  BY DEF HunkOf, Expected
<1>2. Len(lines) \in Nat /\ at \in Nat /\ first \in Nat /\ next \in Nat
  OBVIOUS
<1>3. before \in Seq(FileLines) /\ (at > 0 => before # <<>>)
  <2>1. CASE at = 0
    BY <2>1
  <2>2. CASE at > 0
    BY <2>2
  <2> QED
    BY <1>2, <2>1, <2>2
<1>4. removed \in Seq(FileLines) /\ (gone > 0 => removed # <<>>)
  OBVIOUS
<1>5. after \in Seq(FileLines) /\ (next <= Len(lines) => after # <<>>)
  OBVIOUS
<1>6. before \o removed \o after \in Seq(FileLines)
  <2> HIDE DEF before, removed, after
  <2> QED
    BY <1>3, <1>4, <1>5
<1>7. ASSUME before \o removed \o after = <<>> PROVE lines = <<>>
  <2>1. before = <<>> /\ removed = <<>> /\ after = <<>>
    <3> HIDE DEF before, removed, after
    <3>1. Len(before \o removed \o after) = Len(before) + Len(removed) + Len(after)
      BY <1>3, <1>4, <1>5
    <3>2. Len(before) = 0 /\ Len(removed) = 0 /\ Len(after) = 0
      BY <1>3, <1>4, <1>5, <1>7, <3>1
    <3> QED
      BY <1>3, <1>4, <1>5, <3>2
  <2>2. at = 0 /\ gone = 0 /\ ~(next <= Len(lines))
    <3> HIDE DEF before, removed, after, next
    <3> QED
      BY <1>2, <1>3, <1>4, <1>5, <2>1
  <2>3. Len(lines) = 0
    BY <2>2
  <2> QED
    BY <2>3
<1>8. hunk.start \in Nat /\ (lines = <<>> => hunk.start = 0)
  BY <1>1, <1>2
<1> HIDE DEF before, removed, after
<1>9. HunkOK(hunk)
  <2> HIDE DEF hunk
  <2> QED
    BY <1>1, <1>6, <1>7, <1>8 DEF HunkOK
<1> QED
  BY <1>9

(* So do all of them, and each has its place in the file.                  *)
LEMMA HunksFit ==
  ASSUME NEW lines \in Seq(FileLines), NEW h \in HunksOf(lines)
  PROVE  HunkOK(h.hunk) /\ h.at \in Int
<1>1. Len(lines) \in Nat
  OBVIOUS
<1>2. CASE \E at \in 0 .. Len(lines) - 1, gone \in 0 .. 1, slip \in 0 .. 1 :
             h = [hunk |-> HunkOf(lines, at, gone, slip), at |-> IF at = 0 THEN 0 ELSE at - 1]
  <2>1. PICK at \in 0 .. Len(lines) - 1, gone \in 0 .. 1, slip \in 0 .. 1 :
             h = [hunk |-> HunkOf(lines, at, gone, slip), at |-> IF at = 0 THEN 0 ELSE at - 1]
    BY <1>2
  <2>2. at \in 0 .. Len(lines) /\ at + gone <= Len(lines) /\ slip \in Nat /\ gone \in Nat
    BY <1>1, <2>1
  <2>3. HunkOK(HunkOf(lines, at, gone, slip))
    BY <2>2, HunkFits
  <2> QED
    BY <2>1, <2>2, <2>3
<1>3. CASE h = [hunk |-> HunkOf(lines, Len(lines), 0, 0), at |-> IF lines = <<>> THEN 0 ELSE Len(lines) - 1]
  <2>1. HunkOK(HunkOf(lines, Len(lines), 0, 0))
    BY <1>1, HunkFits
  <2> QED
    BY <1>1, <1>3, <2>1
<1> QED
  BY <1>2, <1>3 DEF HunksOf

(* The client writes hunks that fit, one behind the other.                 *)
LEMMA WritingKeeps ==
  ASSUME PatchInv, drifts < MaxDrift, WritePatch
  PROVE  PatchInv'
<1>1. PICK h \in HunksOf(file), g \in HunksOf(file) :
        /\ h = g \/ Ends(h) <= g.at
        /\ patch' = IF h = g THEN <<h.hunk>> ELSE <<h.hunk, g.hunk>>
        /\ home' = IF h = g THEN <<h.at>> ELSE <<h.at, g.at>>
        /\ UNCHANGED <<file, drifts>>
  BY DEF WritePatch
<1>2. file \in Seq(FileLines)
  BY DEF PatchInv
<1>3. HunkOK(h.hunk) /\ h.at \in Int /\ HunkOK(g.hunk) /\ g.at \in Int
  BY <1>2, HunksFit
<1>4. CASE h = g
  <2>1. Len(patch') = 1 /\ DOMAIN patch' = 1..1 /\ home' \in [1..1 -> Int] /\ patch'[1] = h.hunk
    BY <1>1, <1>3, <1>4
  <2>2. \A i \in DOMAIN patch' : HunkOK(patch'[i])
    BY <1>3, <2>1
  <2>3. Ascending'
    BY <2>1 DEF Ascending
  <2>4. \E n \in Nat : Len(patch') = n /\ DOMAIN patch' = 1..n /\ home' \in [1..n -> Int]
    BY <2>1
  <2> QED
    BY <1>1, <1>2, <2>2, <2>3, <2>4 DEF PatchInv
<1>5. CASE h # g
  <2>1. /\ Len(patch') = 2 /\ DOMAIN patch' = 1..2 /\ home' \in [1..2 -> Int]
        /\ patch'[1] = h.hunk /\ patch'[2] = g.hunk /\ home'[1] = h.at /\ home'[2] = g.at
    BY <1>1, <1>3, <1>5
  <2>2. \A i \in DOMAIN patch' : HunkOK(patch'[i])
    BY <1>3, <2>1
  <2>3. Ascending'
    BY <1>1, <1>5, <2>1 DEF Ascending, Ends
  <2>4. \E n \in Nat : Len(patch') = n /\ DOMAIN patch' = 1..n /\ home' \in [1..n -> Int]
    BY <2>1
  <2> QED
    BY <1>1, <1>2, <2>2, <2>3, <2>4 DEF PatchInv
<1> QED
  BY <1>4, <1>5

(* What stands in order moves in order.                                    *)
LEMMA DriftingKeeps ==
  ASSUME PatchInv, Drift
  PROVE  PatchInv'
<1>1. patch # <<>> /\ patch' = patch /\ drifts' = drifts + 1 /\ drifts \in Nat /\ file \in Seq(FileLines)
  BY DEF Drift, PatchInv
<1>2. PICK n \in Nat : Len(patch) = n /\ DOMAIN patch = 1..n /\ home \in [1..n -> Int]
  BY DEF PatchInv
<1>3. file' \in Seq(FileLines)
  <2>1. CASE \E at \in 0 .. Len(file), line \in FileLines : file' = InsertAt(file, at + 1, line)
    <3>1. PICK at \in 0 .. Len(file), line \in FileLines : file' = InsertAt(file, at + 1, line)
      BY <2>1
    <3>2. file' = SubSeq(file, 1, at) \o <<line>> \o SubSeq(file, at + 1, Len(file))
      <4>1. (at + 1) - 1 = at
        OBVIOUS
      <4> QED
        BY <3>1, <4>1, Zenon DEF InsertAt
    <3>3. SubSeq(file, 1, at) \in Seq(FileLines) /\ SubSeq(file, at + 1, Len(file)) \in Seq(FileLines)
      BY <1>1, <3>1
    <3> QED
      BY <3>2, <3>3
  <2>2. CASE \E at \in 0 .. Len(file) - 1 : file' = RemoveAt(file, at + 1)
    <3>1. PICK at \in 0 .. Len(file) - 1 : file' = RemoveAt(file, at + 1)
      BY <2>2
    <3>2. file' = SubSeq(file, 1, at) \o SubSeq(file, at + 2, Len(file))
      <4>1. (at + 1) - 1 = at /\ (at + 1) + 1 = at + 2
        BY <1>1
      <4> QED
        BY <3>1, <4>1, Zenon DEF RemoveAt
    <3>3. SubSeq(file, 1, at) \in Seq(FileLines) /\ SubSeq(file, at + 2, Len(file)) \in Seq(FileLines)
      BY <1>1, <3>1
    <3> QED
      BY <3>2, <3>3
  <2> QED
    BY <2>1, <2>2 DEF Drift
<1>4. PICK at \in Nat, by \in {1, -1} : home' = [i \in 1..n |-> Moved(i, at, by)]
  <2>1. Len(file) \in Nat
    BY <1>1
  <2>2. CASE \E at \in 0 .. Len(file) : home' = [i \in 1..n |-> Moved(i, at, 1)]
    BY <2>1, <2>2
  <2>3. CASE \E at \in 0 .. Len(file) - 1 : home' = [i \in 1..n |-> Moved(i, at, -1)]
    BY <2>1, <2>3
  <2>4. DOMAIN home = 1..n
    BY <1>2
  <2> QED
    BY <2>2, <2>3, <2>4, Zenon DEF Drift
<1>5. \A i \in 1..n : Len(Expected(patch[i])) \in Nat
  BY <1>2 DEF PatchInv, HunkOK
<1>6. ASSUME NEW i \in 1..n PROVE Moved(i, at, by) \in Int /\ (Moved(i, at, by) >= 0 => home[i] >= 0)
  BY <1>2, <1>4, <1>5, <1>6 DEF Moved
<1>7. ASSUME NEW i \in 1..n, i + 1 \in 1..n, Moved(i, at, by) >= 0, Moved(i + 1, at, by) >= 0
      PROVE  Moved(i, at, by) + Len(Expected(patch[i])) <= Moved(i + 1, at, by)
  <2>1. home[i] + Len(Expected(patch[i])) <= home[i + 1] /\ home[i] >= 0 /\ home[i + 1] >= 0
    BY <1>2, <1>6, <1>7 DEF PatchInv, Ascending
  <2> DEFINE l == Len(Expected(patch[i]))
             k == Len(Expected(patch[i + 1]))
  <2>2. l \in Nat /\ k \in Nat /\ home[i] \in Int /\ home[i + 1] \in Int /\ i \in 1..n /\ i + 1 \in 1..n
    BY <1>2, <1>5, <1>7
  <2>3. /\ Moved(i, at, by) = IF home[i] < 0 \/ at > home[i] + l \/ (at = home[i] + l /\ home[i] + l # home[i])
                              THEN home[i]
                              ELSE IF at < home[i] \/ (by = 1 /\ at = home[i]) THEN home[i] + by
                              ELSE IF by = -1 /\ at = home[i] + l THEN home[i] ELSE -1
        /\ Moved(i + 1, at, by) =
             IF home[i + 1] < 0 \/ at > home[i + 1] + k \/ (at = home[i + 1] + k /\ home[i + 1] + k # home[i + 1])
             THEN home[i + 1]
             ELSE IF at < home[i + 1] \/ (by = 1 /\ at = home[i + 1]) THEN home[i + 1] + by
             ELSE IF by = -1 /\ at = home[i + 1] + k THEN home[i + 1] ELSE -1
    BY Zenon DEF Moved
  <2> HIDE DEF l, k
  <2>4. home[i] + l <= home[i + 1]
    BY <2>1 DEF l
  <2>5. Moved(i, at, by) + l <= Moved(i + 1, at, by)
    <3> DEFINE a == home[i]
               b == home[i + 1]
               x == Moved(i, at, by)
               y == Moved(i + 1, at, by)
    <3>1. /\ a \in Int /\ b \in Int /\ a >= 0 /\ b >= 0 /\ a + l <= b /\ l \in Nat /\ k \in Nat /\ at \in Nat
          /\ x >= 0 /\ y >= 0
      BY <1>4, <1>7, <2>1, <2>2, <2>4
    <3>2. /\ x = IF a < 0 \/ at > a + l \/ (at = a + l /\ a + l # a) THEN a
                 ELSE IF at < a \/ (by = 1 /\ at = a) THEN a + by
                 ELSE IF by = -1 /\ at = a + l THEN a ELSE -1
          /\ y = IF b < 0 \/ at > b + k \/ (at = b + k /\ b + k # b) THEN b
                 ELSE IF at < b \/ (by = 1 /\ at = b) THEN b + by
                 ELSE IF by = -1 /\ at = b + k THEN b ELSE -1
      BY <2>3, Zenon
    <3> HIDE DEF a, b, x, y
    <3>3. ASSUME by = 1 PROVE x + l <= y
      BY <3>1, <3>2, <3>3
    <3>4. ASSUME by = -1 PROVE x + l <= y
      BY <3>1, <3>2, <3>4
    <3>5. x + l <= y
      BY <1>4, <3>3, <3>4
    <3> QED
      BY <3>5 DEF x, y
  <2> QED
    BY <2>5 DEF l
<1>8. Ascending'
  BY <1>1, <1>2, <1>4, <1>6, <1>7 DEF Ascending
<1>9. home' \in [1..n -> Int]
  BY <1>4, <1>6
<1> QED
  <2>1. \A i \in DOMAIN patch' : HunkOK(patch'[i])
    BY <1>1 DEF PatchInv
  <2>2. \E m \in Nat : Len(patch') = m /\ DOMAIN patch' = 1..m /\ home' \in [1..m -> Int]
    BY <1>1, <1>2, <1>9
  <2>3. drifts' \in Nat
    BY <1>1
  <2> QED
    BY <1>3, <1>8, <2>1, <2>2, <2>3 DEF PatchInv

(* So does every step.                                                     *)
LEMMA PatchingKeeps ==
  ASSUME PatchInv, [PatchNext]_patchVars
  PROVE  PatchInv'
<1>1. CASE UNCHANGED patchVars
  BY <1>1 DEF patchVars, PatchInv, Ascending
<1>2. CASE drifts < MaxDrift /\ WritePatch
  BY <1>2, WritingKeeps
<1>3. CASE Drift
  BY <1>3, DriftingKeeps
<1>4. CASE PatchFile
  <2>1. patch' = <<>> /\ home' = <<>> /\ drifts' = MaxDrift /\ MaxDrift \in Nat
    BY <1>4, PatchAssumption DEF PatchFile
  <2>2. Len(patch') = 0 /\ DOMAIN patch' = 1..0 /\ home' \in [1..0 -> Int]
    BY <2>1
  <2>3. DOMAIN patch' = {} /\ ~(drifts' < MaxDrift)
    BY <2>1, <2>2
  <2> QED
    BY <2>1, <2>2, <2>3 DEF PatchInv, Ascending
<1> QED
  BY <1>1, <1>2, <1>3, <1>4 DEF PatchNext

-----------------------------------------------------------------------------
(* A hunk that has one place, within Fuzz of where it is said to start and *)
(* behind what is consumed, is located there.                              *)
LEMMA LocatedAtHome ==
  ASSUME file \in Seq(FileLines), NEW hunk, HunkOK(hunk), NEW cursor \in Nat, NEW at \in Int,
         Occurrences(Expected(hunk)) = {at}, at - Declared(hunk) \in -Fuzz .. Fuzz, cursor <= at
  PROVE  Located(hunk, file, cursor) = {at} /\ at \in Nat
<1> DEFINE want == Expected(hunk)
           there == Declared(hunk)
<1>1. Len(file) \in Nat /\ Len(want) \in Nat /\ there \in Nat /\ Fuzz \in Nat
  BY PatchAssumption DEF HunkOK, Declared
<1>2. at \in 0 .. Len(file) /\ MatchesAt(want, file, at)
  BY DEF Occurrences
<1>3. CASE want = <<>>
  <2>1. there = 0
    BY <1>3 DEF HunkOK, Declared
  <2>2. \A p \in 0 .. Len(file) : MatchesAt(want, file, p)
    <3>1. Len(want) = 0 /\ DOMAIN want = {}
      BY <1>3
    <3> HIDE DEF want
    <3> QED
      BY <1>1, <3>1 DEF MatchesAt
  <2>3. 0 \in Occurrences(want) /\ Len(file) \in Occurrences(want)
    BY <1>1, <2>2 DEF Occurrences
  <2>4. at = 0 /\ Len(file) = 0
    BY <2>3
  <2>5. Located(hunk, file, cursor) = {there} \cap (cursor .. Len(file))
    BY <1>3 DEF Located
  <2> HIDE DEF there
  <2> QED
    BY <2>1, <2>4, <2>5
<1>4. CASE want # <<>>
  <2> DEFINE hits    == {d \in 0 .. Fuzz : Probes(hunk, file, cursor, d) # {}}
             nearest == Probes(hunk, file, cursor, Min(hits))
             far     == IF at >= there THEN at - there ELSE there - at
  <2>1. \A d \in Nat : Probes(hunk, file, cursor, d) \subseteq {at}
    <3>1. ASSUME NEW d \in Nat, NEW p \in Probes(hunk, file, cursor, d) PROVE p = at
      <4>1. p \in Int /\ MatchesAt(want, file, p)
        BY <1>1 DEF Probes
      <4>2. p \in 0 .. Len(file)
        BY <1>1, <4>1 DEF MatchesAt
      <4>3. p \in Occurrences(want)
        BY <4>1, <4>2 DEF Occurrences
      <4> QED
        BY <4>3
    <3> QED
      BY <3>1
  <2>2. far \in 0 .. Fuzz /\ at \in {there - far, there + far}
    <3> HIDE DEF there
    <3> QED
      BY <1>1 DEF there
  <2>3. at \in Probes(hunk, file, cursor, far)
    BY <1>2, <2>2 DEF Probes
  <2>4. far \in hits
    BY <2>2, <2>3
  <2> HIDE DEF far
  <2>5. Min(hits) \in hits
    <3>1. hits \in SUBSET Nat /\ hits # {}
      BY <1>1, <2>4
    <3> HIDE DEF hits
    <3>2. \E m \in hits : \A i \in hits : m <= i
      BY <3>1, HasLeast
    <3> QED
      BY <3>2 DEF Min
  <2>6. Min(hits) \in Nat /\ nearest # {}
    <3>1. \A d \in hits : d \in Nat /\ Probes(hunk, file, cursor, d) # {}
      BY <1>1
    <3> HIDE DEF hits
    <3> QED
      BY <2>5, <3>1
  <2>7. nearest = {at}
    <3> HIDE DEF hits
    <3> QED
      BY <2>1, <2>6
  <2>8. Cardinality(nearest) = 1
    <3> HIDE DEF nearest
    <3> QED
      BY <2>7, FS_Singleton
  <2>9. Located(hunk, file, cursor) = IF hits = {} \/ Cardinality(nearest) > 1 THEN {} ELSE nearest
    BY <1>4, Zenon DEF Located
  <2> HIDE DEF hits, nearest
  <2> QED
    BY <1>1, <1>2, <2>4, <2>7, <2>8, <2>9
<1> QED
  BY <1>3, <1>4

(* Hunk after hunk there is a state of the patch.                          *)
LEMMA HunksAreApplied ==
  ASSUME NEW lines, NEW hunks, Len(hunks) \in Nat,
         NEW done, done = CHOOSE f : f = [n \in 0 .. Len(hunks) |->
                                           IF n = 0 THEN [ok |-> TRUE, out |-> <<>>, cursor |-> 0]
                                           ELSE ApplyHunk(f[n - 1], hunks[n], lines)]
  PROVE  /\ done[0] = [ok |-> TRUE, out |-> <<>>, cursor |-> 0]
         /\ \A n \in 1 .. Len(hunks) : done[n] = ApplyHunk(done[n - 1], hunks[n], lines)
<1> DEFINE Start == [ok |-> TRUE, out |-> <<>>, cursor |-> 0]
           Upto(f, m) == f = [n \in 0 .. m |-> IF n = 0 THEN Start ELSE ApplyHunk(f[n - 1], hunks[n], lines)]
           Some(m) == \E f : Upto(f, m)
           Bad == {m \in Nat : ~Some(m)}
<1>1. Some(0)
  <2> DEFINE f == [n \in 0 .. 0 |-> Start]
  <2>1. Upto(f, 0)
    <3> HIDE DEF Start
    <3> QED
      OBVIOUS
  <2> QED
    BY <2>1
<1>2. ASSUME NEW m \in Nat, Some(m) PROVE Some(m + 1)
  <2>1. PICK f : Upto(f, m)
    BY <1>2
  <2> DEFINE g == [n \in 0 .. m + 1 |-> IF n = 0 THEN Start ELSE ApplyHunk(f[n - 1], hunks[n], lines)]
  <2>2. \A n \in 0 .. m : g[n] = f[n]
    <3> HIDE DEF Start
    <3> QED
      BY <2>1
  <2>3. Upto(g, m + 1)
    <3>1. \A n \in 0 .. m + 1 : n # 0 => n - 1 \in 0 .. m
      OBVIOUS
    <3>2. \A n \in 0 .. m + 1 : n # 0 => g[n - 1] = f[n - 1]
      BY <2>2, <3>1
    <3>3. g = [n \in 0 .. m + 1 |-> g[n]]
      OBVIOUS
    <3>4. \A n \in 0 .. m + 1 : g[n] = IF n = 0 THEN Start ELSE ApplyHunk(g[n - 1], hunks[n], lines)
      BY <3>2, Zenon
    <3> HIDE DEF g, Start
    <3> QED
      BY <3>3, <3>4, Zenon
  <2> QED
    BY <2>3
<1>3. Bad = {}
  <2>1. Bad \in SUBSET Nat
    OBVIOUS
  <2>2. ASSUME NEW m \in Bad, \A i \in Bad : m <= i PROVE FALSE
    <3> HIDE DEF Some
    <3>1. m \in Nat /\ m # 0
      BY <1>1
    <3>2. m - 1 \in Nat /\ m - 1 \notin Bad
      BY <2>2, <3>1
    <3>3. Some(m - 1)
      BY <3>2
    <3>4. Some((m - 1) + 1)
      BY <1>2, <3>2, <3>3
    <3> QED
      BY <3>1, <3>4
  <2> HIDE DEF Bad
  <2> QED
    BY <2>1, <2>2, HasLeast
<1>4. Some(Len(hunks))
  <2> HIDE DEF Some
  <2> QED
    BY <1>3
<1>5. Upto(done, Len(hunks))
  BY <1>4, Zenon
<1> QED
  <2> HIDE DEF Start
  <2>1. 0 \in 0 .. Len(hunks) /\ \A n \in 1 .. Len(hunks) : n \in 0 .. Len(hunks) /\ n # 0
    OBVIOUS
  <2> QED
    BY <1>5, <2>1 DEF Start

(* A hunk that is located is put in its place.                             *)
PutAt(done, i) ==
  [ok     |-> TRUE,
   out    |-> done.out \o SubSeq(file, done.cursor + 1, home[i]) \o Leaves(patch[i]),
   cursor |-> home[i] + Len(Expected(patch[i]))]

(* Each hunk has one place, and it is within Fuzz of its declared start.  *)
EachAtHome ==
  \A i \in DOMAIN patch : /\ Occurrences(Expected(patch[i])) = {home[i]}
                         /\ home[i] - Declared(patch[i]) \in -Fuzz .. Fuzz

(* Where each hunk has one place, each is put there.                       *)
LEMMA HunksGoHome ==
  ASSUME PatchInv, patch # <<>>, EachAtHome, NEW n \in Nat, Len(patch) = n, DOMAIN patch = 1..n,
         NEW done, done[0] = [ok |-> TRUE, out |-> <<>>, cursor |-> 0],
         \A i \in 1 .. n : done[i] = ApplyHunk(done[i - 1], patch[i], file)
  PROVE  \A i \in 1 .. n : done[i] = PutAt(done[i - 1], i)
<1> DEFINE Good(i) == /\ done[i].ok /\ done[i].cursor \in Nat
                      /\ i + 1 \in 1 .. n => done[i].cursor <= home[i + 1]
           Bad == {i \in 0 .. n : ~Good(i)}
<1>1. file \in Seq(FileLines) /\ home \in [1..n -> Int] /\ \A i \in 1..n : HunkOK(patch[i])
  <2>1. PICK m \in Nat : Len(patch) = m /\ DOMAIN patch = 1..m /\ home \in [1..m -> Int]
    BY DEF PatchInv
  <2> QED
    BY <2>1 DEF PatchInv
<1>2. ASSUME NEW i \in 1 .. n PROVE home[i] \in 0 .. Len(file) /\ home[i] \in Nat
  <2>1. home[i] \in Occurrences(Expected(patch[i])) /\ Len(file) \in Nat
    BY <1>1 DEF EachAtHome
  <2> QED
    BY <2>1 DEF Occurrences
<1>3. ASSUME NEW i \in 1 .. n, Good(i - 1) PROVE done[i] = PutAt(done[i - 1], i)
  <2>1. (i - 1) + 1 = i /\ i \in DOMAIN patch
    OBVIOUS
  <2>2. done[i - 1].ok /\ done[i - 1].cursor \in Nat /\ done[i - 1].cursor <= home[i]
    BY <1>3, <2>1
  <2>3. Located(patch[i], file, done[i - 1].cursor) = {home[i]}
    <3>1. /\ Occurrences(Expected(patch[i])) = {home[i]}
          /\ home[i] - Declared(patch[i]) \in -Fuzz .. Fuzz
      BY <2>1 DEF EachAtHome
    <3>2. HunkOK(patch[i]) /\ home[i] \in Int
      BY <1>1
    <3> DEFINE hunk == patch[i]
               at == home[i]
               cursor == done[i - 1].cursor
    <3>3. /\ HunkOK(hunk) /\ at \in Int /\ cursor \in Nat /\ cursor <= at
          /\ Occurrences(Expected(hunk)) = {at} /\ at - Declared(hunk) \in -Fuzz .. Fuzz
      BY <2>2, <3>1, <3>2
    <3> HIDE DEF hunk, at, cursor
    <3>4. Located(hunk, file, cursor) = {at}
      BY <1>1, <3>3, LocatedAtHome
    <3> QED
      BY <3>4 DEF hunk, at, cursor
  <2>4. (CHOOSE p \in {home[i]} : TRUE) = home[i] /\ {home[i]} # {}
    OBVIOUS
  <2>5. done[i] = ApplyHunk(done[i - 1], patch[i], file)
    OBVIOUS
  <2> QED
    BY <2>2, <2>3, <2>4, <2>5, Zenon DEF ApplyHunk, PutAt
<1>4. Good(0)
  BY <1>2
<1>5. ASSUME NEW i \in 1 .. n, Good(i - 1) PROVE Good(i)
  <2>1. done[i].ok = TRUE /\ done[i].cursor = home[i] + Len(Expected(patch[i]))
    <3>1. done[i] = PutAt(done[i - 1], i)
      BY <1>3, <1>5
    <3>2. /\ PutAt(done[i - 1], i).ok = TRUE
          /\ PutAt(done[i - 1], i).cursor = home[i] + Len(Expected(patch[i]))
      BY DEF PutAt
    <3> QED
      BY <3>1, <3>2, Zenon
  <2>2. Len(Expected(patch[i])) \in Nat /\ home[i] \in Nat
    BY <1>1, <1>2 DEF HunkOK
  <2>3. i + 1 \in 1 .. n => home[i] + Len(Expected(patch[i])) <= home[i + 1]
    <3>1. Ascending
      BY DEF PatchInv
    <3>2. ASSUME i + 1 \in 1 .. n PROVE home[i] >= 0 /\ home[i + 1] >= 0
      BY <1>2, <3>2
    <3> QED
      BY <3>1, <3>2 DEF Ascending
  <2> QED
    BY <2>1, <2>2, <2>3
<1>6. Bad = {}
  <2>1. Bad \in SUBSET Nat
    OBVIOUS
  <2>2. ASSUME NEW i \in Bad, \A j \in Bad : i <= j PROVE FALSE
    <3> HIDE DEF Good
    <3>1. i \in 1 .. n
      BY <1>4
    <3>2. i - 1 \in 0 .. n /\ i - 1 \notin Bad
      BY <2>2, <3>1
    <3> QED
      BY <1>5, <2>2, <3>1, <3>2
  <2> HIDE DEF Bad
  <2> QED
    BY <2>1, <2>2, HasLeast
<1>7. \A i \in 1 .. n : Good(i - 1)
  <2> HIDE DEF Good
  <2>1. \A i \in 1 .. n : i - 1 \in 0 .. n
    OBVIOUS
  <2> QED
    BY <1>6, <2>1
<1> QED
  BY <1>3, <1>7

(* The patch is applied as the lines are spliced in: two recursions over   *)
(* the same hunks, equal step by step.                                     *)
LEMMA PatchesLand == PatchInv => UniqueHunksLandAtHome
<1> SUFFICES ASSUME PatchInv, patch # <<>>, EachAtHome
             PROVE  ApplyPatch(file, patch) = [ok |-> TRUE, text |-> Spliced(home)]
  BY DEF UniqueHunksLandAtHome, EachAtHome
<1>1. PICK n \in Nat : Len(patch) = n /\ DOMAIN patch = 1..n /\ home \in [1..n -> Int]
  BY DEF PatchInv
<1> DEFINE done == CHOOSE f : f = [i \in 0 .. Len(patch) |->
                                     IF i = 0 THEN [ok |-> TRUE, out |-> <<>>, cursor |-> 0]
                                     ELSE ApplyHunk(f[i - 1], patch[i], file)]
           Put(f, i) == [out    |-> f[i - 1].out \o SubSeq(file, f[i - 1].cursor + 1, home[i]) \o Leaves(patch[i]),
                         cursor |-> home[i] + Len(Expected(patch[i]))]
           IsPut(f) == f = [i \in 0 .. Len(patch) |-> IF i = 0 THEN [out |-> <<>>, cursor |-> 0] ELSE Put(f, i)]
           put == CHOOSE f : IsPut(f)
<1>2. ApplyPatch(file, patch) = IF patch = <<>> \/ ~done[n].ok THEN Refused
                                ELSE [ok |-> TRUE, text |-> done[n].out \o SubSeq(file, done[n].cursor + 1, Len(file))]
  BY <1>1, Zenon DEF ApplyPatch
<1>3. Spliced(home) = put[n].out \o SubSeq(file, put[n].cursor + 1, Len(file))
  BY <1>1, Zenon DEF Spliced
<1>4. /\ done[0] = [ok |-> TRUE, out |-> <<>>, cursor |-> 0]
      /\ \A i \in 1 .. n : done[i] = PutAt(done[i - 1], i)
  <2>1. /\ done[0] = [ok |-> TRUE, out |-> <<>>, cursor |-> 0]
        /\ \A i \in 1 .. Len(patch) : done[i] = ApplyHunk(done[i - 1], patch[i], file)
    <3>1. Len(patch) \in Nat
      BY <1>1
    <3> QED
      BY <3>1, HunksAreApplied
  <2> HIDE DEF done
  <2> QED
    BY <1>1, <2>1, HunksGoHome
<1> HIDE DEF done
<1>5. n \in 0 .. n /\ done[n].ok = TRUE
  <2>1. CASE n = 0
    BY <1>4, <2>1
  <2>2. CASE n # 0
    <3>1. n \in 1 .. n /\ n \in 0 .. n
      BY <2>2
    <3>2. done[n] = PutAt(done[n - 1], n)
      BY <1>4, <3>1
    <3>3. PutAt(done[n - 1], n).ok = TRUE
      BY DEF PutAt
    <3> QED
      BY <3>1, <3>2, <3>3, Zenon
  <2> QED
    BY <2>1, <2>2
<1> DEFINE same == [i \in 0 .. Len(patch) |-> [out |-> done[i].out, cursor |-> done[i].cursor]]
<1>6. IsPut(same)
  <2>1. ASSUME NEW i \in 0 .. n PROVE same[i] = IF i = 0 THEN [out |-> <<>>, cursor |-> 0] ELSE Put(same, i)
    <3>1. same[i] = [out |-> done[i].out, cursor |-> done[i].cursor]
      BY <1>1
    <3>2. CASE i = 0
      BY <1>4, <3>1, <3>2
    <3>3. CASE i # 0
      <4>1. i \in 1 .. n /\ i - 1 \in 0 .. n
        BY <3>3
      <4>2. same[i - 1] = [out |-> done[i - 1].out, cursor |-> done[i - 1].cursor]
        BY <1>1, <4>1
      <4>3. same[i - 1].out = done[i - 1].out /\ same[i - 1].cursor = done[i - 1].cursor
        BY <4>2
      <4>4. /\ done[i].out = done[i - 1].out \o SubSeq(file, done[i - 1].cursor + 1, home[i]) \o Leaves(patch[i])
            /\ done[i].cursor = home[i] + Len(Expected(patch[i]))
        <5>1. done[i] = PutAt(done[i - 1], i)
          BY <1>4, <4>1
        <5>2. /\ PutAt(done[i - 1], i).out = done[i - 1].out \o SubSeq(file, done[i - 1].cursor + 1, home[i])
                                              \o Leaves(patch[i])
              /\ PutAt(done[i - 1], i).cursor = home[i] + Len(Expected(patch[i]))
          BY DEF PutAt
        <5> QED
          BY <5>1, <5>2, Zenon
      <4> HIDE DEF same
      <4> QED
        BY <3>1, <3>3, <4>3, <4>4, Zenon
    <3> QED
      BY <3>2, <3>3
  <2>2. same = [i \in 0 .. Len(patch) |-> same[i]]
    OBVIOUS
  <2> HIDE DEF same
  <2> QED
    BY <1>1, <2>1, <2>2, Zenon
<1>7. IsPut(put)
  <2> HIDE DEF IsPut
  <2> QED
    BY <1>6, Zenon
<1>8. put[n] = same[n]
  <2> DEFINE Bad == {i \in 0 .. n : put[i] # same[i]}
  <2>1. put[0] = same[0]
    <3> HIDE DEF put, same
    <3> QED
      BY <1>1, <1>6, <1>7
  <2>2. ASSUME NEW i \in 1 .. n, put[i - 1] = same[i - 1] PROVE put[i] = same[i]
    <3>1. i \in 0 .. Len(patch) /\ i # 0
      BY <1>1
    <3> HIDE DEF put, same
    <3>2. put[i] = Put(put, i) /\ same[i] = Put(same, i)
      BY <1>6, <1>7, <3>1
    <3>3. Put(put, i) = Put(same, i)
      BY <2>2, Zenon
    <3> QED
      BY <3>2, <3>3
  <2> HIDE DEF put, same
  <2>3. Bad \in SUBSET Nat
    OBVIOUS
  <2>4. ASSUME NEW i \in Bad, \A j \in Bad : i <= j PROVE FALSE
    <3>1. i \in 1 .. n
      BY <2>1
    <3>2. i - 1 \in 0 .. n /\ i - 1 \notin Bad
      BY <2>4, <3>1
    <3> QED
      BY <2>2, <2>4, <3>1, <3>2
  <2>5. Bad = {}
    <3> HIDE DEF Bad
    <3> QED
      BY <2>3, <2>4, HasLeast
  <2> QED
    BY <1>5, <2>5
<1>9. put[n].out = done[n].out /\ put[n].cursor = done[n].cursor
  <2>1. same[n] = [out |-> done[n].out, cursor |-> done[n].cursor]
    BY <1>1, <1>5
  <2> HIDE DEF put, same
  <2> QED
    BY <1>8, <2>1
<1> HIDE DEF put
<1> QED
  BY <1>2, <1>3, <1>5, <1>9

(* Every state of a file and its patch is one of these.                    *)
LEMMA PatchInvHolds == PatchSpec => []PatchInv
  BY PatchStarts, PatchingKeeps, PTL DEF PatchSpec

(* A patch of one or two hunks written against an older file goes where    *)
(* its lines have gone, for any file, any fuzz and any lines inserted or   *)
(* deleted meanwhile, if each hunk's lines still stand together, once in   *)
(* the file and within the fuzz of their declared start.                   *)
THEOREM HunksFindTheirLines == PatchSpec => []UniqueHunksLandAtHome
  BY PatchInvHolds, PatchesLand, PTL

-----------------------------------------------------------------------------
(* ReferenceGraph                                                          *)

(* The files of a chain.                                                   *)
FilesOf(c) == {c[i].file : i \in DOMAIN c}

(* A chain of lines that includes file after file, none twice.             *)
IsChain(f, c) ==
  /\ c \in Seq(installed) /\ Len(c) \in Nat /\ DOMAIN c = 1..Len(c) /\ Len(c) # 0
  /\ c[1].file = f
  /\ \A i \in 1 .. Len(c) - 1 : c[i].names = c[i + 1].file
  /\ \A i, j \in DOMAIN c : c[i].file = c[j].file => i = j

(* Lines are in files, and what they include is a file.                    *)
InstallationOK ==
  /\ installed \subseteq PossibleLines
  /\ registered \subseteq OtherFiles

(* What is known of a line.                                                *)
LEMMA LinesAre ==
  ASSUME InstallationOK, NEW l \in installed
  PROVE  /\ l.file \in YamlFiles /\ l.section \in SectionsOf(l.file)
         /\ l.names \in {"entity"} \cup YamlFiles /\ l.names # "configuration"
<1>1. PICK f \in YamlFiles :
        l \in [file : {f}, section : SectionsOf(f), names : {"entity"} \cup (YamlFiles \ {"configuration", f})]
  BY DEF InstallationOK, PossibleLines
<1>2. l.file = f /\ l.section \in SectionsOf(f) /\ l.names \in {"entity"} \cup (YamlFiles \ {"configuration", f})
  BY <1>1
<1> QED
  BY <1>1, <1>2

(* There is no longer chain than there are files.                          *)
LEMMA ChainsAre ==
  ASSUME InstallationOK, NEW f, NEW c
  PROVE  c \in Chains(f) <=> IsChain(f, c)
<1>1. IsFiniteSet(YamlFiles) /\ Cardinality(YamlFiles) \in Nat
  <2> DEFINE A == {"configuration"}
             B == {"automations"}
  <2>1. IsFiniteSet(A \cup B) /\ A \cup B = {"configuration", "automations"}
    <3>1. A \cup B = {"configuration", "automations"}
      OBVIOUS
    <3>2. IsFiniteSet(A) /\ IsFiniteSet(B)
      BY FS_Singleton
    <3> HIDE DEF A, B
    <3>3. IsFiniteSet(A \cup B)
      BY <3>2, FS_Union
    <3> QED
      BY <3>1, <3>3
  <2>2. IsFiniteSet(YamlFiles)
    BY <2>1, GraphAssumption, FS_Union DEF YamlFiles
  <2> QED
    BY <2>2, FS_CardinalityType
<1>2. ASSUME c \in Chains(f) PROVE IsChain(f, c)
  <2>1. PICK n \in 1 .. Cardinality(YamlFiles) : c \in [1 .. n -> installed]
    BY <1>2 DEF Chains
  <2>2. n \in Nat /\ n # 0 /\ Len(c) = n /\ c \in Seq(installed) /\ DOMAIN c = 1..n
    BY <1>1, <2>1
  <2> QED
    BY <1>2, <2>2 DEF Chains, IsChain
<1>3. ASSUME IsChain(f, c) PROVE c \in Chains(f)
  <2> DEFINE n == Len(c)
             Places == 1 .. n
             FileAt == [i \in Places |-> c[i].file]
  <2>1. n \in Nat /\ n # 0 /\ c \in [1 .. n -> installed]
    BY <1>3 DEF IsChain
  <2>2. \A i \in Places : c[i].file \in YamlFiles
    BY <2>1, LinesAre
  <2>3. FileAt \in Injection(Places, YamlFiles)
    BY <1>3, <2>2 DEF IsChain, Injection, IsInjective
  <2>4. IsFiniteSet(Places) /\ Cardinality(Places) = n
    <3>1. IsFiniteSet(1 .. n) /\ Cardinality(1 .. n) = IF 1 > n THEN 0 ELSE n - 1 + 1
      <4> HIDE DEF n
      <4> QED
        BY <2>1, FS_Interval
    <3> HIDE DEF n
    <3> QED
      BY <2>1, <3>1
  <2>5. Cardinality(Places) <= Cardinality(YamlFiles)
    <3> HIDE DEF FileAt, Places
    <3> QED
      BY <1>1, <2>3, <2>4, FS_Injection
  <2>6. n \in 1 .. Cardinality(YamlFiles)
    <3> HIDE DEF n
    <3> QED
      BY <1>1, <2>1, <2>4, <2>5
  <2>7. c \in UNION {[1 .. k -> installed] : k \in 1 .. Cardinality(YamlFiles)}
    <3> HIDE DEF n
    <3> QED
      BY <2>1, <2>6
  <2> QED
    BY <1>3, <2>7 DEF Chains, IsChain
<1> QED
  BY <1>2, <1>3

(* Without its last line, or its first, a chain is one.                    *)
LEMMA ChainBegins ==
  ASSUME InstallationOK, NEW f, NEW c, IsChain(f, c), Len(c) > 1
  PROVE  LET b == SubSeq(c, 1, Len(c) - 1)
         IN  /\ IsChain(f, b) /\ b[Len(b)].names = c[Len(c)].file
             /\ c[Len(c)].file \notin FilesOf(b) /\ c[Len(c)].file # f
<1> DEFINE n == Len(c)
           b == SubSeq(c, 1, Len(c) - 1)
<1>1. c \in Seq(installed) /\ n \in Nat /\ n > 1 /\ DOMAIN c = 1..n
  BY DEF IsChain
<1>2. /\ b \in Seq(installed) /\ Len(b) = n - 1 /\ DOMAIN b = 1 .. n - 1
      /\ \A i \in 1 .. n - 1 : b[i] = c[i]
  BY <1>1
<1> HIDE DEF b
<1>3. \A i \in 1 .. n - 1 : i \in DOMAIN c /\ i # n /\ n \in DOMAIN c
  <2> HIDE DEF n
  <2> QED
    BY <1>1
<1>4. IsChain(f, b)
  <2>1. b[1].file = f /\ Len(b) # 0
    BY <1>1, <1>2 DEF IsChain
  <2>2. \A i \in 1 .. Len(b) - 1 : b[i].names = b[i + 1].file
    <3>1. ASSUME NEW i \in 1 .. Len(b) - 1 PROVE b[i].names = b[i + 1].file
      <4>1. i \in 1 .. n - 1 /\ i + 1 \in 1 .. n - 1
        BY <1>1, <1>2
      <4> QED
        BY <1>2, <4>1 DEF IsChain
    <3> QED
      BY <3>1
  <2>3. \A i, j \in DOMAIN b : b[i].file = b[j].file => i = j
    BY <1>2, <1>3 DEF IsChain
  <2> QED
    BY <1>1, <1>2, <2>1, <2>2, <2>3 DEF IsChain
<1>5. b[Len(b)].names = c[n].file
  <2>1. n - 1 \in 1 .. n - 1 /\ (n - 1) + 1 = n
    BY <1>1
  <2> QED
    BY <1>2, <2>1 DEF IsChain
<1>6. c[n].file \notin FilesOf(b)
  <2>1. ASSUME NEW i \in 1 .. n - 1 PROVE b[i].file # c[n].file
    <3>1. i \in DOMAIN c /\ n \in DOMAIN c /\ i # n /\ b[i] = c[i]
      BY <1>2, <1>3
    <3> QED
      BY <3>1 DEF IsChain
  <2> QED
    BY <1>2, <2>1 DEF FilesOf
<1>7. c[n].file # f
  <2> HIDE DEF n
  <2>1. 1 \in DOMAIN c /\ n \in DOMAIN c /\ 1 # n
    BY <1>1
  <2> QED
    BY <2>1 DEF IsChain
<1> QED
  BY <1>4, <1>5, <1>6, <1>7 DEF b

(* And its rest leads from the file that the first line includes.          *)
LEMMA ChainGoesOn ==
  ASSUME InstallationOK, NEW f, NEW c, IsChain(f, c), Len(c) > 1
  PROVE  LET t == SubSeq(c, 2, Len(c))
         IN  /\ IsChain(c[1].names, t) /\ t[Len(t)] = c[Len(c)] /\ FilesOf(t) \subseteq FilesOf(c)
<1> DEFINE n == Len(c)
           t == SubSeq(c, 2, Len(c))
<1>1. c \in Seq(installed) /\ n \in Nat /\ n > 1 /\ DOMAIN c = 1..n
  BY DEF IsChain
<1>2. /\ t \in Seq(installed) /\ Len(t) = n - 1 /\ DOMAIN t = 1 .. n - 1
      /\ \A i \in 1 .. n - 1 : t[i] = c[i + 1]
  BY <1>1
<1> HIDE DEF t
<1>3. \A i \in 1 .. n - 1 : i + 1 \in DOMAIN c
  BY <1>1
<1>4. t[1].file = c[1].names
  BY <1>1, <1>2 DEF IsChain
<1>5. \A i \in 1 .. Len(t) - 1 : t[i].names = t[i + 1].file
  BY <1>1, <1>2 DEF IsChain
<1>6. \A i, j \in DOMAIN t : t[i].file = t[j].file => i = j
  <2>1. ASSUME NEW i \in DOMAIN t, NEW j \in DOMAIN t, t[i].file = t[j].file PROVE i = j
    <3>1. c[i + 1].file = c[j + 1].file /\ i + 1 \in DOMAIN c /\ j + 1 \in DOMAIN c
      BY <1>2, <1>3, <2>1
    <3>2. i + 1 = j + 1
      BY <3>1 DEF IsChain
    <3> QED
      BY <1>2, <3>2
  <2> QED
    BY <2>1
<1>7. IsChain(c[1].names, t)
  BY <1>1, <1>2, <1>4, <1>5, <1>6 DEF IsChain
<1>8. t[Len(t)] = c[n]
  BY <1>1, <1>2
<1>9. FilesOf(t) \subseteq FilesOf(c)
  BY <1>2, <1>3 DEF FilesOf
<1> QED
  BY <1>7, <1>8, <1>9 DEF t

(* A file that is read has each of its lines at the end of a chain: that   *)
(* line alone, or one whose first line includes a file that reads it, too. *)
LEMMA ReadLinesAreReached ==
  ASSUME InstallationOK, NEW f, NEW l \in installed, l.file \in Reads(f)
  PROVE  \E c \in Chains(f) :
           /\ Last(c) = l
           /\ c[1] \in installed /\ c[1].file = f
           /\ c[1] = l \/ (c[1].names \in YamlFiles /\ l.file \in Reads(c[1].names))
<1>1. CASE l.file = f
  <2> DEFINE c == <<l>>
  <2>1. IsChain(f, c)
    BY <1>1 DEF IsChain
  <2>2. c \in Chains(f) /\ Last(c) = l /\ c[1] = l
    BY <2>1, ChainsAre DEF Last
  <2> QED
    BY <1>1, <2>2
<1>2. CASE l.file # f
  <2>1. PICK b \in Followed(f) : Last(b).names = l.file
    BY <1>2 DEF Reads
  <2>2. b \in Chains(f) /\ l.file \notin FilesOf(b) /\ l.file \in YamlFiles
    BY <2>1 DEF Followed, FilesOf
  <2>3. IsChain(f, b) /\ b[Len(b)].names = l.file
    BY <2>1, <2>2, ChainsAre DEF Last
  <2> DEFINE n == Len(b)
             c == Append(b, l)
  <2>4. b \in Seq(installed) /\ n \in Nat /\ n # 0 /\ DOMAIN b = 1..n
    BY <2>3 DEF IsChain
  <2>5. /\ c \in Seq(installed) /\ Len(c) = n + 1 /\ DOMAIN c = 1 .. n + 1
        /\ c[n + 1] = l /\ \A i \in 1 .. n : c[i] = b[i]
    BY <2>4
  <2> HIDE DEF c
  <2>6. IsChain(f, c)
    <3>1. c[1] = b[1] /\ b[1].file = f
      BY <2>3, <2>4, <2>5 DEF IsChain
    <3>2. ASSUME NEW i \in 1 .. Len(c) - 1 PROVE c[i].names = c[i + 1].file
      <4>1. CASE i = n
        BY <2>3, <2>5, <4>1
      <4>2. CASE i # n
        <5>1. i \in 1 .. n /\ i + 1 \in 1 .. n /\ i \in 1 .. n - 1
          BY <2>4, <2>5, <4>2
        <5>2. b[i].names = b[i + 1].file
          BY <2>3, <5>1 DEF IsChain
        <5> QED
          BY <2>5, <5>1, <5>2
      <4> QED
        BY <4>1, <4>2
    <3>3. \A i \in 1 .. n : b[i].file # l.file
      BY <2>2, <2>4 DEF FilesOf
    <3>4. ASSUME NEW i \in DOMAIN c, NEW j \in DOMAIN c, c[i].file = c[j].file PROVE i = j
      <4>1. CASE i \in 1 .. n /\ j \in 1 .. n
        BY <2>3, <2>4, <2>5, <3>4, <4>1 DEF IsChain
      <4>2. CASE i = n + 1 /\ j \in 1 .. n
        BY <2>5, <3>3, <3>4, <4>2
      <4>3. CASE j = n + 1 /\ i \in 1 .. n
        BY <2>5, <3>3, <3>4, <4>3
      <4> QED
        BY <2>4, <2>5, <4>1, <4>2, <4>3
    <3> QED
      BY <2>4, <2>5, <3>1, <3>2, <3>4 DEF IsChain
  <2>7. c \in Chains(f) /\ Last(c) = l
    BY <2>5, <2>6, ChainsAre DEF Last
  <2>8. c[1] = b[1] /\ c[1] \in installed /\ c[1].file = f
    BY <2>3, <2>4, <2>5 DEF IsChain
  <2>9. b[1].names \in YamlFiles /\ l.file \in Reads(b[1].names)
    <3>1. CASE n = 1
      BY <2>2, <2>3, <3>1 DEF Reads
    <3>2. CASE n # 1
      <4> DEFINE t == SubSeq(b, 2, Len(b))
      <4>1. IsChain(b[1].names, t) /\ t[Len(t)] = b[Len(b)] /\ FilesOf(t) \subseteq FilesOf(b)
        <5>1. Len(b) > 1
          BY <2>4, <3>2
        <5> QED
          BY <2>3, <5>1, ChainGoesOn
      <4> HIDE DEF t
      <4>2. t \in Followed(b[1].names)
        BY <2>2, <2>3, <4>1, ChainsAre DEF Followed, FilesOf, Last
      <4>3. Last(t).names = l.file
        BY <2>3, <4>1 DEF Last
      <4>4. b[1].names = b[2].file /\ b[2] \in installed
        BY <2>3, <2>4, <3>2 DEF IsChain
      <4>5. b[1].names \in YamlFiles
        BY <4>4, LinesAre
      <4> QED
        BY <4>2, <4>3, <4>5 DEF Reads
    <3> QED
      BY <3>1, <3>2
  <2> QED
    BY <2>7, <2>8, <2>9
<1> QED
  BY <1>1, <1>2

(* A walk ends in a file that was read, and comes back to none.            *)
LEMMA WalksEnd ==
  ASSUME InstallationOK, NEW f, NEW w \in Load(f)
  PROVE  /\ Last(w) \in Mentioning /\ Last(w).file \in Reads(f)
         /\ IF Len(w) = 1 THEN w \in [1 .. 1 -> {Last(w)}] /\ Last(w).file = f
            ELSE Last(w).file # f /\ Last(w).file # "configuration"
<1>1. IsChain(f, w) /\ Last(w) \in Mentioning /\ w \in Chains(f)
  BY ChainsAre DEF Load
<1> DEFINE n == Len(w)
<1>2. w \in Seq(installed) /\ n \in Nat /\ n # 0 /\ DOMAIN w = 1 .. n /\ Last(w) = w[n]
  BY <1>1 DEF IsChain, Last
<1>3. CASE n = 1
  <2>1. w \in [1 .. 1 -> {w[1]}]
    BY <1>2, <1>3
  <2>2. w[1].file = f
    BY <1>1 DEF IsChain
  <2> QED
    BY <1>1, <1>2, <1>3, <2>1, <2>2 DEF Reads
<1>4. CASE n # 1
  <2> DEFINE b == SubSeq(w, 1, Len(w) - 1)
  <2>1. /\ IsChain(f, b) /\ b[Len(b)].names = w[n].file
        /\ w[n].file \notin FilesOf(b) /\ w[n].file # f
    <3>1. Len(w) > 1
      BY <1>2, <1>4
    <3> QED
      BY <1>1, <3>1, ChainBegins
  <2> HIDE DEF b
  <2>2. w[n] \in installed
    BY <1>2
  <2>3. w[n].file \in YamlFiles
    BY <2>2, LinesAre
  <2>4. b \in Followed(f)
    BY <2>1, <2>3, ChainsAre DEF Followed, FilesOf, Last
  <2>5. w[n].file \in Reads(f)
    BY <2>1, <2>4 DEF Reads, Last
  <2>6. b[Len(b)] \in installed
    BY <2>1 DEF IsChain
  <2>7. w[n].file # "configuration"
    BY <2>1, <2>6, LinesAre
  <2> QED
    BY <1>1, <1>2, <1>4, <2>1, <2>5, <2>7
<1> QED
  BY <1>3, <1>4

(* A line in sight is reached in a section that is walked.                 *)
LEMMA InSight ==
  ASSUME InstallationOK, NEW f, NEW l \in Mentioning \ OutOfSight, l.file \in Reads(f)
  PROVE  \E w \in Load(f) : /\ Last(w) = l /\ w[1].file = f /\ w[1].section \in SectionsOf(f)
                            /\ w[1] \in installed \ Unwalked
<1>1. l \in installed
  BY DEF Mentioning
<1>2. PICK c \in Chains(f) :
        /\ Last(c) = l
        /\ c[1] \in installed /\ c[1].file = f
        /\ c[1] = l \/ (c[1].names \in YamlFiles /\ l.file \in Reads(c[1].names))
  BY <1>1, ReadLinesAreReached
<1>3. c \in Load(f)
  BY <1>2 DEF Load
<1>4. c[1] \notin Unwalked
  <2>1. CASE c[1] = l
    BY <2>1 DEF OutOfSight
  <2>2. ASSUME c[1] \in Unwalked, c[1].names \in YamlFiles, l.file \in Reads(c[1].names) PROVE FALSE
    <3>1. c[1].names \in {u.names : u \in Unwalked} \cap YamlFiles
      BY <2>2
    <3>2. l.file \in ReadsAll({u.names : u \in Unwalked} \cap YamlFiles)
      BY <2>2, <3>1 DEF ReadsAll
    <3> QED
      BY <1>1, <3>2 DEF OutOfSight
  <2> QED
    BY <1>2, <2>1, <2>2
<1>5. c[1].section \in SectionsOf(f)
  BY <1>2, LinesAre
<1> QED
  BY <1>2, <1>3, <1>4, <1>5

(* Each pass walks what it reads.                                          *)
LEMMA PassesWalk ==
  ASSUME InstallationOK, NEW l \in Mentioning \ OutOfSight
  PROVE  /\ l.file \in YamlLayerFiles => \E e \in YamlLayer : Last(e.walk) = l
         /\ l.file \in DashboardFiles => \E e \in YamlDashboards : Last(e.walk) = l
         /\ l.file \in LooseFiles => \E e \in LooseYaml : Last(e.walk) = l
<1>1. ASSUME l.file \in Reads("configuration") PROVE \E e \in YamlLayer : Last(e.walk) = l
  <2>1. PICK w \in Load("configuration") :
          /\ Last(w) = l /\ w[1].file = "configuration" /\ w[1].section \in SectionsOf("configuration")
          /\ w[1] \in installed \ Unwalked
    BY <1>1, InSight
  <2>2. w[1].section = "automation" /\ asList
    BY <2>1 DEF SectionsOf, Unwalked
  <2> DEFINE e == [pass |-> "automation", walk |-> w]
  <2>3. e \in YamlLayer /\ e.walk = w
    BY <2>2 DEF YamlLayer, EdgesOf, WalksIn
  <2> QED
    BY <2>1, <2>3
<1>2. ASSUME l.file \in Reads("automations"), "automations" \in Standalone PROVE \E e \in YamlLayer : Last(e.walk) = l
  <2>1. PICK w \in Load("automations") :
          /\ Last(w) = l /\ w[1].file = "automations" /\ w[1].section \in SectionsOf("automations")
          /\ w[1] \in installed \ Unwalked
    BY <1>2, InSight
  <2>2. asList
    BY <2>1 DEF SectionsOf, Unwalked
  <2> DEFINE e == [pass |-> "automation", walk |-> w]
  <2>3. e \in YamlLayer /\ e.walk = w
    BY <1>2, <2>2 DEF YamlLayer, EdgesOf
  <2> QED
    BY <2>1, <2>3
<1>3. l.file \in YamlLayerFiles => \E e \in YamlLayer : Last(e.walk) = l
  BY <1>1, <1>2 DEF YamlLayerFiles, ReadsAll, Standalone
<1>4. ASSUME l.file \in DashboardFiles PROVE \E e \in YamlDashboards : Last(e.walk) = l
  <2>1. PICK d \in registered : l.file \in Reads(d)
    BY <1>4 DEF DashboardFiles, ReadsAll
  <2>2. d # "configuration" /\ d # "automations"
    BY GraphAssumption DEF InstallationOK
  <2>3. PICK w \in Load(d) : /\ Last(w) = l /\ w[1].file = d /\ w[1].section \in SectionsOf(d)
                             /\ w[1] \in installed \ Unwalked
    BY <2>1, InSight
  <2>4. w[1].section = "views"
    BY <2>2, <2>3 DEF SectionsOf, Unwalked
  <2> DEFINE e == [pass |-> "dashboard", walk |-> w]
  <2>5. e \in YamlDashboards /\ e.walk = w
    BY <2>4 DEF YamlDashboards, EdgesOf, WalksIn
  <2> QED
    BY <2>3, <2>5
<1>5. ASSUME l.file \in LooseFiles PROVE \E e \in LooseYaml : Last(e.walk) = l
  <2>1. l.file \in Reads(l.file)
    BY DEF Reads
  <2>2. PICK w \in Load(l.file) : Last(w) = l
    BY <2>1, InSight
  <2> DEFINE e == [pass |-> "loose", walk |-> w]
  <2>3. e \in LooseYaml /\ e.walk = w
    BY <1>5 DEF LooseYaml, EdgesOf
  <2> QED
    BY <2>2, <2>3
<1> QED
  BY <1>3, <1>4, <1>5

(* A built graph has the edges of the three passes.                        *)
GraphInv ==
  /\ InstallationOK
  /\ graph.built /\ ~graph.raised => graph.edges = YamlLayer \cup YamlDashboards \cup LooseYaml

(* The graph is empty at first, and every installation is made of lines.   *)
LEMMA GraphStarts == GraphInit => GraphInv
<1> SUFFICES ASSUME GraphInit PROVE GraphInv
  OBVIOUS
<1>1. registered \subseteq OtherFiles
  BY DEF GraphInit
<1>2. installed \subseteq PossibleLines
  <2>1. PICK n \in 0 .. MaxRefLines : installed \in kSubset(n, PossibleLines)
    BY DEF GraphInit
  <2> QED
    BY <2>1 DEF kSubset
<1>3. graph.built = FALSE
  BY DEF GraphInit, NoGraph
<1> QED
  BY <1>1, <1>2, <1>3 DEF GraphInv, InstallationOK

(* Building changes nothing of the installation, so nothing that a pass    *)
(* reads or walks.                                                         *)
LEMMA BuildingReads ==
  ASSUME UNCHANGED <<installed, asList, registered, skipped, unparsable>>
  PROVE  /\ InstallationOK' <=> InstallationOK
         /\ (YamlLayer \cup YamlDashboards \cup LooseYaml)' = YamlLayer \cup YamlDashboards \cup LooseYaml
<1>1. Mentioning' = Mentioning /\ (InstallationOK' <=> InstallationOK)
  BY DEF Mentioning, InstallationOK, PossibleLines, YamlFiles, SectionsOf
<1>2. ASSUME NEW f PROVE (Chains(f))' = Chains(f)
  BY DEF Chains, YamlFiles
<1>3. ASSUME NEW f PROVE (Load(f))' = Load(f)
  BY <1>1, <1>2 DEF Load
<1>4. ASSUME NEW f PROVE (Reads(f))' = Reads(f)
  BY <1>2 DEF Reads, Followed, YamlFiles
<1>5. ASSUME NEW fs PROVE (ReadsAll(fs))' = ReadsAll(fs)
  BY <1>4 DEF ReadsAll
<1>6. Standalone' = Standalone
  BY <1>5 DEF Standalone
<1>7. YamlLayer' = YamlLayer
  BY <1>3, <1>6 DEF YamlLayer, EdgesOf, WalksIn
<1>8. YamlDashboards' = YamlDashboards
  BY <1>3 DEF YamlDashboards, EdgesOf, WalksIn
<1>9. CoveredFiles' = CoveredFiles
  BY <1>4, <1>6 DEF CoveredFiles, YamlLayerFiles, DashboardFiles, ReadsAll
<1>10. LooseFiles' = LooseFiles
  BY <1>4, <1>9 DEF LooseFiles, YamlFiles, ReadsAll
<1>11. LooseYaml' = LooseYaml
  BY <1>3, <1>10 DEF LooseYaml, EdgesOf
<1> QED
  BY <1>1, <1>7, <1>8, <1>11

(* build_index makes the edges of the three passes, or none.               *)
LEMMA BuildingKeeps ==
  ASSUME GraphInv, [GraphNext]_graphVars
  PROVE  GraphInv'
<1>1. UNCHANGED <<installed, asList, registered, skipped, unparsable>>
  BY DEF GraphNext, BuildIndex, graphVars
<1> DEFINE All == YamlLayer \cup YamlDashboards \cup LooseYaml
<1>2. (InstallationOK' <=> InstallationOK) /\ All' = All
  BY <1>1, BuildingReads
<1> HIDE DEF All
<1>3. graph'.built /\ ~graph'.raised => graph'.edges = All
  <2>1. CASE graph' = graph
    BY <2>1 DEF GraphInv, All
  <2>2. CASE BuildIndex
    BY <2>2 DEF BuildIndex, NoGraph, All
  <2> QED
    BY <2>1, <2>2 DEF GraphNext, graphVars
<1> QED
  BY <1>2, <1>3 DEF GraphInv, All

(* A file in sight is covered, or the loose scan walks it.                 *)
LEMMA AllAreFound ==
  ASSUME GraphInv, graph.built, ~graph.raised, NEW l \in Mentioning \ OutOfSight,
         l.file \notin skipped, ReadsAll({l.file}) \cap unparsable = {}
  PROVE  \E e \in graph.edges : Last(e.walk) = l
<1>1. InstallationOK /\ l \in installed
  BY DEF GraphInv, Mentioning
<1>2. l.file \in YamlFiles
  BY <1>1, LinesAre
<1>3. l.file \in YamlLayerFiles \/ l.file \in DashboardFiles \/ l.file \in LooseFiles
  BY <1>2 DEF CoveredFiles, LooseFiles
<1>4. \E e \in YamlLayer \cup YamlDashboards \cup LooseYaml : Last(e.walk) = l
  BY <1>1, <1>3, PassesWalk
<1> QED
  BY <1>4 DEF GraphInv

(* Where the walk of an edge begins.                                       *)
LEMMA EdgesAre ==
  ASSUME GraphInv, graph.built, ~graph.raised, NEW e \in graph.edges
  PROVE  \/ /\ e = [pass |-> "automation", walk |-> e.walk] /\ e.pass = "automation"
            /\ \E f \in {"configuration"} \cup Standalone : e.walk \in Load(f)
         \/ /\ e.pass = "dashboard"
            /\ \E f \in registered : e.walk \in Load(f)
         \/ /\ e.pass = "loose"
            /\ \E f \in LooseFiles : e.walk \in Load(f)
<1>1. e \in YamlLayer \/ e \in YamlDashboards \/ e \in LooseYaml
  BY DEF GraphInv
<1>2. CASE e \in YamlLayer
  <2>1. PICK w \in WalksIn("configuration", "automation") \cup UNION {Load(f) : f \in Standalone} :
          e = [pass |-> "automation", walk |-> w]
    BY <1>2 DEF YamlLayer, EdgesOf
  <2>2. w \in Load("configuration") \/ \E f \in Standalone : w \in Load(f)
    BY DEF WalksIn
  <2>3. e.pass = "automation" /\ e.walk = w
    BY <2>1
  <2> QED
    BY <2>1, <2>2, <2>3
<1>3. CASE e \in YamlDashboards
  <2>1. PICK w \in UNION {WalksIn(d, "views") : d \in registered} : e = [pass |-> "dashboard", walk |-> w]
    BY <1>3 DEF YamlDashboards, EdgesOf
  <2>2. \E f \in registered : w \in Load(f)
    BY DEF WalksIn
  <2>3. e.pass = "dashboard" /\ e.walk = w
    BY <2>1
  <2> QED
    BY <2>2, <2>3
<1>4. CASE e \in LooseYaml
  <2>1. PICK w \in UNION {Load(f) : f \in LooseFiles} : e = [pass |-> "loose", walk |-> w]
    BY <1>4 DEF LooseYaml, EdgesOf
  <2>2. e.pass = "loose" /\ e.walk = w
    BY <2>1
  <2> QED
    BY <2>1, <2>2
<1> QED
  BY <1>1, <1>2, <1>3, <1>4

(* A file read for want of a pass before it was read by none.              *)
LEMMA NoneIsFoundTwice ==
  ASSUME GraphInv, graph.built, ~graph.raised, NEW d \in graph.edges, NEW e \in graph.edges,
         Len(d.walk) = 1, d # e, e.pass \in ReadBefore(d.pass)
  PROVE  Last(d.walk) # Last(e.walk)
<1> SUFFICES ASSUME Last(d.walk) = Last(e.walk) PROVE FALSE
  OBVIOUS
<1>1. InstallationOK
  BY DEF GraphInv
<1>2. CASE d.pass = "dashboard"
  BY <1>2 DEF ReadBefore
<1>3. CASE d.pass = "loose"
  <2>1. PICK f \in LooseFiles : d.walk \in Load(f)
    BY <1>3, EdgesAre
  <2>2. Last(d.walk).file \notin CoveredFiles
    BY <1>1, <2>1, WalksEnd DEF LooseFiles
  <2>3. e.pass = "automation" \/ e.pass = "dashboard"
    BY <1>3 DEF ReadBefore
  <2>4. \E g \in {"configuration"} \cup Standalone \cup registered : e.walk \in Load(g)
    BY <2>3, EdgesAre
  <2>5. PICK g \in {"configuration"} \cup Standalone \cup registered : e.walk \in Load(g)
    BY <2>4
  <2>6. Last(e.walk).file \in Reads(g)
    BY <1>1, <2>5, WalksEnd
  <2>7. Last(e.walk).file \in CoveredFiles
    BY <2>6 DEF CoveredFiles, YamlLayerFiles, DashboardFiles, ReadsAll
  <2> QED
    BY <2>2, <2>7
<1>4. CASE d.pass = "automation"
  <2>1. e.pass = "automation"
    BY <1>4 DEF ReadBefore
  <2>2. /\ d = [pass |-> "automation", walk |-> d.walk]
        /\ \E f \in {"configuration"} \cup Standalone : d.walk \in Load(f)
    BY <1>4, EdgesAre
  <2>3. /\ e = [pass |-> "automation", walk |-> e.walk]
        /\ \E f \in {"configuration"} \cup Standalone : e.walk \in Load(f)
    BY <2>1, EdgesAre
  <2>4. PICK f \in {"configuration"} \cup Standalone : d.walk \in Load(f)
    BY <2>2
  <2>5. PICK g \in {"configuration"} \cup Standalone : e.walk \in Load(g)
    BY <2>3
  <2>6. d.walk \in [1 .. 1 -> {Last(d.walk)}] /\ Last(d.walk).file = f
    BY <1>1, <2>4, WalksEnd
  <2>7. Last(e.walk).file \in Reads(g)
    BY <1>1, <2>5, WalksEnd
  <2>8. CASE Len(e.walk) = 1
    <3>1. e.walk \in [1 .. 1 -> {Last(e.walk)}]
      BY <1>1, <2>5, <2>8, WalksEnd
    <3> DEFINE l == Last(d.walk)
               v == d.walk
               w == e.walk
    <3>2. v \in [1 .. 1 -> {l}] /\ w \in [1 .. 1 -> {l}]
      BY <2>6, <3>1
    <3> HIDE DEF l, v, w
    <3>3. v = w
      BY <3>2
    <3>4. d.walk = e.walk
      BY <3>3 DEF v, w
    <3> QED
      BY <2>2, <2>3, <3>4
  <2>9. CASE Len(e.walk) # 1
    <3>1. f # g /\ f # "configuration"
      BY <1>1, <2>5, <2>6, <2>9, WalksEnd
    <3>2. f = "automations" /\ f \in Standalone /\ g = "configuration"
      BY <3>1 DEF Standalone
    <3>3. f \in Reads("configuration")
      BY <2>6, <2>7, <3>2
    <3> QED
      BY <3>2, <3>3 DEF Standalone, ReadsAll
  <2> QED
    BY <2>8, <2>9
<1> QED
  BY <1>2, <1>3, <1>4, EdgesAre

(* Every state of a build is one of these.                                 *)
LEMMA GraphInvHolds == GraphSpec => []GraphInv
  BY GraphStarts, BuildingKeeps, PTL DEF GraphSpec

(* Whatever files there are, however many lines include them and whatever  *)
(* cycles they form: a build that comes to its end has an edge for every   *)
(* line that names the entity in sight of a pass, and no file read for     *)
(* want of a pass before it was walked by one.                             *)
THEOREM MentionsAreFound == GraphSpec => []MentionsAreFoundOnce
<1>1. GraphInv => MentionsAreFoundOnce
  BY AllAreFound, NoneIsFoundTwice DEF MentionsAreFoundOnce
<1> QED
  BY <1>1, GraphInvHolds, PTL
=============================================================================
