------------------------------- MODULE WsClient -------------------------------
(***************************************************************************)
(* connections/websocket.py: one socket to Home Assistant shared by every  *)
(* tool call, the futures of the commands under way, the listener that     *)
(* resolves them, and reconnection under a lock.                           *)
(***************************************************************************)
EXTENDS Naturals, Sequences, SequencesExt, FiniteSets

CONSTANTS
  Callers,       \* tool calls that may be in send_command at once
  None,
  WsFaults,      \* which of "lose" and "cancel" happen
  MaxCommands,   \* bound on the message ids
  MaxSockets     \* bound on the sockets opened

(* A socket is open or lost, and somewhere in the handshake: greeting, our *)
(* proof is under way, accepted by Home Assistant, or spoiled by a command *)
(* that got there before our proof.                                        *)
Sockets == [no : Nat, link : {"open", "lost"}, stage : {"greeting", "proving", "accepted", "spoiled"}]

ASSUME WsAssumption ==
  /\ None \notin Callers
  /\ None \notin Sockets
  /\ MaxCommands \in Nat
  /\ MaxSockets \in Nat

VARIABLES
  socket,      \* self._conn, or None
  listener,    \* self._listener_task
  reconnector, \* the holder of self._reconnect_lock, or None
  lastId,      \* self._msg_id
  pending,     \* the keys of self._pending
  call,        \* what each caller is doing in send_command
  sent,        \* messages Home Assistant has not handled
  inbox,       \* replies the listener has not read
  opened       \* how many sockets were opened

wsVars == <<socket, listener, reconnector, lastId, pending, call, sent, inbox, opened>>

(* A command is sent on one socket; early says that its handshake was not  *)
(* over yet.                                                               *)
Idle == [pc |-> "idle", what |-> None, id |-> 0, future |-> "none", data |-> {}, on |-> 0, early |-> FALSE]

Alive == socket # None /\ socket.link = "open"

CanCall(t) == call[t].pc = "idle" /\ lastId < MaxCommands

(* A future can be resolved until it has a result, an error, or wait_for   *)
(* has cancelled it.                                                       *)
Fail(ids, c) ==
  [t \in Callers |-> IF c[t].id \in ids /\ c[t].future = "waiting" THEN [c[t] EXCEPT !.future = "error"] ELSE c[t]]

FailPending == call' = Fail(pending, call) /\ pending' = {}

NextId == lastId + 1

Register(t, what, k) ==
  /\ lastId' = NextId
  /\ pending' = pending \cup {NextId}
  /\ call' = [call EXCEPT ![t] = [pc |-> "waiting", what |-> what, id |-> NextId, future |-> "waiting",
                                  data |-> {}, on |-> k.no, early |-> listener' # "running"]]
  /\ sent' = Append(sent, [id |-> NextId, what |-> what])
  /\ socket' = IF k.stage = "greeting" THEN [k EXCEPT !.stage = "spoiled"] ELSE k

SendNow(t, what) ==
  /\ CanCall(t)
  /\ Alive
  /\ UNCHANGED <<listener, reconnector, inbox, opened>>
  /\ Register(t, what, socket)

SendLater(t, what) ==
  /\ CanCall(t)
  /\ ~Alive
  /\ call' = [call EXCEPT ![t] = [Idle EXCEPT !.pc = "locking", !.what = what]]
  /\ UNCHANGED <<socket, listener, reconnector, lastId, pending, sent, inbox, opened>>

Send(t, what) == SendNow(t, what) \/ SendLater(t, what)

(* Variant: the second look at the connection is left out.                 *)
LooksOnce == FALSE

(* A peer may have reconnected while t waited for the lock.                *)
PeerReconnected == Alive

LockAndSend(t) ==
  /\ call[t].pc = "locking"
  /\ reconnector = None
  /\ PeerReconnected
  /\ UNCHANGED <<listener, reconnector, inbox, opened>>
  /\ Register(t, call[t].what, socket)

(* The old listener is cancelled, which fails what is pending, and the     *)
(* socket is given up.                                                     *)
LockAndReset(t) ==
  /\ call[t].pc = "locking"
  /\ reconnector = None
  /\ ~PeerReconnected
  /\ reconnector' = t
  /\ listener' = "none"
  /\ socket' = None
  /\ pending' = {}
  /\ call' = [Fail(pending, call) EXCEPT ![t].pc = "connecting"]
  /\ sent' = <<>>
  /\ inbox' = <<>>
  /\ UNCHANGED <<lastId, opened>>

Connect(t) ==
  /\ call[t].pc = "connecting"
  /\ opened < MaxSockets
  /\ socket' = [no |-> opened + 1, link |-> "open", stage |-> "greeting"]
  /\ opened' = opened + 1
  /\ call' = [call EXCEPT ![t].pc = "greeting"]
  /\ UNCHANGED <<listener, reconnector, lastId, pending, sent, inbox>>

Authenticate(t) ==
  /\ call[t].pc = "greeting"
  /\ Alive
  /\ socket' = IF socket.stage = "greeting" THEN [socket EXCEPT !.stage = "proving"] ELSE socket
  /\ call' = [call EXCEPT ![t].pc = "proving"]
  /\ UNCHANGED <<listener, reconnector, lastId, pending, sent, inbox, opened>>

(* auth_ok arrives; the listener starts and the command goes out.          *)
Authenticated(t) ==
  /\ call[t].pc = "proving"
  /\ Alive
  /\ socket.stage = "accepted"
  /\ listener' = "running"
  /\ reconnector' = None
  /\ Register(t, call[t].what, socket)
  /\ UNCHANGED <<inbox, opened>>

(* Variant: an exception leaves the reconnect lock taken.                  *)
KeepsLock == reconnector

AfterFailure == None

(* The socket cannot be opened, or is lost before auth_ok is read:         *)
(* send_command raises, and self._conn stays what it is.                   *)
ConnectFails(t) ==
  /\ \/ call[t].pc = "connecting"
     \/ call[t].pc \in {"greeting", "proving"} /\ ~Alive
  /\ reconnector' = AfterFailure
  /\ call' = [call EXCEPT ![t] = Idle]
  /\ UNCHANGED <<socket, listener, lastId, pending, sent, inbox, opened>>

(* Home Assistant checks our proof, or what came in its place.             *)
HaAccepts ==
  /\ Alive
  /\ socket.stage = "proving"
  /\ socket' = [socket EXCEPT !.stage = "accepted"]
  /\ UNCHANGED <<listener, reconnector, lastId, pending, call, sent, inbox, opened>>

(* Home Assistant handles a command, and carries it out or refuses it.     *)
HaReplies(i, success, data) ==
  /\ Alive
  /\ socket.stage = "accepted"
  /\ inbox' = Append(inbox, [id |-> sent[i].id, ok |-> success, data |-> data])
  /\ sent' = RemoveAt(sent, i)
  /\ UNCHANGED <<socket, listener, reconnector, lastId, pending, call, opened>>

(* The socket closes.  Replies on the way may or may not have arrived.     *)
Closed ==
  /\ socket' = [socket EXCEPT !.link = "lost"]
  /\ sent' = <<>>
  /\ \E n \in 0..Len(inbox) : inbox' = SubSeq(inbox, 1, n)
  /\ UNCHANGED <<listener, reconnector, lastId, pending, call, opened>>

(* Home Assistant hangs up on a handshake that fails or takes too long.    *)
HangUp == Alive /\ socket.stage # "accepted" /\ Closed

Lose == Alive /\ "lose" \in WsFaults /\ Closed

Owner(i) == {t \in Callers : call[t].id = i}

(* set_result on a cancelled future raises, which ends the listener        *)
(* without failing anything.                                               *)
Listen ==
  /\ listener = "running"
  /\ inbox # <<>>
  /\ LET r == Head(inbox)
         ts == {t \in Owner(r.id) : r.id \in pending}
     IN /\ call' = [t \in Callers |-> IF t \in ts /\ call[t].future = "waiting"
                                      THEN [call[t] EXCEPT !.future = IF r.ok THEN "result" ELSE "refusal", !.data = r.data]
                                      ELSE call[t]]
        /\ listener' = IF \E t \in ts : call[t].future = "cancelled" THEN "crashed" ELSE "running"
  /\ inbox' = Tail(inbox)
  /\ UNCHANGED <<socket, reconnector, lastId, pending, sent, opened>>

(* Variant: the listener just returns when the connection is closed.       *)
JustReturns == UNCHANGED <<call, pending>>

AtEnd == FailPending

ListenerEnds ==
  /\ listener = "running"
  /\ socket.link = "lost"
  /\ inbox = <<>>
  /\ listener' = "ended"
  /\ AtEnd
  /\ UNCHANGED <<socket, reconnector, lastId, sent, inbox, opened>>

(* wait_for gives up: the future is cancelled now, and the finally clause  *)
(* runs in a later turn of the event loop.                                 *)
Timeout(t) ==
  /\ call[t].future = "waiting"
  /\ call' = [call EXCEPT ![t].future = "cancelled"]
  /\ UNCHANGED <<socket, listener, reconnector, lastId, pending, sent, inbox, opened>>

(* The tool call is cancelled: a future it waits for with it; a caller     *)
(* that reconnects leaves the socket as it is and frees the lock.          *)
CancelCall(t) ==
  /\ "cancel" \in WsFaults
  /\ call[t].pc \in {"locking", "connecting", "greeting", "proving"}
  /\ call' = [call EXCEPT ![t] = Idle]
  /\ reconnector' = IF reconnector = t THEN None ELSE reconnector
  /\ UNCHANGED <<socket, listener, lastId, pending, sent, inbox, opened>>

(* The finally clause: the entry goes, and the caller has its outcome.     *)
Leave(t) ==
  /\ call[t].pc = "waiting"
  /\ call[t].future # "waiting"
  /\ pending' = pending \ {call[t].id}
  /\ call' = [call EXCEPT ![t] = Idle]
  /\ UNCHANGED <<socket, listener, reconnector, lastId, sent, inbox, opened>>

Resume(t) ==
  \/ LockAndSend(t)
  \/ LockAndReset(t)
  \/ Connect(t)
  \/ Authenticate(t)
  \/ Authenticated(t)

Network == HaAccepts \/ HangUp \/ Lose \/ Listen \/ ListenerEnds

WsInit ==
  /\ socket = None
  /\ listener = "none"
  /\ reconnector = None
  /\ lastId = 0
  /\ pending = {}
  /\ call = [t \in Callers |-> Idle]
  /\ sent = <<>>
  /\ inbox = <<>>
  /\ opened = 0

(***************************************************************************)
(* Properties                                                              *)
(***************************************************************************)

(* A command does not sit out its time-out on a socket known to be closed: *)
(* the listener has yet to fail it, or the command came too early to have  *)
(* one, or the listener has crashed.                                       *)
LostSocketFailsItsCalls ==
  \A t \in Callers :
    call[t].future = "waiting" =>
      /\ socket # None
      /\ call[t].on = socket.no
      /\ socket.link = "lost" => listener \in {"running", "crashed"} \/ call[t].early

(* Whoever ended, failed or was cancelled gave the reconnect lock back:    *)
(* only a call that still reconnects holds it.                             *)
LockIsGivenBack == reconnector # None => call[reconnector].pc \in {"connecting", "greeting", "proving"}

(* Concurrent callers do not tear down each other's connection: a socket   *)
(* that is open, authenticated and listened to is never replaced.          *)
FreshConnectionStays ==
  [][Alive /\ listener = "running" => socket' # None /\ socket'.no = socket.no]_wsVars

(* Documented of _is_conn_alive (websocket.py:159): the connection is open *)
(* and usable.  Nobody reconnects, so a listener has to be there.          *)
OpenMeansUsable == Alive /\ reconnector = None => listener = "running"

===============================================================================
