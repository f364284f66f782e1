------------------------- MODULE ConnectionProofs -------------------------
(***************************************************************************)
(* The shared socket and the registry reads over it, for any number of     *)
(* callers.  WsInv says who reconnects and what a waiting call waits for;  *)
(* RegistryInv adds what messages on the wire stand for and how the write  *)
(* clock compares with the file.                                           *)
(***************************************************************************)
EXTENDS StorageRegistry, TLAPS

CallRecord ==
  [pc     : {"idle", "locking", "connecting", "greeting", "proving", "waiting"},
   what   : {None, "list", "update"},
   id     : Nat,
   future : {"none", "waiting", "result", "refusal", "error", "cancelled"},
   data   : SUBSET Nat,
   on     : Nat,
   early  : BOOLEAN]

IsSeq(s) == s \in Seq(ToSet(s))

WsTypeOK ==
  /\ socket \in Sockets \cup {None}
  /\ reconnector \in Callers \cup {None}
  /\ lastId \in Nat /\ opened \in Nat
  /\ pending \subseteq Nat
  /\ call \in [Callers -> CallRecord]
  /\ IsSeq(sent) /\ IsSeq(inbox)

Reconnecting == {"connecting", "greeting", "proving"}

(* The lock is held by the one call that reconnects, nobody listens then,  *)
(* and there is no socket until it has opened one.                         *)
OneReconnects ==
  /\ \A t \in Callers : call[t].pc \in Reconnecting <=> reconnector = t
  /\ reconnector # None => listener = "none"
  /\ \A t \in Callers : call[t].pc = "connecting" => socket = None

(* A command that was sent has an id of its own and a future.              *)
OwnIds ==
  /\ \A t \in Callers : call[t].future # "none" <=> call[t].pc = "waiting"
  /\ \A t \in Callers : call[t].pc = "waiting" => call[t].id \in 1..lastId
  /\ \A t, u \in Callers :
       call[t].pc = "waiting" /\ call[u].pc = "waiting" /\ call[t].id = call[u].id => t = u

(* An open future is registered, for the socket there is; somebody listens *)
(* to it, or nobody did when the command was sent.                         *)
WaitsOnTheSocket ==
  \A t \in Callers :
    call[t].future = "waiting" =>
      /\ call[t].id \in pending
      /\ socket # None /\ call[t].on = socket.no
      /\ call[t].early \/ listener \in {"running", "crashed"}

WsInv == WsTypeOK /\ OneReconnects /\ OwnIds /\ WaitsOnTheSocket

RegistryTypeOK ==
  /\ live \subseteq Nat /\ known \subseteq live
  /\ file.holds \subseteq Nat /\ file.mtime \in Nat
  /\ now \in Nat /\ lastWrite \in Nat
  /\ reader \in [Callers -> [preferred : BOOLEAN, expected : SUBSET Nat]]
  /\ \A t \in Callers : reader[t].expected \subseteq live

(* The file was written before now; when it is not behind our last write   *)
(* it holds every write we know of.                                        *)
Clocks ==
  /\ lastWrite < now /\ file.mtime < now
  /\ lastWrite = 0 => known = {}
  /\ file.mtime >= lastWrite => known \subseteq file.holds

(* What a successful reply says to call t.                                 *)
Truthful(t, data) ==
  /\ call[t].what = "update" => call[t].id \in live
  /\ call[t].what = "list" => reader[t].expected \subseteq data

Awaits(t, i) == call[t].pc = "waiting" /\ call[t].id = i

(* Messages belong to commands that were sent, and replies say the truth.  *)
Messages ==
  /\ \A m \in ToSet(sent) : m.id \in 1..lastId /\ \A t \in Callers : Awaits(t, m.id) => call[t].what = m.what
  /\ \A r \in ToSet(inbox) :
       r.id \in 1..lastId /\ r.data \subseteq Nat /\ \A t \in Callers : Awaits(t, r.id) /\ r.ok => Truthful(t, r.data)
  /\ \A t \in Callers : call[t].future = "result" => Truthful(t, call[t].data)

RegistryInv == WsInv /\ RegistryTypeOK /\ Clocks /\ Messages /\ AcknowledgedWritesAreRead

-----------------------------------------------------------------------------
(* Sequences of messages                                                   *)

LEMMA TypedIsSeq ==
  ASSUME NEW S, NEW s \in Seq(S)
  PROVE  IsSeq(s) /\ Len(s) \in Nat /\ DOMAIN s = 1..Len(s)
<1>1. s \in [1..Len(s) -> ToSet(s)] /\ Len(s) \in Nat
  BY DEF ToSet
<1> QED
  BY <1>1 DEF IsSeq

LEMMA NothingSent ==
  ASSUME NEW s, s = <<>>
  PROVE  IsSeq(s) /\ ToSet(s) = {}
<1>1. s \in Seq({}) /\ DOMAIN s = {}
  OBVIOUS
<1> QED
  BY <1>1, TypedIsSeq DEF ToSet

LEMMA SentIsThere ==
  ASSUME NEW s, IsSeq(s), NEW v
  PROVE  IsSeq(Append(s, v)) /\ ToSet(Append(s, v)) \subseteq ToSet(s) \cup {v}
<1> DEFINE S == ToSet(s) \cup {v}
<1>1. s \in Seq(S)
  BY DEF IsSeq
<1>2. Append(s, v) \in Seq(S)
  BY <1>1
<1> HIDE DEF S
<1>3. IsSeq(Append(s, v))
  BY <1>2, TypedIsSeq
<1>4. \A i \in DOMAIN Append(s, v) : Append(s, v)[i] \in S
  BY <1>2
<1> QED
  BY <1>3, <1>4 DEF ToSet, S

(* What is left of a sequence.                                             *)
LEMMA LessIsThere ==
  ASSUME NEW s, IsSeq(s)
  PROVE  /\ \A n \in 0..Len(s) : IsSeq(SubSeq(s, 1, n)) /\ ToSet(SubSeq(s, 1, n)) \subseteq ToSet(s)
         /\ \A i \in DOMAIN s : IsSeq(RemoveAt(s, i)) /\ ToSet(RemoveAt(s, i)) \subseteq ToSet(s)
         /\ s # <<>> => IsSeq(Tail(s)) /\ ToSet(Tail(s)) \subseteq ToSet(s) /\ Head(s) \in ToSet(s)
<1>1. s \in Seq(ToSet(s)) /\ Len(s) \in Nat /\ DOMAIN s = 1..Len(s)
  BY DEF IsSeq
<1>2. ASSUME NEW q \in Seq(ToSet(s))
      PROVE  IsSeq(q) /\ ToSet(q) \subseteq ToSet(s)
  <2>1. \A i \in DOMAIN q : q[i] \in ToSet(s)
    BY <1>2
  <2> QED
    BY <1>2, <2>1, TypedIsSeq DEF ToSet
<1>3. ASSUME NEW m \in 1..(Len(s) + 1), NEW n \in 0..Len(s)
      PROVE  SubSeq(s, m, n) \in Seq(ToSet(s))
  BY <1>1, <1>3
<1>4. ASSUME NEW i \in DOMAIN s
      PROVE  RemoveAt(s, i) \in Seq(ToSet(s))
  <2>1. SubSeq(s, 1, i - 1) \in Seq(ToSet(s)) /\ SubSeq(s, i + 1, Len(s)) \in Seq(ToSet(s))
    BY <1>1, <1>3
  <2> QED
    BY <2>1 DEF RemoveAt
<1>5. ASSUME s # <<>>
      PROVE  Tail(s) \in Seq(ToSet(s)) /\ Head(s) \in ToSet(s)
  BY <1>1, <1>5
<1>6. ASSUME NEW n \in 0..Len(s)
      PROVE  IsSeq(SubSeq(s, 1, n)) /\ ToSet(SubSeq(s, 1, n)) \subseteq ToSet(s)
  <2>1. 1 \in 1..(Len(s) + 1)
    BY <1>1
  <2>2. SubSeq(s, 1, n) \in Seq(ToSet(s))
    BY <1>3, <2>1
  <2> QED
    BY <1>2, <2>2
<1>7. ASSUME NEW i \in DOMAIN s
      PROVE  IsSeq(RemoveAt(s, i)) /\ ToSet(RemoveAt(s, i)) \subseteq ToSet(s)
  BY <1>2, <1>4
<1>8. s # <<>> => IsSeq(Tail(s)) /\ ToSet(Tail(s)) \subseteq ToSet(s) /\ Head(s) \in ToSet(s)
  BY <1>2, <1>5
<1> QED
  BY <1>6, <1>7, <1>8

-----------------------------------------------------------------------------
(* The socket and the calls                                                *)

LEMMA WsStarts == WsInit => WsInv
<1> SUFFICES ASSUME WsInit PROVE WsInv
  OBVIOUS
<1>1. Idle \in CallRecord
  BY DEF Idle, CallRecord
<1>2. WsTypeOK
  <2>1. call \in [Callers -> CallRecord]
    BY <1>1 DEF WsInit
  <2>2. IsSeq(sent) /\ IsSeq(inbox)
    BY NothingSent DEF WsInit
  <2> QED
    BY <2>1, <2>2 DEF WsInit, WsTypeOK
<1> QED
  BY <1>2, WsAssumption DEF WsInit, WsInv, OneReconnects, OwnIds, WaitsOnTheSocket, Idle, Reconnecting

(* A command goes out.                                                     *)
LEMMA RegisterKeeps ==
  ASSUME WsInv, NEW t \in Callers, NEW what \in {None, "list", "update"}, Alive,
         call[t].pc \in {"idle", "locking", "proving"},
         call[t].pc = "proving" => listener' = "running",
         call[t].pc # "proving" => UNCHANGED listener,
         reconnector' = IF call[t].pc = "proving" THEN None ELSE reconnector,
         Register(t, what, socket), UNCHANGED <<inbox, opened>>
  PROVE  WsInv'
<1>1. PICK e \in BOOLEAN : e = (listener' # "running")
  OBVIOUS
<1> DEFINE c == [pc |-> "waiting", what |-> what, id |-> NextId, future |-> "waiting", data |-> {},
                 on |-> socket.no, early |-> e]
<1>2. /\ socket \in Sockets /\ socket # None /\ lastId' = lastId + 1 /\ NextId = lastId + 1 /\ lastId \in Nat
      /\ pending' = pending \cup {NextId}
  BY DEF WsInv, WsTypeOK, Alive, Register, NextId
<1>3. call' = [call EXCEPT ![t] = c]
  BY <1>1, Zenon DEF Register
<1>4. socket' \in Sockets /\ socket'.no = socket.no /\ socket' # None
  BY <1>2, WsAssumption DEF Register, Sockets
<1>5. /\ c \in CallRecord /\ c.pc = "waiting" /\ c.id = lastId + 1 /\ c.future = "waiting" /\ c.on = socket.no
      /\ c.early = e
  BY <1>2 DEF CallRecord, Sockets
<1> HIDE DEF c
<1>6. /\ call \in [Callers -> CallRecord] /\ call' \in [Callers -> CallRecord]
      /\ call'[t] = c /\ \A u \in Callers : u # t => call'[u] = call[u]
  BY <1>3, <1>5 DEF WsInv, WsTypeOK
<1>7. WsTypeOK'
  <2>1. IsSeq(sent')
    BY SentIsThere DEF WsInv, WsTypeOK, Register
  <2> QED
    BY <1>2, <1>4, <1>6, <2>1 DEF WsInv, WsTypeOK
<1>8. OneReconnects'
  <2>1. \A u \in Callers : call[u].pc \in Reconnecting <=> reconnector = u
    BY DEF WsInv, OneReconnects
  <2>2. \A u \in Callers : call'[u].pc \in Reconnecting <=> reconnector' = u
    BY <1>5, <1>6, <2>1, WsAssumption DEF Reconnecting
  <2>3. reconnector' # None => listener' = "none"
    BY DEF WsInv, OneReconnects
  <2>4. \A u \in Callers : call'[u].pc # "connecting"
    BY <1>2, <1>5, <1>6 DEF WsInv, OneReconnects
  <2> QED
    BY <2>2, <2>3, <2>4 DEF OneReconnects
<1>9. OwnIds'
  <2>1. \A u \in Callers : u # t /\ call[u].pc = "waiting" => call[u].id \in 1..lastId /\ call[u].id # lastId + 1
    BY <1>2 DEF WsInv, OwnIds
  <2> QED
    BY <1>2, <1>5, <1>6, <2>1 DEF WsInv, OwnIds
<1>10. WaitsOnTheSocket'
  <2>1. e \/ listener' = "running"
    BY <1>1
  <2>2. \A u \in Callers : call[u].future = "waiting" /\ listener' # listener => call[u].early
    <3>1. listener' # listener => listener = "none"
      BY WsAssumption DEF WsInv, OneReconnects, Reconnecting
    <3> QED
      BY <3>1 DEF WsInv, WaitsOnTheSocket
  <2> QED
    BY <1>2, <1>4, <1>5, <1>6, <2>1, <2>2 DEF WsInv, WaitsOnTheSocket
<1> QED
  BY <1>7, <1>8, <1>9, <1>10 DEF WsInv

(* A call that has no command under way changes its place, or ends.        *)
LEMMA CallMoves ==
  ASSUME WsInv, NEW t \in Callers, NEW c \in CallRecord, call' = [call EXCEPT ![t] = c],
         c.pc # "waiting", c.future = "none",
         reconnector' \in {None, reconnector},
         c.pc \in Reconnecting <=> call[t].pc \in Reconnecting /\ reconnector' # None,
         call[t].pc \notin Reconnecting => UNCHANGED reconnector,
         c.pc = "connecting" => UNCHANGED socket /\ call[t].pc = "connecting",
         \/ UNCHANGED <<socket, opened>>
         \/ call[t].pc \in Reconnecting /\ socket' \in Sockets /\ opened' \in Nat
             /\ (socket = None \/ socket'.no = socket.no),
         pending' \in {pending, pending \ {call[t].id}},
         pending' = pending \/ call[t].pc = "waiting",
         UNCHANGED <<listener, lastId, sent, inbox>>
  PROVE  WsInv'
<1>1. /\ call \in [Callers -> CallRecord] /\ call' \in [Callers -> CallRecord]
      /\ call'[t] = c /\ \A u \in Callers : u # t => call'[u] = call[u]
  BY DEF WsInv, WsTypeOK
<1>2. WsTypeOK'
  BY <1>1 DEF WsInv, WsTypeOK
<1>3. OneReconnects'
  <2>1. \A u \in Callers : call[u].pc \in Reconnecting <=> reconnector = u
    BY DEF WsInv, OneReconnects
  <2>2. \A u \in Callers : call'[u].pc \in Reconnecting <=> reconnector' = u
    BY <1>1, <2>1, WsAssumption
  <2>3. reconnector' # None => listener' = "none"
    BY DEF WsInv, OneReconnects
  <2>4. \A u \in Callers : call'[u].pc = "connecting" => socket' = None
    BY <1>1, <2>1, WsAssumption DEF WsInv, OneReconnects, Reconnecting
  <2> QED
    BY <2>2, <2>3, <2>4 DEF OneReconnects
<1>4. OwnIds'
  BY <1>1 DEF WsInv, OwnIds
<1>5. WaitsOnTheSocket'
  <2>1. \A u \in Callers : call'[u].future = "waiting" => u # t /\ call'[u] = call[u] /\ call[u].future = "waiting"
    BY <1>1
  <2>2. \A u \in Callers : u # t /\ call[u].future = "waiting" /\ call[t].pc = "waiting" => call[u].id # call[t].id
    BY DEF WsInv, OwnIds
  <2>3. \A u \in Callers : call[u].future = "waiting" => socket' # None /\ socket'.no = socket.no
    BY WsAssumption DEF WsInv, WaitsOnTheSocket
  <2> QED
    BY <2>1, <2>2, <2>3 DEF WsInv, WaitsOnTheSocket
<1> QED
  BY <1>2, <1>3, <1>4, <1>5 DEF WsInv

(* The messages on the wire and the far end of it.                         *)
LEMMA WireKeeps ==
  ASSUME WsInv, UNCHANGED <<listener, reconnector, lastId, pending, call, opened>>,
         \/ UNCHANGED socket
         \/ socket # None /\ socket' \in Sockets /\ socket'.no = socket.no,
         IsSeq(sent'), IsSeq(inbox')
  PROVE  WsInv'
<1>1. WsTypeOK'
  BY DEF WsInv, WsTypeOK
<1>2. OneReconnects'
  BY DEF WsInv, OneReconnects
<1>3. OwnIds'
  BY DEF WsInv, OwnIds
<1>4. WaitsOnTheSocket'
  BY WsAssumption DEF WsInv, WaitsOnTheSocket
<1> QED
  BY <1>1, <1>2, <1>3, <1>4 DEF WsInv

(* Some futures that were open are no longer.                              *)
LEMMA FuturesKeep ==
  ASSUME WsInv, call' \in [Callers -> CallRecord],
         \A t \in Callers :
           \/ call'[t] = call[t]
           \/ /\ call[t].future = "waiting"
              /\ call'[t].future \notin {"none", "waiting"} /\ call'[t].pc = call[t].pc
              /\ call'[t].id = call[t].id,
         UNCHANGED <<socket, reconnector, lastId, sent, opened>>, IsSeq(inbox'),
         \A t \in Callers : call'[t].future = "waiting" => call[t].id \in pending',
         pending' \subseteq pending,
         listener' = listener \/ listener = "running",
         \A t \in Callers : call'[t].future = "waiting" => listener' = listener \/ listener' \in {"running", "crashed"}
  PROVE  WsInv'
<1>1. WsTypeOK'
  BY DEF WsInv, WsTypeOK
<1>2. OneReconnects'
  <2>1. \A t \in Callers : call'[t].pc = call[t].pc
    OBVIOUS
  <2> QED
    BY <2>1 DEF WsInv, OneReconnects
<1>3. OwnIds'
  <2>1. \A t \in Callers : /\ call'[t].pc = call[t].pc /\ call'[t].id = call[t].id
                           /\ call'[t].future # "none" <=> call[t].future # "none"
    OBVIOUS
  <2> QED
    BY <2>1 DEF WsInv, OwnIds
<1>4. WaitsOnTheSocket'
  <2>1. \A t \in Callers : call'[t].future = "waiting" => call'[t] = call[t]
    OBVIOUS
  <2> QED
    BY <2>1 DEF WsInv, WaitsOnTheSocket
<1> QED
  BY <1>1, <1>2, <1>3, <1>4 DEF WsInv

(* The reset of a dead connection fails every open future.                 *)
LEMMA ResetKeeps ==
  ASSUME WsInv, NEW t \in Callers, LockAndReset(t)
  PROVE  WsInv'
<1> DEFINE failed == Fail(pending, call)
<1>1. /\ call[t].pc = "locking" /\ reconnector = None /\ reconnector' = t /\ listener' = "none"
      /\ socket' = None /\ pending' = {} /\ UNCHANGED <<lastId, opened>>
      /\ call' = [failed EXCEPT ![t].pc = "connecting"]
  BY DEF LockAndReset
<1>2. /\ call \in [Callers -> CallRecord] /\ call[t].future = "none"
      /\ \A u \in Callers : call[u].future = "waiting" => call[u].id \in pending
      /\ \A u \in Callers : call[u].pc \notin Reconnecting
  BY <1>1, WsAssumption DEF WsInv, WsTypeOK, OwnIds, WaitsOnTheSocket, OneReconnects
<1>3. /\ failed \in [Callers -> CallRecord] /\ failed[t] = call[t]
      /\ \A u \in Callers : /\ failed[u].pc = call[u].pc /\ failed[u].id = call[u].id
                            /\ failed[u].future # "waiting"
                            /\ failed[u].future # "none" <=> call[u].future # "none"
  BY <1>2 DEF Fail, CallRecord
<1> HIDE DEF failed
<1>4. /\ call' \in [Callers -> CallRecord] /\ call'[t].pc = "connecting" /\ call'[t].future = "none"
      /\ \A u \in Callers : u # t => call'[u] = failed[u]
  BY <1>1, <1>2, <1>3 DEF CallRecord
<1>5. WsTypeOK'
  <2>1. IsSeq(sent') /\ IsSeq(inbox')
    BY NothingSent DEF LockAndReset
  <2> QED
    BY <1>1, <1>4, <2>1 DEF WsInv, WsTypeOK
<1>6. OneReconnects'
  BY <1>1, <1>2, <1>3, <1>4 DEF OneReconnects, Reconnecting
<1>7. OwnIds'
  BY <1>1, <1>3, <1>4 DEF WsInv, OwnIds
<1>8. WaitsOnTheSocket'
  BY <1>3, <1>4 DEF WaitsOnTheSocket
<1> QED
  BY <1>5, <1>6, <1>7, <1>8 DEF WsInv

-----------------------------------------------------------------------------
(* Messages                                                                *)

(* Messages are as they were, or about a new command, or stand for what    *)
(* Home Assistant has done.                                                *)
LEMMA MessagesKeep ==
  ASSUME RegistryInv, lastId' \in Nat, lastId' >= lastId, live \subseteq live',
         \A t \in Callers :
           call'[t].pc = "waiting" =>
             \/ /\ call[t].pc = "waiting" /\ call'[t].id = call[t].id /\ call'[t].what = call[t].what
                /\ reader'[t] = reader[t]
             \/ call'[t].id > lastId,
         \A m \in ToSet(sent') :
           \/ m \in ToSet(sent)
           \/ m.id \in 1..lastId' /\ \A t \in Callers : Awaits(t, m.id)' => call'[t].what = m.what,
         \A r \in ToSet(inbox') :
           \/ r \in ToSet(inbox)
           \/ /\ r.id \in 1..lastId' /\ r.data \subseteq Nat
              /\ \A t \in Callers : Awaits(t, r.id)' /\ r.ok => Truthful(t, r.data)',
         \A t \in Callers :
           call'[t].future = "result" =>
             \/ call[t].future = "result" /\ call'[t] = call[t] /\ reader'[t] = reader[t]
             \/ Truthful(t, call[t].data)'
  PROVE  Messages'
<1>1. lastId \in Nat
  BY DEF RegistryInv, WsInv, WsTypeOK
<1>2. \A m \in ToSet(sent') : m.id \in 1..lastId' /\ \A t \in Callers : Awaits(t, m.id)' => call'[t].what = m.what
  BY <1>1 DEF RegistryInv, Messages, Awaits
<1>3. ASSUME NEW r \in ToSet(inbox'), NEW t \in Callers, Awaits(t, r.id)', r.ok
      PROVE  Truthful(t, r.data)'
  BY <1>1, <1>3 DEF RegistryInv, Messages, Awaits, Truthful
<1>4. \A r \in ToSet(inbox') : r.id \in 1..lastId' /\ r.data \subseteq Nat
  BY <1>1 DEF RegistryInv, Messages
<1>5. ASSUME NEW t \in Callers, call'[t].future = "result"
      PROVE  Truthful(t, call[t].data)'
  BY <1>5 DEF RegistryInv, Messages, Truthful
<1> QED
  BY <1>2, <1>3, <1>4, <1>5 DEF Messages

(* The futures and the wire change, what Home Assistant and this process   *)
(* know does not.                                                          *)
LEMMA SocketStep ==
  ASSUME RegistryInv, WsInv', Messages', UNCHANGED regVars
  PROVE  RegistryInv'
<1>1. RegistryTypeOK' /\ Clocks' /\ AcknowledgedWritesAreRead'
  BY DEF RegistryInv, RegistryTypeOK, Clocks, AcknowledgedWritesAreRead, regVars
<1> QED
  BY <1>1 DEF RegistryInv

(* The new command is the last of the messages.                            *)
LEMMA RegisterSends ==
  ASSUME RegistryInv, NEW t \in Callers, NEW what, Register(t, what, socket), UNCHANGED inbox, UNCHANGED live,
         \A u \in Callers : u # t => reader'[u] = reader[u]
  PROVE  Messages'
<1> PICK m : m = [id |-> NextId, what |-> what]
  OBVIOUS
<1>1. lastId \in Nat /\ lastId' = lastId + 1 /\ NextId = lastId + 1 /\ m.id = lastId + 1 /\ m.what = what
  BY DEF RegistryInv, WsInv, WsTypeOK, Register, NextId
<1>2. ToSet(sent') \subseteq ToSet(sent) \cup {m}
  BY SentIsThere DEF RegistryInv, WsInv, WsTypeOK, Register
<1>3. PICK e : e = (listener' # "running")
  OBVIOUS
<1>4. /\ call'[t].id = lastId + 1 /\ call'[t].what = what /\ call'[t].future = "waiting"
      /\ \A u \in Callers : u # t => call'[u] = call[u]
  <2> DEFINE c == [pc |-> "waiting", what |-> what, id |-> NextId, future |-> "waiting", data |-> {},
                   on |-> socket.no, early |-> e]
  <2>1. call' = [call EXCEPT ![t] = c]
    BY <1>3, Zenon DEF Register
  <2>2. c.id = lastId + 1 /\ c.what = what /\ c.future = "waiting"
    BY <1>1
  <2> HIDE DEF c
  <2> QED
    BY <2>1, <2>2 DEF RegistryInv, WsInv, WsTypeOK
<1>5. \A u \in Callers : call[u].pc = "waiting" => call[u].id <= lastId
  BY <1>1 DEF RegistryInv, WsInv, OwnIds
<1>6. \A u \in Callers : Awaits(u, m.id)' => call'[u].what = m.what
  BY <1>1, <1>4, <1>5 DEF Awaits
<1>7. \A u \in Callers :
        call'[u].pc = "waiting" =>
          \/ /\ call[u].pc = "waiting" /\ call'[u].id = call[u].id /\ call'[u].what = call[u].what
             /\ reader'[u] = reader[u]
          \/ call'[u].id > lastId
  BY <1>1, <1>4
<1>8. \A u \in Callers : call'[u].future = "result" => call[u].future = "result" /\ call'[u] = call[u] /\ reader'[u] = reader[u]
  BY <1>4
<1> QED
  BY <1>1, <1>2, <1>6, <1>7, <1>8, MessagesKeep

(* One call has ended, or goes on without a command under way.             *)
LEMMA CallMoveSends ==
  ASSUME RegistryInv, NEW t \in Callers, call'[t].pc # "waiting", call'[t].future = "none",
         \A u \in Callers : u # t => call'[u] = call[u] /\ reader'[u] = reader[u],
         UNCHANGED <<lastId, sent, inbox, live>>
  PROVE  Messages'
<1>1. lastId' \in Nat /\ lastId' >= lastId
  BY DEF RegistryInv, WsInv, WsTypeOK
<1>2. \A u \in Callers : call'[u].pc = "waiting" \/ call'[u].future = "result" => call'[u] = call[u] /\ reader'[u] = reader[u]
  OBVIOUS
<1> QED
  BY <1>1, <1>2, MessagesKeep

LEMMA SendKeeps ==
  ASSUME RegistryInv, NEW t \in Callers, NEW what \in {"list", "update"}, Send(t, what),
         UNCHANGED <<live, file, now, lastWrite, known, answer>>,
         reader' \in [Callers -> [preferred : BOOLEAN, expected : SUBSET Nat]],
         reader'[t].expected \subseteq live,
         \A u \in Callers : u # t => reader'[u] = reader[u]
  PROVE  RegistryInv'
<1>1. WsInv' /\ Messages'
  <2>1. CASE SendNow(t, what)
    <3>1. /\ Alive /\ call[t].pc = "idle" /\ UNCHANGED <<listener, reconnector, inbox, opened>>
          /\ Register(t, what, socket)
      BY <2>1 DEF SendNow, CanCall
    <3> QED
      BY <3>1, RegisterKeeps, RegisterSends DEF RegistryInv
  <2>2. CASE SendLater(t, what)
    <3> DEFINE c == [Idle EXCEPT !.pc = "locking", !.what = what]
    <3>1. c \in CallRecord /\ c.pc = "locking" /\ c.future = "none"
      BY DEF Idle, CallRecord
    <3>2. /\ call[t].pc = "idle" /\ call' = [call EXCEPT ![t] = c]
          /\ UNCHANGED <<socket, listener, reconnector, lastId, pending, sent, inbox, opened>>
      BY <2>2 DEF SendLater, CanCall
    <3> HIDE DEF c
    <3>3. WsInv'
      BY <3>1, <3>2, CallMoves DEF RegistryInv, Reconnecting, WsInv, WsTypeOK
    <3>4. call'[t] = c /\ \A u \in Callers : u # t => call'[u] = call[u]
      BY <3>2 DEF RegistryInv, WsInv, WsTypeOK
    <3>5. Messages'
      BY <3>1, <3>2, <3>4, CallMoveSends
    <3> QED
      BY <3>3, <3>5
  <2> QED
    BY <2>1, <2>2 DEF Send
<1>2. RegistryTypeOK' /\ Clocks' /\ AcknowledgedWritesAreRead'
  BY DEF RegistryInv, RegistryTypeOK, Clocks, AcknowledgedWritesAreRead
<1> QED
  BY <1>1, <1>2 DEF RegistryInv

-----------------------------------------------------------------------------
(* Steps                                                                   *)

(* A call ends: returns, raises or is cancelled.                           *)
LEMMA EndKeeps ==
  ASSUME RegistryInv, NEW t \in Callers, Leave(t) \/ ConnectFails(t) \/ CancelCall(t),
         \A u \in Callers : u # t => reader'[u] = reader[u], UNCHANGED live
  PROVE  WsInv' /\ Messages'
<1>1. PICK c : c = Idle
  OBVIOUS
<1>2. c \in CallRecord /\ c.pc = "idle" /\ c.future = "none"
  BY <1>1 DEF Idle, CallRecord
<1>3. call' = [call EXCEPT ![t] = c] /\ UNCHANGED <<socket, opened, listener, lastId, sent, inbox>>
  BY <1>1 DEF Leave, ConnectFails, CancelCall
<1>4. call'[t] = c /\ \A u \in Callers : u # t => call'[u] = call[u]
  BY <1>3 DEF RegistryInv, WsInv, WsTypeOK
<1>5. Messages'
  BY <1>2, <1>3, <1>4, CallMoveSends
<1>6. \A u \in Callers : call[u].pc \in Reconnecting <=> reconnector = u
  BY DEF RegistryInv, WsInv, OneReconnects
<1>7. /\ reconnector' \in {None, reconnector}
      /\ call[t].pc \in Reconnecting => reconnector' = None
      /\ call[t].pc \notin Reconnecting => UNCHANGED reconnector
      /\ pending' \in {pending, pending \ {call[t].id}}
      /\ pending' = pending \/ call[t].pc = "waiting"
  BY <1>6, WsAssumption DEF Leave, ConnectFails, CancelCall, AfterFailure, Reconnecting
<1>8. WsInv'
  BY <1>2, <1>3, <1>7, CallMoves DEF RegistryInv, Reconnecting
<1> QED
  BY <1>5, <1>8

LEMMA ResumeKeeps ==
  ASSUME RegistryInv, NEW t \in Callers, Resume(t), UNCHANGED regVars
  PROVE  RegistryInv'
<1>0. /\ UNCHANGED <<live, reader>> /\ WsInv /\ call \in [Callers -> CallRecord] /\ socket \in Sockets \cup {None}
      /\ opened \in Nat /\ lastId \in Nat /\ \A u \in Callers : call[u].pc \in Reconnecting <=> reconnector = u
  BY DEF RegistryInv, regVars, WsInv, WsTypeOK, OneReconnects
<1>1. CASE LockAndSend(t)
  <2>1. /\ call[t].pc = "locking" /\ Alive /\ Register(t, call[t].what, socket)
        /\ UNCHANGED <<listener, reconnector, inbox, opened>>
    BY <1>1 DEF LockAndSend, PeerReconnected
  <2>2. PICK what \in {None, "list", "update"} : what = call[t].what
    BY <1>0 DEF CallRecord
  <2>3. Register(t, what, socket)
    BY <2>1, <2>2
  <2>4. WsInv'
    BY <1>0, <2>1, <2>3, RegisterKeeps
  <2>5. Messages'
    BY <1>0, <2>1, <2>3, RegisterSends
  <2> QED
    BY <2>4, <2>5, SocketStep
<1>2. CASE LockAndReset(t)
  <2>1. WsInv'
    BY <1>0, <1>2, ResetKeeps
  <2>2. ToSet(sent') = {} /\ ToSet(inbox') = {} /\ UNCHANGED lastId
    BY <1>2, NothingSent DEF LockAndReset
  <2>3. /\ call'[t].pc = "connecting"
        /\ \A u \in Callers :
             u # t => /\ call'[u].pc = call[u].pc /\ call'[u].id = call[u].id
                      /\ call'[u].what = call[u].what
                      /\ call'[u] = call[u] \/ call'[u].future = "error"
    BY <1>0, <1>2 DEF LockAndReset, Fail, CallRecord
  <2>4. call'[t].future # "result"
    BY <1>0, <2>1, <2>3 DEF WsInv, OwnIds
  <2>5. ASSUME NEW u \in Callers
        PROVE  /\ call'[u].pc = "waiting" =>
                    call[u].pc = "waiting" /\ call'[u].id = call[u].id /\ call'[u].what = call[u].what
               /\ call'[u].future = "result" => call'[u] = call[u]
    <3>1. CASE u = t
      BY <2>3, <2>4, <3>1
    <3>2. CASE u # t
      BY <2>3, <3>2
    <3> QED
      BY <3>1, <3>2
  <2>6. Messages'
    BY <1>0, <2>2, <2>5, MessagesKeep
  <2> QED
    BY <2>1, <2>6, SocketStep
<1>3. CASE Connect(t)
  <2>1. PICK c : c = [call[t] EXCEPT !.pc = "greeting"]
    OBVIOUS
  <2>2. /\ call[t].pc = "connecting" /\ call' = [call EXCEPT ![t] = c]
        /\ socket' \in Sockets /\ opened' \in Nat
        /\ UNCHANGED <<listener, reconnector, lastId, pending, sent, inbox>>
    BY <1>0, <1>3, <2>1 DEF Connect, Sockets
  <2>3. c \in CallRecord /\ c.pc = "greeting" /\ c.future = call[t].future /\ call[t].future = "none" /\ socket = None
    BY <1>0, <2>1, <2>2 DEF CallRecord, WsInv, OwnIds, OneReconnects
  <2>4. call'[t] = c /\ \A u \in Callers : u # t => call'[u] = call[u]
    BY <1>0, <2>2
  <2>5. Messages'
    BY <1>0, <2>2, <2>3, <2>4, CallMoveSends
  <2>6. WsInv'
    BY <1>0, <2>2, <2>3, WsAssumption, CallMoves DEF Reconnecting
  <2> QED
    BY <2>5, <2>6, SocketStep
<1>4. CASE Authenticate(t)
  <2>1. PICK c : c = [call[t] EXCEPT !.pc = "proving"]
    OBVIOUS
  <2>2. /\ call[t].pc = "greeting" /\ call' = [call EXCEPT ![t] = c] /\ Alive
        /\ UNCHANGED <<listener, reconnector, lastId, pending, sent, inbox, opened>>
    BY <1>4, <2>1 DEF Authenticate
  <2>3. c \in CallRecord /\ c.pc = "proving" /\ c.future = call[t].future /\ call[t].future = "none"
    BY <1>0, <2>1, <2>2 DEF CallRecord, WsInv, OwnIds
  <2>4. call'[t] = c /\ \A u \in Callers : u # t => call'[u] = call[u]
    BY <1>0, <2>2
  <2>5. socket' \in Sockets /\ socket'.no = socket.no
    BY <1>0, <1>4 DEF Authenticate, Alive, Sockets
  <2>6. Messages'
    BY <1>0, <2>2, <2>3, <2>4, CallMoveSends
  <2>7. WsInv'
    BY <1>0, <2>2, <2>3, <2>5, WsAssumption, CallMoves DEF Reconnecting
  <2> QED
    BY <2>6, <2>7, SocketStep
<1>5. CASE Authenticated(t)
  <2>1. /\ call[t].pc = "proving" /\ Alive /\ Register(t, call[t].what, socket) /\ listener' = "running"
        /\ reconnector' = None /\ UNCHANGED <<inbox, opened>>
    BY <1>5 DEF Authenticated
  <2>2. PICK what \in {None, "list", "update"} : what = call[t].what
    BY <1>0 DEF CallRecord
  <2>3. Register(t, what, socket)
    BY <2>1, <2>2
  <2>4. WsInv'
    BY <1>0, <2>1, <2>3, RegisterKeeps
  <2>5. Messages'
    BY <1>0, <2>1, <2>3, RegisterSends
  <2> QED
    BY <2>4, <2>5, SocketStep
<1> QED
  BY <1>1, <1>2, <1>3, <1>4, <1>5 DEF Resume

LEMMA TimeoutKeeps ==
  ASSUME RegistryInv, NEW t \in Callers, Timeout(t), UNCHANGED regVars
  PROVE  RegistryInv'
<1>1. /\ WsInv /\ call \in [Callers -> CallRecord] /\ lastId \in Nat /\ pending \subseteq Nat
      /\ UNCHANGED <<live, reader>> /\ IsSeq(inbox)
      /\ \A u \in Callers : call[u].future = "waiting" => call[u].id \in pending
  BY DEF RegistryInv, regVars, WsInv, WsTypeOK, WaitsOnTheSocket
<1>2. /\ call[t].future = "waiting" /\ call' = [call EXCEPT ![t].future = "cancelled"]
      /\ UNCHANGED <<socket, listener, reconnector, lastId, pending, sent, inbox, opened>>
  BY DEF Timeout
<1>3. /\ call' \in [Callers -> CallRecord] /\ call'[t].future = "cancelled" /\ call'[t].pc = call[t].pc
      /\ call'[t].id = call[t].id /\ call'[t].what = call[t].what
      /\ \A u \in Callers : u # t => call'[u] = call[u]
  BY <1>1, <1>2 DEF CallRecord
<1>4. WsInv'
  BY <1>1, <1>2, <1>3, FuturesKeep
<1>5. Messages'
  BY <1>1, <1>2, <1>3, MessagesKeep
<1> QED
  BY <1>4, <1>5, SocketStep

LEMMA ListenKeeps ==
  ASSUME RegistryInv, Listen, UNCHANGED regVars
  PROVE  RegistryInv'
<1>1. /\ WsInv /\ call \in [Callers -> CallRecord] /\ lastId \in Nat
      /\ UNCHANGED <<live, reader>>
      /\ \A u \in Callers : call[u].future = "waiting" => call[u].id \in pending /\ call[u].pc = "waiting"
  BY DEF RegistryInv, regVars, WsInv, WsTypeOK, WaitsOnTheSocket, OwnIds
<1>2. PICK r : r = Head(inbox)
  OBVIOUS
<1>3. r \in ToSet(inbox) /\ IsSeq(inbox') /\ ToSet(inbox') \subseteq ToSet(inbox)
  BY <1>2, LessIsThere DEF Listen, RegistryInv, WsInv, WsTypeOK
<1>4. /\ listener = "running" /\ listener' \in {"running", "crashed"}
      /\ UNCHANGED <<socket, reconnector, lastId, pending, sent, opened>>
  BY DEF Listen
<1> DEFINE Hit(t) == call[t].id = r.id /\ r.id \in pending /\ call[t].future = "waiting"
<1>5. call' = [t \in Callers |-> IF Hit(t)
                                THEN [call[t] EXCEPT !.future = IF r.ok THEN "result" ELSE "refusal", !.data = r.data]
                                ELSE call[t]]
  BY <1>2 DEF Listen, Owner
<1>6. ASSUME NEW t \in Callers, Hit(t)
      PROVE  /\ call'[t] \in CallRecord /\ call'[t].future \in {"result", "refusal"}
             /\ call'[t].future = "result" => r.ok /\ call'[t].data = r.data
             /\ call'[t].pc = call[t].pc /\ call'[t].id = call[t].id /\ call'[t].what = call[t].what
  <2>1. PICK f \in {"result", "refusal"} : f = IF r.ok THEN "result" ELSE "refusal"
    BY Zenon
  <2>2. call'[t] = [call[t] EXCEPT !.future = f, !.data = r.data]
    BY <1>5, <1>6, <2>1, Zenon
  <2>3. f = "result" => r.ok
    BY <2>1
  <2>4. r.data \subseteq Nat
    BY <1>3 DEF RegistryInv, Messages
  <2>5. PICK c \in CallRecord : c = call[t]
    BY <1>1
  <2>6. call'[t] = [[c EXCEPT !.future = f] EXCEPT !.data = r.data]
    BY <2>2, <2>5
  <2> QED
    BY <2>3, <2>4, <2>5, <2>6 DEF CallRecord
<1>7. ASSUME NEW t \in Callers, ~Hit(t)
      PROVE  call'[t] = call[t]
  BY <1>5, <1>7, Zenon
<1> HIDE DEF Hit
<1>8. /\ call' \in [Callers -> CallRecord]
      /\ \A t \in Callers : Hit(t) => call[t].future = "waiting" /\ call[t].id = r.id /\ call[t].pc = "waiting"
  <2>1. \A t \in Callers : call'[t] \in CallRecord
    BY <1>1, <1>6, <1>7
  <2>2. DOMAIN call' = Callers /\ call' = [t \in Callers |-> call'[t]]
    BY <1>5
  <2>3. \A t \in Callers : Hit(t) => call[t].future = "waiting" /\ call[t].id = r.id /\ call[t].pc = "waiting"
    BY <1>1 DEF Hit
  <2> QED
    BY <2>1, <2>2, <2>3
<1>9. WsInv'
  BY <1>1, <1>3, <1>4, <1>6, <1>7, <1>8, FuturesKeep
<1>10. ASSUME NEW t \in Callers, call'[t].future = "result"
       PROVE  \/ call[t].future = "result" /\ call'[t] = call[t] /\ reader'[t] = reader[t]
              \/ Truthful(t, call[t].data)'
  <2>1. CASE Hit(t)
    <3>1. r.ok /\ Awaits(t, r.id)
      BY <1>6, <1>8, <1>10, <2>1 DEF Awaits
    <3>2. Truthful(t, r.data)
      BY <1>3, <3>1 DEF RegistryInv, Messages
    <3> QED
      BY <1>1, <1>6, <1>10, <2>1, <3>2 DEF Truthful
  <2>2. CASE ~Hit(t)
    BY <1>1, <1>7, <1>10, <2>2
  <2> QED
    BY <2>1, <2>2
<1>11. \A t \in Callers : /\ call'[t].pc = call[t].pc /\ call'[t].id = call[t].id /\ call'[t].what = call[t].what
  BY <1>6, <1>7
<1>12. Messages'
  BY <1>1, <1>3, <1>4, <1>10, <1>11, MessagesKeep
<1> QED
  BY <1>9, <1>12, SocketStep

LEMMA NetworkKeeps ==
  ASSUME RegistryInv, Network, UNCHANGED regVars
  PROVE  RegistryInv'
<1>1. /\ WsInv /\ call \in [Callers -> CallRecord] /\ lastId \in Nat /\ socket \in Sockets \cup {None}
      /\ UNCHANGED <<live, reader>> /\ IsSeq(sent) /\ IsSeq(inbox)
      /\ \A u \in Callers : call[u].future = "waiting" => call[u].id \in pending
  BY DEF RegistryInv, regVars, WsInv, WsTypeOK, WaitsOnTheSocket
<1>2. CASE HaAccepts
  <2>1. /\ socket # None /\ socket' \in Sockets /\ socket'.no = socket.no
        /\ UNCHANGED <<listener, reconnector, lastId, pending, call, sent, inbox, opened>>
    BY <1>1, <1>2 DEF HaAccepts, Alive, Sockets
  <2>2. WsInv'
    BY <1>1, <2>1, WireKeeps
  <2>3. Messages'
    BY <1>1, <2>1, MessagesKeep
  <2> QED
    BY <2>2, <2>3, SocketStep
<1>3. CASE HangUp \/ Lose
  <2>1. socket # None /\ Closed
    BY <1>3 DEF HangUp, Lose, Alive
  <2>2. /\ socket' \in Sockets /\ socket'.no = socket.no
        /\ UNCHANGED <<listener, reconnector, lastId, pending, call, opened>>
    BY <1>1, <2>1 DEF Closed, Sockets
  <2>3. IsSeq(sent') /\ ToSet(sent') = {}
    BY <2>1, NothingSent DEF Closed
  <2>4. IsSeq(inbox') /\ ToSet(inbox') \subseteq ToSet(inbox)
    BY <1>1, <2>1, LessIsThere DEF Closed
  <2>5. WsInv'
    BY <1>1, <2>1, <2>2, <2>3, <2>4, WireKeeps
  <2>6. Messages'
    BY <1>1, <2>2, <2>3, <2>4, MessagesKeep
  <2> QED
    BY <2>5, <2>6, SocketStep
<1>4. CASE Listen
  BY <1>4, ListenKeeps
<1>5. CASE ListenerEnds
  <2>1. /\ listener = "running" /\ listener' = "ended" /\ pending' = {} /\ call' = Fail(pending, call)
        /\ UNCHANGED <<socket, reconnector, lastId, sent, inbox, opened>>
    BY <1>5 DEF ListenerEnds, AtEnd, FailPending
  <2>2. /\ call' \in [Callers -> CallRecord]
        /\ \A u \in Callers :
             \/ call'[u] = call[u] /\ call[u].future # "waiting"
             \/ /\ call[u].future = "waiting" /\ call'[u].future = "error" /\ call'[u].pc = call[u].pc
                /\ call'[u].id = call[u].id /\ call'[u].what = call[u].what
    BY <1>1, <2>1 DEF Fail, CallRecord
  <2>3. WsInv'
    BY <1>1, <2>1, <2>2, FuturesKeep
  <2>4. Messages'
    BY <1>1, <2>1, <2>2, MessagesKeep
  <2> QED
    BY <2>3, <2>4, SocketStep
<1> QED
  BY <1>2, <1>3, <1>4, <1>5 DEF Network

(* Home Assistant handles a command: an update becomes part of what it has *)
(* in memory, and a list shows all of that.                                *)
LEMMA HandlesKeeps ==
  ASSUME RegistryInv, NEW i \in DOMAIN sent, HaHandles(i)
  PROVE  RegistryInv'
<1>1. /\ WsInv /\ lastId \in Nat /\ IsSeq(sent) /\ IsSeq(inbox) /\ live \subseteq Nat
  BY DEF RegistryInv, WsInv, WsTypeOK, RegistryTypeOK
<1>2. PICK success \in BOOLEAN :
        /\ HaReplies(i, success, IF success /\ sent[i].what = "list" THEN live ELSE {})
        /\ live' = IF success /\ sent[i].what = "update" THEN live \cup {sent[i].id} ELSE live
        /\ UNCHANGED <<file, now, lastWrite, known, reader, answer>>
  BY Zenon DEF HaHandles
<1>3. PICK m : m = sent[i]
  OBVIOUS
<1>4. PICK data : data = IF success /\ m.what = "list" THEN live ELSE {}
  OBVIOUS
<1>5. PICK r : r = [id |-> m.id, ok |-> success, data |-> data]
  OBVIOUS
<1>6. /\ m \in ToSet(sent) /\ m.id \in 1..lastId
      /\ \A t \in Callers : Awaits(t, m.id) => call[t].what = m.what
  <2>1. m \in ToSet(sent)
    BY <1>3 DEF ToSet
  <2> QED
    BY <2>1 DEF RegistryInv, Messages
<1>7. /\ inbox' = Append(inbox, r) /\ sent' = RemoveAt(sent, i)
      /\ UNCHANGED <<socket, listener, reconnector, lastId, pending, call, opened>>
      /\ UNCHANGED <<file, now, lastWrite, known, reader, answer>>
      /\ live' = IF success /\ m.what = "update" THEN live \cup {m.id} ELSE live
  BY <1>2, <1>3, <1>4, <1>5, Zenon DEF HaReplies
<1>8. /\ r.id = m.id /\ r.ok = success /\ r.data = data /\ data \subseteq Nat /\ live \subseteq live' /\ live' \subseteq Nat
  <2>1. r.id = m.id /\ r.ok = success /\ r.data = data
    BY <1>5
  <2>2. data \subseteq Nat
    BY <1>1, <1>4
  <2>3. live \subseteq live' /\ live' \subseteq Nat
    <3>1. m.id \in Nat
      BY <1>1, <1>6
    <3>2. live' = live \/ live' = live \cup {m.id}
      BY <1>7
    <3> QED
      BY <1>1, <3>1, <3>2
  <2> QED
    BY <2>1, <2>2, <2>3
<1>9. /\ IsSeq(sent') /\ ToSet(sent') \subseteq ToSet(sent)
      /\ IsSeq(inbox') /\ ToSet(inbox') \subseteq ToSet(inbox) \cup {r}
  BY <1>1, <1>7, LessIsThere, SentIsThere
<1>10. WsInv'
  BY <1>1, <1>7, <1>9, WireKeeps
<1>11. \A t \in Callers : Awaits(t, r.id)' /\ r.ok => Truthful(t, r.data)'
  <2> SUFFICES ASSUME NEW t \in Callers, Awaits(t, m.id), success
               PROVE  Truthful(t, data)'
    BY <1>7, <1>8 DEF Awaits
  <2>1. call[t].what = m.what /\ call[t].id = m.id
    BY <1>6 DEF Awaits
  <2>2. call[t].what = "update" => call[t].id \in live'
    BY <1>7, <2>1
  <2>3. call[t].what = "list" => reader[t].expected \subseteq data
    BY <1>4, <2>1 DEF RegistryInv, RegistryTypeOK
  <2> QED
    BY <1>7, <2>2, <2>3 DEF Truthful
<1>12. Messages'
  <2>1. lastId' = lastId /\ UNCHANGED <<call, reader>>
    BY <1>7
  <2>2. \A q \in ToSet(inbox') :
          \/ q \in ToSet(inbox)
          \/ /\ q.id \in 1..lastId' /\ q.data \subseteq Nat
             /\ \A t \in Callers : Awaits(t, q.id)' /\ q.ok => Truthful(t, q.data)'
    BY <1>6, <1>8, <1>9, <1>11, <2>1
  <2> QED
    BY <1>1, <1>8, <1>9, <2>1, <2>2, MessagesKeep
<1>13. RegistryTypeOK' /\ Clocks' /\ AcknowledgedWritesAreRead'
  BY <1>7, <1>8 DEF RegistryInv, RegistryTypeOK, Clocks, AcknowledgedWritesAreRead
<1> QED
  BY <1>10, <1>12, <1>13 DEF RegistryInv

(* What a caller gets: a write it is told of, or a read.                   *)
LEMMA OutcomeKeeps ==
  ASSUME RegistryInv, NEW t \in Callers, WriteEnds(t) \/ ReadEnds(t)
  PROVE  RegistryInv'
<1>1. /\ RegistryTypeOK /\ Clocks /\ Messages /\ AcknowledgedWritesAreRead /\ call[t].id \in Nat
      /\ call[t].future = "result" => Truthful(t, call[t].data)
  BY DEF RegistryInv, WsInv, WsTypeOK, CallRecord, Messages
<1>2. CASE WriteEnds(t)
  <2>1. /\ Leave(t) /\ call[t].what = "update" /\ UNCHANGED <<live, file, reader, answer>>
        /\ \/ UNCHANGED <<now, lastWrite, known>>
           \/ /\ call[t].future = "result"
              /\ lastWrite' = now /\ now' = now + 1 /\ known' = known \cup {call[t].id}
    BY <1>2 DEF WriteEnds, Acknowledge
  <2>2. WsInv' /\ Messages'
    BY <2>1, EndKeeps
  <2>3. call[t].future = "result" => call[t].id \in live
    BY <1>1, <2>1 DEF Truthful
  <2>4. RegistryTypeOK' /\ Clocks'
    <3>1. CASE UNCHANGED <<now, lastWrite, known>>
      BY <1>1, <2>1, <3>1 DEF Clocks, RegistryTypeOK
    <3>2. CASE /\ call[t].future = "result"
               /\ lastWrite' = now /\ now' = now + 1 /\ known' = known \cup {call[t].id}
      <4>1. known' \subseteq live
        BY <1>1, <2>3, <3>2 DEF RegistryTypeOK
      <4>2. UNCHANGED <<live, file, reader>>
        BY <2>1
      <4>3. now \in Nat /\ file.mtime \in Nat /\ file.mtime < now
        BY <1>1 DEF Clocks, RegistryTypeOK
      <4> QED
        BY <1>1, <3>2, <4>1, <4>2, <4>3 DEF Clocks, RegistryTypeOK
    <3> QED
      BY <2>1, <3>1, <3>2
  <2> QED
    BY <1>1, <2>1, <2>2, <2>4 DEF RegistryInv, AcknowledgedWritesAreRead
<1>3. CASE ReadEnds(t)
  <2>1. /\ Leave(t) /\ call[t].what = "list" /\ UNCHANGED <<live, file, now, lastWrite, known>>
        /\ reader' = [reader EXCEPT ![t] = NoRead]
        /\ \/ /\ call[t].future = "result"
              /\ answer' = [missing |-> reader[t].expected \ call[t].data, flagged |-> FALSE]
           \/ UNCHANGED answer
           \/ answer'.flagged
    BY <1>3 DEF ReadEnds, FallsBack
  <2>2. NoRead \in [preferred : BOOLEAN, expected : SUBSET Nat] /\ NoRead.expected = {}
    BY DEF NoRead
  <2>3. /\ reader' \in [Callers -> [preferred : BOOLEAN, expected : SUBSET Nat]]
        /\ reader'[t].expected = {} /\ \A u \in Callers : u # t => reader'[u] = reader[u]
    BY <1>1, <2>1, <2>2 DEF RegistryTypeOK
  <2>4. WsInv' /\ Messages'
    BY <2>1, <2>3, EndKeeps
  <2>5. RegistryTypeOK' /\ Clocks'
    BY <1>1, <2>1, <2>3 DEF RegistryTypeOK, Clocks
  <2>6. AcknowledgedWritesAreRead'
    BY <1>1, <2>1 DEF AcknowledgedWritesAreRead, Truthful
  <2> QED
    BY <2>4, <2>5, <2>6 DEF RegistryInv
<1> QED
  BY <1>2, <1>3

(* A command that never went out.                                          *)
LEMMA NeverSentKeeps ==
  ASSUME RegistryInv, NEW t \in Callers, NeverSent(t) \/ CallCancelled(t)
  PROVE  RegistryInv'
<1>1. RegistryTypeOK /\ Clocks /\ AcknowledgedWritesAreRead
  BY DEF RegistryInv
<1>2. /\ ConnectFails(t) \/ CancelCall(t)
      /\ UNCHANGED <<live, file, now, lastWrite, known>> /\ reader' = [reader EXCEPT ![t] = NoRead]
      /\ UNCHANGED answer \/ answer'.flagged
  BY DEF NeverSent, CallCancelled, FallsBack
<1>3. NoRead \in [preferred : BOOLEAN, expected : SUBSET Nat] /\ NoRead.expected = {}
  BY DEF NoRead
<1>4. /\ reader' \in [Callers -> [preferred : BOOLEAN, expected : SUBSET Nat]]
      /\ reader'[t].expected = {} /\ \A u \in Callers : u # t => reader'[u] = reader[u]
  BY <1>1, <1>2, <1>3 DEF RegistryTypeOK
<1>5. WsInv' /\ Messages'
  BY <1>2, <1>4, EndKeeps
<1>6. RegistryTypeOK' /\ Clocks' /\ AcknowledgedWritesAreRead'
  BY <1>1, <1>2, <1>4 DEF RegistryTypeOK, Clocks, AcknowledgedWritesAreRead
<1> QED
  BY <1>5, <1>6 DEF RegistryInv

LEMMA RequestKeeps ==
  ASSUME RegistryInv, NEW t \in Callers, Request(t)
  PROVE  RegistryInv'
<1>1. RegistryTypeOK /\ Clocks /\ Messages /\ AcknowledgedWritesAreRead /\ WsInv
  BY DEF RegistryInv
<1>2. CASE WriteRegistry(t)
  BY <1>1, <1>2, SendKeeps DEF WriteRegistry, regVars, RegistryTypeOK
<1>3. ASSUME NEW fresh \in BOOLEAN, ReadFile(t, fresh)
      PROVE  RegistryInv'
  <2>1. PICK b : b = FileIsBehind
    OBVIOUS
  <2>2. /\ ~PreferWs(fresh) /\ UNCHANGED <<wsVars, live, file, now, lastWrite, known, reader>>
        /\ answer' = [missing |-> known \ file.holds, flagged |-> b]
    BY <1>3, <2>1, Zenon DEF ReadFile
  <2>3. known \ file.holds = {}
    <3>1. ~FileIsBehind
      BY <2>2 DEF PreferWs
    <3>2. lastWrite = 0 \/ file.mtime >= lastWrite
      BY <1>1, <3>1 DEF FileIsBehind, RegistryTypeOK
    <3> QED
      BY <1>1, <3>2 DEF Clocks
  <2>4. AcknowledgedWritesAreRead'
    BY <2>2, <2>3 DEF AcknowledgedWritesAreRead
  <2>5. WsInv' /\ Messages'
    BY <1>1, <2>2 DEF wsVars, WsInv, WsTypeOK, OneReconnects, OwnIds, WaitsOnTheSocket, Messages, Truthful, Awaits
  <2>6. RegistryTypeOK' /\ Clocks'
    BY <1>1, <2>2 DEF RegistryTypeOK, Clocks
  <2> QED
    BY <2>4, <2>5, <2>6 DEF RegistryInv
<1>4. ASSUME NEW fresh \in BOOLEAN, ReadLive(t, fresh)
      PROVE  RegistryInv'
  <2>1. PICK b \in BOOLEAN : b = PreferWs(fresh)
    BY DEF PreferWs
  <2>2. PICK r : r = [preferred |-> b, expected |-> known]
    OBVIOUS
  <2>3. /\ Send(t, "list") /\ UNCHANGED <<live, file, now, lastWrite, known, answer>>
        /\ reader' = [reader EXCEPT ![t] = r]
    BY <1>4, <2>1, <2>2, Zenon DEF ReadLive
  <2>4. r \in [preferred : BOOLEAN, expected : SUBSET Nat] /\ r.expected = known
    BY <1>1, <2>2 DEF RegistryTypeOK
  <2> QED
    BY <1>1, <2>3, <2>4, SendKeeps DEF RegistryTypeOK
<1> QED
  BY <1>2, <1>3, <1>4 DEF Request

LEMMA RegistryStarts == RegistryInit => RegistryInv
<1> SUFFICES ASSUME RegistryInit PROVE RegistryInv
  OBVIOUS
<1>1. WsInit /\ WsInv
  BY WsStarts DEF RegistryInit
<1>2. RegistryTypeOK /\ Clocks /\ AcknowledgedWritesAreRead
  BY DEF RegistryInit, RegistryTypeOK, Clocks, AcknowledgedWritesAreRead, NoRead, NoAnswer
<1>3. ToSet(sent) = {} /\ ToSet(inbox) = {} /\ \A t \in Callers : call[t].future = "none"
  BY <1>1, NothingSent DEF WsInit, Idle
<1>4. Messages
  BY <1>3 DEF Messages
<1> QED
  BY <1>1, <1>2, <1>4 DEF RegistryInv

LEMMA RegistrySteps == RegistryInv /\ [RegistryNext]_vars => RegistryInv'
<1> SUFFICES ASSUME RegistryInv, [RegistryNext]_vars PROVE RegistryInv'
  OBVIOUS
<1>1. ASSUME NEW t \in Callers, Ends(t) PROVE RegistryInv'
  BY <1>1, OutcomeKeeps, NeverSentKeeps DEF Ends
<1>2. CASE Flush
  <2>1. /\ file'.holds = live /\ file'.mtime = now /\ now' = now + 1
        /\ UNCHANGED <<wsVars, live, lastWrite, known, reader, answer>>
    BY <1>2 DEF Flush
  <2>2. WsInv' /\ Messages' /\ AcknowledgedWritesAreRead'
    BY <2>1 DEF RegistryInv, wsVars, WsInv, WsTypeOK, OneReconnects, OwnIds, WaitsOnTheSocket, Messages, Truthful,
       Awaits, AcknowledgedWritesAreRead
  <2>3. RegistryTypeOK' /\ Clocks'
    BY <2>1 DEF RegistryInv, RegistryTypeOK, Clocks
  <2> QED
    BY <2>2, <2>3 DEF RegistryInv
<1>3. CASE UNCHANGED vars
  BY <1>3 DEF vars, regVars, RegistryInv, wsVars, WsInv, WsTypeOK, OneReconnects, OwnIds, WaitsOnTheSocket, Messages,
     Truthful, Awaits, RegistryTypeOK, Clocks, AcknowledgedWritesAreRead
<1> QED
  BY <1>1, <1>2, <1>3, RequestKeeps, ResumeKeeps, TimeoutKeeps, NeverSentKeeps, HandlesKeeps, NetworkKeeps
  DEF RegistryNext

LEMMA RegistryInvariant == RegistrySpec => []RegistryInv
  BY RegistryStarts, RegistrySteps, PTL DEF RegistrySpec

-----------------------------------------------------------------------------
(* Theorems                                                                *)

(* However calls end, fail and are cancelled, the reconnect lock is held   *)
(* by a call that still reconnects, or by none.                            *)
THEOREM ReconnectLockComesBack == RegistrySpec => []LockIsGivenBack
<1>1. RegistryInv => LockIsGivenBack
  BY DEF RegistryInv, WsInv, WsTypeOK, OneReconnects, Reconnecting, LockIsGivenBack
<1> QED
  BY RegistryInvariant, <1>1, PTL

(* No open future is for a socket that was given up, and one on a lost     *)
(* socket has a listener that will fail it, but for commands sent before   *)
(* there was one and for a listener that crashed.                          *)
THEOREM NobodyWaitsOnAGivenUpSocket == RegistrySpec => []LostSocketFailsItsCalls
<1>1. RegistryInv => LostSocketFailsItsCalls
  BY DEF RegistryInv, WsInv, WaitsOnTheSocket, LostSocketFailsItsCalls
<1> QED
  BY RegistryInvariant, <1>1, PTL

(* A registry read without a warning shows every acknowledged write,       *)
(* whether it came from the file or over the socket.                       *)
THEOREM ReadsShowAcknowledgedWrites == RegistrySpec => []AcknowledgedWritesAreRead
<1>1. RegistryInv => AcknowledgedWritesAreRead
  BY DEF RegistryInv
<1> QED
  BY RegistryInvariant, <1>1, PTL

(* Nobody replaces a socket that is open and listened to: who opens one    *)
(* holds the lock, and then nobody listens.                                *)
THEOREM PeersKeepTheConnection == RegistrySpec => FreshConnectionStays
<1>1. RegistryInv /\ [RegistryNext]_vars => [Alive /\ listener = "running" => socket' # None /\ socket'.no = socket.no]_wsVars
  <2> SUFFICES ASSUME RegistryInv, RegistryNext, Alive, listener = "running", wsVars' # wsVars
               PROVE  socket' # None /\ socket'.no = socket.no
    BY DEF vars
  <2>1. /\ socket \in Sockets /\ socket # None /\ reconnector = None
        /\ \A t \in Callers : call[t].pc \notin Reconnecting
    BY WsAssumption DEF RegistryInv, WsInv, WsTypeOK, OneReconnects, Alive
  <2>2. \/ UNCHANGED socket
        \/ socket' \in Sockets /\ socket'.no = socket.no
    <3>1. \A t \in Callers : \A what : Register(t, what, socket) => socket' \in Sockets /\ socket'.no = socket.no
      BY <2>1 DEF Register, Sockets
    <3>2. ASSUME NEW t \in Callers, NEW what, Send(t, what)
          PROVE  \/ UNCHANGED socket
                 \/ socket' \in Sockets /\ socket'.no = socket.no
      BY <3>1, <3>2 DEF Send, SendNow, SendLater
    <3>3. ASSUME NEW t \in Callers, Request(t) \/ Ends(t) \/ Timeout(t) \/ CallCancelled(t)
          PROVE  \/ UNCHANGED socket
                 \/ socket' \in Sockets /\ socket'.no = socket.no
      BY <3>2, <3>3 DEF Request, WriteRegistry, ReadFile, ReadLive, wsVars, Ends, WriteEnds, ReadEnds, NeverSent, Leave,
         ConnectFails, Timeout, CallCancelled, CancelCall
    <3>4. ASSUME NEW t \in Callers, Resume(t)
          PROVE  \/ UNCHANGED socket
                 \/ socket' \in Sockets /\ socket'.no = socket.no
      BY <2>1, <3>1, <3>4 DEF Resume, LockAndSend, LockAndReset, PeerReconnected, Connect, Authenticate, Authenticated,
         Reconnecting
    <3>5. CASE \/ \E i \in DOMAIN sent : HaHandles(i)
               \/ Network
               \/ Flush
      BY <2>1, <3>5 DEF HaHandles, HaReplies, Network, HaAccepts, HangUp, Lose, Closed, Listen, ListenerEnds, Flush,
         wsVars, Sockets
    <3> QED
      BY <3>3, <3>4, <3>5 DEF RegistryNext
  <2> QED
    BY <2>1, <2>2, WsAssumption
<1> QED
  BY RegistryInvariant, <1>1, PTL DEF RegistrySpec, FreshConnectionStays

=============================================================================
