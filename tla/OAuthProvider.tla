----------------------------- MODULE OAuthProvider -----------------------------
(***************************************************************************)
(* auth/provider.py over auth/store.py: registrations, authorization       *)
(* codes, token pairs with rotation and a sliding lifetime, and the JSON   *)
(* file that is saved after every change.                                  *)
(***************************************************************************)
EXTENDS Naturals, FiniteSets

CONSTANTS
  MaxClients,   \* MAX_CLIENTS
  AccessTtl,
  RefreshTtl,
  CodeTtl,      \* AUTH_CODE_TTL
  LastSecond,   \* bound on the clock
  MaxIds,       \* bound on registrations, codes and pairs together
  OAuthFaults   \* which of "crash", "disk" happen

ASSUME OAuthAssumption ==
  /\ {MaxClients, AccessTtl, RefreshTtl, CodeTtl, LastSecond, MaxIds} \subseteq Nat
  /\ MaxClients > 0

VARIABLES
  mem,      \* OAuthStore._data
  disk,     \* oauth.json
  serving,  \* the process is up
  second,   \* wall clock
  ids,      \* how many ids were given out
  used,     \* codes and refresh tokens that were answered with a pair
  reused,   \* those answered again
  revoked,  \* pairs whose revocation was confirmed
  seen,     \* when each access token was last handed out or verified
  outdated  \* those the file had another entry for than memory, or one that memory had no
            \* more, when the process stopped, and that were not verified since

oauthVars == <<mem, disk, serving, second, ids, used, reused, revoked, seen, outdated>>

(* Clients are known by the id of their registration, oldest first.  The   *)
(* access and the refresh token of a pair have one id.                     *)
Nothing == [clients |-> {}, codes |-> {}, access |-> {}, refresh |-> {}]

New == ids + 1

Of(tokens, c) == {x \in tokens : x.client = c}

Expired(x) == x.expires < second

MayServe == serving /\ ids < MaxIds

(* The process stops, and what memory was ahead of the file by is lost.    *)
ServerStops ==
  /\ "crash" \in OAuthFaults
  /\ serving' = FALSE
  /\ mem' = Nothing
  /\ outdated' = outdated \cup {x.id : x \in disk.access \ mem.access}
  /\ UNCHANGED disk

Written(m) == serving' = TRUE /\ mem' = m /\ disk' = m

Saved(m) == Written(m) /\ UNCHANGED outdated

(* The handler raises, or the process dies before the new file is renamed: *)
(* either way nobody gets an answer.                                       *)
NotSaved(m) ==
  \/ "disk" \in OAuthFaults /\ serving' = TRUE /\ mem' = m /\ UNCHANGED <<disk, outdated>>
  \/ ServerStops

(* Variant: the refresh tokens of an evicted client stay.                  *)
DropAccess(m, cs) ==
  [m EXCEPT !.clients = @ \ cs, !.access = {x \in @ : x.client \notin cs}]

Drop(m, cs) ==
  [m EXCEPT !.clients = @ \ cs, !.access = {x \in @ : x.client \notin cs}, !.refresh = {x \in @ : x.client \notin cs}]

(* The clients beyond the cap, oldest first.                               *)
Excess(cs) == {c \in cs : Cardinality({d \in cs : d > c}) >= MaxClients}

RegisterClient ==
  /\ MayServe
  /\ ids' = New
  /\ LET m == [mem EXCEPT !.clients = @ \cup {New}]
         evicted == Drop(m, Excess(m.clients))
     IN Saved(evicted) \/ NotSaved(evicted)
  /\ UNCHANGED <<second, used, reused, revoked, seen>>

Authorize(c) ==
  /\ MayServe
  /\ ids' = New
  /\ LET m == [mem EXCEPT !.codes = @ \cup {[id |-> New, client |-> c, expires |-> second + CodeTtl]}]
     IN Saved(m) \/ NotSaved(m)
  /\ UNCHANGED <<second, used, reused, revoked, seen>>

(* The state after a code has bought a pair.                               *)
WithPair(m, c) ==
  [m EXCEPT !.access = @ \cup {[id |-> New, client |-> c, expires |-> second + AccessTtl]},
            !.refresh = @ \cup {[id |-> New, client |-> c, expires |-> second + RefreshTtl]}]

Answer(credential) ==
  /\ used' = used \cup {credential}
  /\ reused' = reused \cup (used \cap {credential})
  /\ seen' = [seen EXCEPT ![New] = second]

NoAnswer == UNCHANGED <<used, reused, seen>>

(* A client presents a code of its own: expired codes are dropped, good    *)
(* ones exchanged.                                                         *)
ExchangeCode(x) ==
  /\ MayServe
  /\ x \in mem.codes
  /\ x.client \in mem.clients
  /\ LET popped == [mem EXCEPT !.codes = @ \ {x}]
     IN IF Expired(x)
        THEN (Saved(popped) \/ NotSaved(popped)) /\ NoAnswer /\ UNCHANGED ids
        ELSE /\ ids' = New
             /\ \/ Saved(WithPair(popped, x.client)) /\ Answer(<<"code", x.id>>)
                \/ NotSaved(WithPair(popped, x.client)) /\ NoAnswer
  /\ UNCHANGED <<second, revoked>>

(* Variant: the old refresh token stays valid.                             *)
KeepsOld(x) == [mem EXCEPT !.access = @ \ Of(@, x.client)]

(* Rotation drops every access token of the client.                        *)
Rotated(x) == [mem EXCEPT !.refresh = @ \ {x}, !.access = @ \ Of(@, x.client)]

ExchangeRefresh(x) ==
  /\ MayServe
  /\ x \in mem.refresh
  /\ x.client \in mem.clients
  /\ IF Expired(x)
     THEN LET m == [mem EXCEPT !.refresh = @ \ {x}]
          IN (Saved(m) \/ NotSaved(m)) /\ NoAnswer /\ UNCHANGED ids
     ELSE LET m == WithPair(Rotated(x), x.client)
          IN /\ ids' = New
             /\ \/ Saved(m) /\ Answer(<<"refresh", x.id>>)
                \/ NotSaved(m) /\ NoAnswer
  /\ UNCHANGED <<second, revoked>>

(* Variant: extended when less than a quarter of the lifetime is left.     *)
RunsShorter(x) == 4 * (x.expires - second) < AccessTtl

RunsShort(x) == 2 * (x.expires - second) < AccessTtl

Seen(x) ==
  /\ seen' = [seen EXCEPT ![x.id] = second]
  /\ outdated' = outdated \ {x.id}

(* A request comes with an access token: an expired one is dropped, one    *)
(* that has less than half of its lifetime left is extended, any other is  *)
(* answered without a look at the file.                                    *)
Verify(x) ==
  /\ serving
  /\ x \in mem.access
  /\ IF Expired(x)
     THEN LET m == [mem EXCEPT !.access = @ \ {x}]
          IN (Saved(m) \/ NotSaved(m)) /\ UNCHANGED seen
     ELSE IF RunsShort(x)
     THEN LET m == [mem EXCEPT !.access = (@ \ {x}) \cup {[x EXCEPT !.expires = second + AccessTtl]}]
          IN \/ Written(m) /\ Seen(x)
             \/ NotSaved(m) /\ UNCHANGED seen
     ELSE UNCHANGED <<mem, disk, serving>> /\ Seen(x)
  /\ UNCHANGED <<second, ids, used, reused, revoked>>

(* Variant: only the token itself is revoked.                              *)
WithoutAccessOnly(x) == [mem EXCEPT !.access = @ \ {x}]

WithoutAccess(x) == [mem EXCEPT !.access = @ \ {x}, !.refresh = @ \ Of(@, x.client)]

WithoutRefresh(x) == [mem EXCEPT !.refresh = @ \ {x}, !.access = @ \ Of(@, x.client)]

Revoke(x) ==
  /\ serving
  /\ \E m \in {WithoutAccess(y) : y \in mem.access \cap {x}} \cup {WithoutRefresh(y) : y \in mem.refresh \cap {x}} :
       \/ Saved(m) /\ revoked' = revoked \cup {x.id}
       \/ NotSaved(m) /\ UNCHANGED revoked
  /\ UNCHANGED <<second, ids, used, reused, seen>>

(* Start-up loads the file and drops what has expired.                     *)
StartServing ==
  /\ ~serving
  /\ LET Fresh(tokens) == {x \in tokens : ~Expired(x)}
         m == [disk EXCEPT !.codes = Fresh(@), !.access = Fresh(@), !.refresh = Fresh(@)]
     IN Saved(m)
  /\ UNCHANGED <<second, ids, used, reused, revoked, seen>>

CrashServing ==
  /\ serving
  /\ ServerStops
  /\ UNCHANGED <<second, ids, used, reused, revoked, seen>>

NextSecond ==
  /\ second < LastSecond
  /\ second' = second + 1
  /\ UNCHANGED <<mem, disk, serving, ids, used, reused, revoked, seen, outdated>>

OAuthNext ==
  \/ RegisterClient
  \/ \E c \in mem.clients : Authorize(c)
  \/ \E x \in mem.codes : ExchangeCode(x)
  \/ \E x \in mem.refresh : ExchangeRefresh(x)
  \/ \E x \in mem.access : Verify(x)
  \/ \E x \in mem.access \cup mem.refresh : Revoke(x)
  \/ StartServing
  \/ CrashServing
  \/ NextSecond

OAuthInit ==
  /\ mem = Nothing
  /\ disk = Nothing
  /\ serving = TRUE
  /\ second = 1
  /\ ids = 0
  /\ used = {}
  /\ reused = {}
  /\ revoked = {}
  /\ seen = [i \in 1..MaxIds |-> 0]
  /\ outdated = {}

OAuthSpec == OAuthInit /\ [][OAuthNext]_oauthVars

(***************************************************************************)
(* Properties                                                              *)
(***************************************************************************)

(* A code or a refresh token is answered with tokens once, whatever saves  *)
(* fail and whenever the server restarts.                                  *)
CredentialsAreSingleUse == reused = {}

(* Eviction takes the tokens of a client with it, in memory and on disk.   *)
NoTokenOutlivesItsClient ==
  \A m \in {mem, disk} : \A x \in m.access \cup m.refresh : x.client \in m.clients

Ids(m) == {x.id : x \in m.access \cup m.refresh}

(* Once a revocation is confirmed neither the token nor its counterpart    *)
(* comes back, across restarts too.                                        *)
RevocationIsFinal == revoked \cap (Ids(mem) \cup Ids(disk)) = {}

(* The lifetime slides so that active sessions never time out: a token in  *)
(* use at least twice per lifetime is good until rotated, revoked or       *)
(* evicted, whatever saves fail while the server runs.  A restart goes     *)
(* back to the file: a token whose extension could not be saved, and no    *)
(* later save either, comes back with its old expiry, however active it    *)
(* was, and so does one that memory had dropped.  These are exempt         *)
(* (`outdated') until they are verified again.                             *)
Held == IF serving THEN mem.access ELSE disk.access

ActiveTokensStay ==
  \A x \in Held :
    /\ x.id \notin outdated
    /\ seen[x.id] > 0 /\ 2 * (second - seen[x.id]) <= AccessTtl
    => ~Expired(x)

================================================================================
