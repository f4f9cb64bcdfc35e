----------------------------- MODULE NetworkDap -----------------------------
(***************************************************************************)
(* The authenticated network listener (firmware/components/network_dap):   *)
(* one listener task that accepts sockets and carries out revocations, and *)
(* one task per connection that authenticates, serves frames and tears its *)
(* own connection down.  NetworkAuth is the authentication they share.     *)
(*                                                                         *)
(* A step runs from one shared access to the next: a section of the        *)
(* registry mutex or of auth_mutex, an atomic, a socket call.  The DAP and *)
(* UART services are what this code uses of them: sessions that open,      *)
(* close and go stale, and a worker that answers requests while it holds   *)
(* the DAP session mutex.  A reply that only reports an error leaves the   *)
(* connection where it was, so it is no step of its own.                   *)
(***************************************************************************)
EXTENDS NetworkAuth, Sequences

CONSTANTS
  RevokeDepth,      \* REVOKE_QUEUE_DEPTH
  ServiceDepth      \* the DAP service's queue

ASSUME NetworkAssumption ==
  /\ IsFiniteSet(Slots) /\ Slots # {}
  /\ RevokeDepth \in Nat \ {0} /\ ServiceDepth \in Nat \ {0}

VARIABLES
  conn,             \* connections, with what their tasks hold
  claims,           \* dap_claimed and uart_claimed, as a set of services
  revoked,          \* revoke_queue
  revokeAll,        \* revoke_all
  lpc,              \* where the listener is
  lclose,           \* service sessions it collected and has yet to close
  enabled,          \* airdap_mode_state_network_data_enabled
  listening,        \* uart_listener_socket is open
  live,             \* the open sessions of each service
  requests,         \* requests the DAP service has accepted
  callback          \* the request whose callback runs, under the session mutex

registryVars == <<claims, revoked, revokeAll, lpc, lclose, enabled, listening>>
serviceVars == <<live, requests, callback>>
netVars == <<conn, registryVars, serviceVars, authVars>>

Services == {"DAP", "UART"}
Frames == {"request", "control", "keepalive"}

Free ==
  [pc |-> "free", service |-> "DAP", registered |-> FALSE, claimed |-> FALSE,
   socket |-> "closed", hello |-> FALSE, authenticated |-> FALSE,
   k |-> NoCredential,  \* the credential of auth_connection
   sid |-> 0,           \* its session_id; 0 when not bound
   auth |-> 0,          \* auth_session_id
   session |-> 0,       \* dap_session or uart_session
   hand |-> 0,          \* a service session only the task's locals hold
   token |-> 0,         \* pending_response_token
   reply |-> 0]         \* the item in response_queue

NoRequest == [slot |-> "NONE", session |-> 0, token |-> 0]

NetInit ==
  /\ AuthInit
  /\ conn = [c \in Slots |-> Free]
  /\ claims = {}
  /\ revoked = <<>>
  /\ revokeAll = FALSE
  /\ lpc = "accept"
  /\ lclose = {}
  /\ enabled \in BOOLEAN
  /\ listening = enabled
  /\ live = [s \in Services |-> {}]
  /\ requests = <<>>
  /\ callback = NoRequest

\* Everything that still holds an authentication session id, a service
\* session id, a response token.
HeldAuth ==
  {owner.id} \cup {owed[a] : a \in AuthTasks} \cup {revoked[i] : i \in DOMAIN revoked}
  \cup UNION {{conn[c].sid, conn[c].auth} : c \in Slots}
HeldSessions ==
  UNION {live[s] : s \in Services} \cup {s[2] : s \in lclose} \cup {callback.session}
  \cup {requests[i].session : i \in DOMAIN requests}
  \cup UNION {{conn[c].session, conn[c].hand} : c \in Slots}
HeldTokens ==
  {callback.token} \cup {requests[i].token : i \in DOMAIN requests}
  \cup UNION {{conn[c].token, conn[c].reply} : c \in Slots}

-----------------------------------------------------------------------------
(* Revocation *)

\* Variant: a full queue loses the session.
ReportRevocationLossy(id) ==
  /\ revoked' = IF Len(revoked) < RevokeDepth THEN Append(revoked, id) ELSE revoked
  /\ UNCHANGED revokeAll

\* revoke_session: a full queue asks for every session instead.
ReportRevocation(id) ==
  IF Len(revoked) < RevokeDepth
    THEN revoked' = Append(revoked, id) /\ UNCHANGED revokeAll
    ELSE revokeAll' = TRUE /\ UNCHANGED revoked

\* invoke_revoke, after the task let auth_mutex go.
InvokeRevoke(a) ==
  /\ owed[a] # 0
  /\ ReportRevocation(owed[a])
  /\ owed' = [owed EXCEPT ![a] = 0]
  /\ UNCHANGED <<cred, window, owner, handshakes, boundCount, conn, claims, lpc,
                 lclose, enabled, listening, serviceVars>>

\* shutdown of the sockets of some connections, collecting their sessions.
ShutDown(cs) ==
  /\ conn' = [c \in Slots |-> IF c \in cs THEN [conn[c] EXCEPT !.socket = "shut"] ELSE conn[c]]
  /\ lclose' = {<<conn[c].service, conn[c].session>> : c \in {d \in cs : conn[d].session # 0}}

\* process_revoked_session, the part inside the registry mutex.
Revocable(c) == conn[c].registered /\ conn[c].auth # 0

ListenerAt(label) == lpc = label /\ lclose = {}

\* airdap_network_dap_process_revocations: first the overflow flag, as soon as
\* the listener stops accepting,
RevokeEverySession ==
  /\ ListenerAt("accept")
  /\ revokeAll' = FALSE
  /\ ShutDown({c \in Slots : revokeAll /\ Revocable(c)})
  /\ lpc' = "drain"
  /\ UNCHANGED <<claims, revoked, enabled, listening, serviceVars, authVars>>

\* then the queue.
RevokeNext ==
  /\ ListenerAt("drain")
  /\ revoked # <<>>
  /\ ShutDown({c \in Slots : Revocable(c) /\ conn[c].auth = Head(revoked)})
  /\ revoked' = Tail(revoked)
  /\ UNCHANGED <<lpc, claims, revokeAll, enabled, listening, serviceVars, authVars>>

\* Every UART connection goes, those still handshaking included.
ShutDownOnDisable(c) == conn[c].registered /\ conn[c].service = "UART"

\* airdap_network_dap_reconcile_mode once the queue is empty; the UART
\* listener may fail to open.
ReconcileMode ==
  /\ ListenerAt("drain")
  /\ revoked = <<>>
  /\ IF enabled
       THEN listening' \in {listening, TRUE} /\ UNCHANGED <<conn, lclose>>
       ELSE listening' = FALSE /\ ShutDown({c \in Slots : ShutDownOnDisable(c)})
  /\ lpc' = "accept"
  /\ UNCHANGED <<claims, revoked, revokeAll, enabled, serviceVars, authVars>>

\* A close of the DAP session waits for a callback to finish.
Closable(s) == s = "DAP" => callback = NoRequest

\* The closes outside the registry mutex, UART sessions first.
CloseCollected ==
  \E s \in lclose :
    /\ s[1] = "DAP" => \A o \in lclose : o[1] = "DAP"
    /\ Closable(s[1])
    /\ live' = [live EXCEPT ![s[1]] = @ \ {s[2]}]
    /\ lclose' = lclose \ {s}
    /\ UNCHANGED <<conn, claims, revoked, revokeAll, lpc, enabled, listening,
                   requests, callback, authVars>>

\* listener_task, the sockets it accepts in a pass; allocate_connection takes
\* a free slot.  A socket that finds none, or whose task cannot be created, is
\* closed again.
Accept(service) ==
  LET free == {c \in Slots : conn[c].pc = "free"} IN
  /\ ListenerAt("accept")
  /\ service = "UART" => listening /\ enabled
  /\ free # {}
  /\ conn' = [conn EXCEPT ![CHOOSE c \in free : TRUE] =
       [Free EXCEPT !.pc = "accepted", !.service = service, !.registered = TRUE,
                    !.socket = "open"]]
  /\ UNCHANGED <<registryVars, serviceVars, authVars>>

Listener == RevokeEverySession \/ RevokeNext \/ ReconcileMode \/ CloseCollected

-----------------------------------------------------------------------------
(* The environment: the peer of a connection, the routing policy *)

PeerCloses(c) ==
  /\ conn[c].socket = "open"
  /\ conn' = [conn EXCEPT ![c].socket = "shut"]
  /\ UNCHANGED <<registryVars, serviceVars, authVars>>

ChangeRoute ==
  /\ enabled' = ~enabled
  /\ UNCHANGED <<conn, claims, revoked, revokeAll, lpc, lclose, listening,
                 serviceVars, authVars>>

-----------------------------------------------------------------------------
(* run_connection *)

\* The task of c is at a label and owes no revocation.
At(c, label) == conn[c].pc = label /\ owed[c] = 0

Goto(c, label) == conn' = [conn EXCEPT ![c].pc = label]

TearDown(c) == Goto(c, "teardown")

UartBarred(c) == conn[c].service = "UART" /\ ~enabled

\* Up to the handshake: a data port that was disabled, no credential or too
\* many handshakes end the connection.
StartHandshake(c) ==
  /\ At(c, "accepted")
  /\ IF UartBarred(c) \/ ~HandshakeAdmitted
       THEN TearDown(c) /\ UNCHANGED authVars
       ELSE /\ BeginHandshake
            /\ conn' = [conn EXCEPT ![c].pc = "handshake", ![c].k = cred]
  /\ UNCHANGED <<registryVars, serviceVars>>

\* The handshake succeeds, fails or times out; a credential that changed
\* meanwhile ends the connection.
FinishHandshake(c) ==
  /\ At(c, "handshake")
  /\ EndHandshake
  /\ \/ /\ conn[c].socket = "open" /\ conn[c].k = cred
        /\ Goto(c, "read")
     \/ conn' = [conn EXCEPT ![c].pc = "teardown", ![c].k = NoCredential]
  /\ UNCHANGED <<registryVars, serviceVars>>

\* read_frame returned a frame: nothing but HELLO is served before HELLO.
Frame(c) == At(c, "read") /\ conn[c].socket = "open"
Refused(c) == UartBarred(c) \/ ~conn[c].hello

ReadHello(c) ==
  /\ Frame(c)
  /\ IF UartBarred(c) THEN TearDown(c) ELSE conn' = [conn EXCEPT ![c].hello = TRUE]
  /\ UNCHANGED <<registryVars, serviceVars, authVars>>

\* AUTH, up to claim_service_connection: a service has one connection.
ReadAuth(c) ==
  /\ Frame(c)
  /\ ~conn[c].authenticated
  /\ IF Refused(c) \/ conn[c].service \in claims
       THEN TearDown(c) /\ UNCHANGED claims
       ELSE /\ claims' = claims \cup {conn[c].service}
            /\ conn' = [conn EXCEPT ![c].pc = "bind", ![c].claimed = TRUE]
  /\ UNCHANGED <<revoked, revokeAll, lpc, lclose, enabled, listening, serviceVars, authVars>>

\* The other frames.  One that is only answered with an error changes nothing.
ReadRequest(c, frame) ==
  /\ Frame(c)
  /\ IF Refused(c)
       THEN TearDown(c)
       ELSE /\ CASE frame = "request" ->
                      conn[c].service = "DAP" /\ conn[c].authenticated /\ enabled
                 [] frame = "control" -> conn[c].authenticated \/ conn[c].service = "UART"
                 [] frame = "keepalive" -> conn[c].authenticated
            /\ Goto(c, frame)
  /\ UNCHANGED <<registryVars, serviceVars, authVars>>

\* The socket is closed, the frame is malformed, or the peer missed the
\* deadline it has before it is authenticated.
ReadFails(c) ==
  /\ At(c, "read")
  /\ conn[c].socket = "shut" \/ ~conn[c].authenticated
  /\ TearDown(c)
  /\ UNCHANGED <<registryVars, serviceVars, authVars>>

\* airdap_network_auth_session_bind: a new session, or the owner's by its token.
BindSession(c, token) ==
  /\ At(c, "bind")
  /\ SessionBind(c, conn[c].k, token, HeldAuth)
  /\ conn' = IF BindOutcome(conn[c].k, token) = "OK"
               THEN [conn EXCEPT ![c].pc = "publish",
                                 ![c].sid = BoundSession(token, HeldAuth)]
               ELSE [conn EXCEPT ![c].pc = "teardown"]
  /\ UNCHANGED <<registryVars, serviceVars>>

\* auth_session_id becomes visible to the listener; the session is then
\* validated once more.
PublishSession(c) ==
  /\ At(c, "publish")
  /\ conn' = [conn EXCEPT ![c].pc = "bound", ![c].auth = conn[c].sid]
  /\ UNCHANGED <<registryVars, serviceVars, authVars>>

\* The places where the task validates its session, and where it goes.
OnValid ==
  [bound |-> "open", opened |-> "auth_reply", request |-> "submit",
   response |-> "reply", control |-> "operate", operate |-> "operated",
   operated |-> "reply", keepalive |-> "reply"]
OnInvalid == [l \in DOMAIN OnValid |-> IF l = "keepalive" THEN "read" ELSE "teardown"]

\* validate_bound_session also wants the data port of a UART connection enabled.
ChecksPort == {"operated", "keepalive"}

Validate(c) ==
  /\ conn[c].pc \in DOMAIN OnValid /\ owed[c] = 0
  /\ IF conn[c].pc \in ChecksPort /\ UartBarred(c)
       THEN Goto(c, OnInvalid[conn[c].pc]) /\ UNCHANGED authVars
       ELSE /\ SessionValidate(c, conn[c].auth, conn[c].k)
            /\ Goto(c, (IF IsValid(conn[c].auth, conn[c].k) THEN OnValid ELSE OnInvalid)[conn[c].pc])
  /\ UNCHANGED <<registryVars, serviceVars>>

\* The service session: the UART one is stored at once and the authentication
\* validated again, the DAP one is stored inside the registry mutex.
OpenService(c) ==
  LET s == conn[c].service
      id == FreshId(HeldSessions)
  IN
  /\ At(c, "open")
  /\ IF UartBarred(c) \/ (s = "DAP" /\ live[s] # {})
       THEN TearDown(c) /\ UNCHANGED live
       ELSE \/ /\ s = "UART"   \* every UART session is taken
               /\ TearDown(c) /\ UNCHANGED live
            \/ /\ Closable(s)
               /\ live' = [live EXCEPT ![s] = @ \cup {id}]
               /\ conn' = IF s = "UART"
                            THEN [conn EXCEPT ![c].pc = "opened", ![c].session = id]
                            ELSE [conn EXCEPT ![c].pc = "store", ![c].hand = id]
  /\ UNCHANGED <<registryVars, requests, callback, authVars>>

\* Variant: a connection that was shut down meanwhile gives up at once.
StoreSessionUnlessShut(c) ==
  /\ At(c, "store")
  /\ conn' = IF conn[c].socket = "shut"
               THEN [conn EXCEPT ![c].pc = "teardown"]
               ELSE [conn EXCEPT ![c].pc = "auth_reply", ![c].session = conn[c].hand,
                                 ![c].hand = 0]
  /\ UNCHANGED <<registryVars, serviceVars, authVars>>

StoreSession(c) ==
  /\ At(c, "store")
  /\ conn' = [conn EXCEPT ![c].pc = "auth_reply", ![c].session = conn[c].hand, ![c].hand = 0]
  /\ UNCHANGED <<registryVars, serviceVars, authVars>>

\* send_frame, and back to reading; a socket that was shut down refuses it.
Reply(c) ==
  /\ At(c, "auth_reply") \/ At(c, "reply")
  /\ conn' = IF conn[c].socket = "shut"
               THEN [conn EXCEPT ![c].pc = "teardown"]
               ELSE [conn EXCEPT ![c].pc = "read", ![c].authenticated = TRUE]
  /\ UNCHANGED <<registryVars, serviceVars, authVars>>

-----------------------------------------------------------------------------
(* send_dap_response *)

\* airdap_dap_service_submit under a new token; refused when the session is
\* gone or the queue is full.
SubmitRequest(c) ==
  LET token == FreshId(HeldTokens) IN
  /\ At(c, "submit")
  /\ callback = NoRequest
  /\ IF conn[c].session \in live["DAP"] /\ Len(requests) < ServiceDepth
       THEN /\ requests' = Append(requests,
                 [slot |-> c, session |-> conn[c].session, token |-> token])
            /\ conn' = [conn EXCEPT ![c].pc = "await", ![c].token = token]
       ELSE Goto(c, "read") /\ UNCHANGED requests
  /\ UNCHANGED <<registryVars, live, callback, authVars>>

\* xQueueReceive: a response to an earlier request is thrown away.
ReceiveResponse(c) ==
  /\ At(c, "await")
  /\ conn[c].reply # 0
  /\ conn' = IF conn[c].reply = conn[c].token
               THEN [conn EXCEPT ![c].reply = 0, ![c].token = 0, ![c].pc = "response"]
               ELSE [conn EXCEPT ![c].reply = 0]
  /\ UNCHANGED <<registryVars, serviceVars, authVars>>

ResponseTimeout(c) ==
  /\ At(c, "await")
  /\ conn' = [conn EXCEPT ![c].pc = "read", ![c].token = 0]
  /\ UNCHANGED <<registryVars, serviceVars, authVars>>

\* The DAP worker: a request whose session is gone, or that waited too long,
\* is dropped; queue_dap_response compares the session and the token.
BeginCallback ==
  LET r == Head(requests) IN
  /\ requests # <<>>
  /\ callback = NoRequest
  /\ requests' = Tail(requests)
  /\ \/ /\ r.session \in live["DAP"]
        /\ r.session = conn[r.slot].session /\ r.token = conn[r.slot].token
        /\ callback' = r
     \/ UNCHANGED callback
  /\ UNCHANGED <<conn, registryVars, live, authVars>>

\* xQueueSend: a queue that is full refuses the response.
EndCallback ==
  /\ callback # NoRequest
  /\ conn' = [conn EXCEPT ![callback.slot].reply = IF @ = 0 THEN callback.token ELSE @]
  /\ callback' = NoRequest
  /\ UNCHANGED <<registryVars, live, requests, authVars>>

Worker == BeginCallback \/ EndCallback

-----------------------------------------------------------------------------
(* release_connection *)

\* unregister_connection.
Unregister(c) ==
  /\ At(c, "teardown")
  /\ conn' = [conn EXCEPT ![c].pc = "take", ![c].registered = FALSE, ![c].auth = 0]
  /\ UNCHANGED <<registryVars, serviceVars, authVars>>

\* The pending token and the service session are taken out of the slot.
TakeSession(c) ==
  /\ At(c, "take")
  /\ conn' = [conn EXCEPT ![c].pc = "close", ![c].token = 0,
                          ![c].session = 0, ![c].hand = conn[c].session]
  /\ UNCHANGED <<registryVars, serviceVars, authVars>>

\* Variant: the close does not wait for the callback.
CloseSessionAtOnce(c) ==
  /\ At(c, "close")
  /\ live' = [live EXCEPT ![conn[c].service] = @ \ {conn[c].hand}]
  /\ conn' = [conn EXCEPT ![c].pc = "unclaim", ![c].hand = 0]
  /\ UNCHANGED <<registryVars, requests, callback, authVars>>

CloseSession(c) ==
  /\ At(c, "close")
  /\ conn[c].hand # 0 => Closable(conn[c].service)
  /\ live' = [live EXCEPT ![conn[c].service] = @ \ {conn[c].hand}]
  /\ conn' = [conn EXCEPT ![c].pc = "unclaim", ![c].hand = 0]
  /\ UNCHANGED <<registryVars, requests, callback, authVars>>

DropClaim(c) ==
  /\ At(c, "unclaim")
  /\ claims' = IF conn[c].claimed THEN claims \ {conn[c].service} ELSE claims
  /\ conn' = [conn EXCEPT ![c].pc = "close_auth", ![c].claimed = FALSE]
  /\ UNCHANGED <<revoked, revokeAll, lpc, lclose, enabled, listening, serviceVars, authVars>>

CloseAuth(c) ==
  /\ At(c, "close_auth")
  /\ ConnectionClose(c, conn[c].sid)
  /\ conn' = [conn EXCEPT ![c].pc = "release", ![c].sid = 0, ![c].k = NoCredential]
  /\ UNCHANGED <<registryVars, serviceVars>>

\* The response queue, the socket and the slot.
ReleaseSlot(c) ==
  /\ At(c, "release")
  /\ conn' = [conn EXCEPT ![c] = Free]
  /\ UNCHANGED <<registryVars, serviceVars, authVars>>

-----------------------------------------------------------------------------
\* What the task of a connection does without its peer.
ConnectionRuns(c) ==
  \/ StartHandshake(c) \/ FinishHandshake(c) \/ ReadFails(c)
  \/ \E token \in {0, owner.id, FreshId(HeldAuth)} : BindSession(c, token)
  \/ PublishSession(c) \/ Validate(c) \/ OpenService(c) \/ StoreSession(c)
  \/ Reply(c) \/ SubmitRequest(c) \/ ReceiveResponse(c) \/ ResponseTimeout(c)
  \/ Unregister(c) \/ TakeSession(c) \/ CloseSession(c) \/ DropClaim(c)
  \/ CloseAuth(c) \/ ReleaseSlot(c)

-----------------------------------------------------------------------------
(* Properties *)

\* Nothing a connection takes outlives it: the handshake and bound counters
\* are the connections they count, a claimed service is claimed by exactly one
\* connection, and every open DAP or UART session of the network is in the hands
\* of a connection that will close it, also when a revocation passed it by.
ResourcesCounted ==
  /\ handshakes = Cardinality({c \in Slots : conn[c].pc = "handshake"})
  /\ boundCount = Cardinality({c \in Slots : conn[c].sid # 0})
  /\ \A s \in Services :
       Cardinality({c \in Slots : conn[c].claimed /\ conn[c].service = s}) =
         IF s \in claims THEN 1 ELSE 0
  /\ \A s \in Services : \A id \in live[s] :
       \E c \in Slots : conn[c].service = s /\ id \in {conn[c].session, conn[c].hand}

\* The owner of the network session authenticated with the credential that is
\* paired now: pairing again or clearing it leaves no older owner behind.
OwnerIsPaired == owner.id # 0 => owner.by = cred

\* The DAP service's response callback runs only while the connection it was
\* given still has its session, hence its response queue: teardown cannot
\* delete the queue under it, nor hand the slot to another connection.
CallbackHasItsConnection ==
  callback # NoRequest =>
    callback.session \in {conn[callback.slot].session, conn[callback.slot].hand}

\* The labels of release_connection.
Ending == {"teardown", "take", "close", "unclaim", "close_auth", "release"}

\* No revocation is lost: a connection bound to a session that is no longer
\* the owner's has had its socket shut down, or its id is still on the way to
\* the listener (as the call a task owes, in the queue, or as the overflow
\* flag), or its own task validates the session before it serves anything.
RevocationsAreCarried ==
  \A c \in Slots :
    conn[c].sid \notin {0, owner.id} =>
      \/ conn[c].socket = "shut" \/ conn[c].pc \in {"publish", "bound"} \cup Ending
      \/ revokeAll
      \/ \E a \in AuthTasks : owed[a] = conn[c].sid
      \/ \E i \in DOMAIN revoked : revoked[i] = conn[c].sid
=============================================================================
