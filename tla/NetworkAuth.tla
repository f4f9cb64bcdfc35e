----------------------------- MODULE NetworkAuth -----------------------------
(***************************************************************************)
(* Network authentication (firmware/components/network_auth): the paired   *)
(* credential, the one owner session, and its revocation.                  *)
(*                                                                         *)
(* Everything happens under auth_mutex except the call of the revoke       *)
(* handler, which each task makes after it let the mutex go: owed is the   *)
(* session a task has invalidated and not yet reported.  The session token *)
(* is identified with the session id.  Ids are taken fresh among those     *)
(* some variable still holds, which is what a 32-bit counter gives as long *)
(* as no reference outlives 2^32 sessions.  idle says that the owner's     *)
(* last activity is older than the idle timeout.                           *)
(***************************************************************************)
EXTENDS Naturals, FiniteSets, FiniteSetsExt

CONSTANTS
  Slots,            \* the connection slots, AIRDAP_NETWORK_DAP_MAX_CONNECTIONS of them
  PSKs,             \* the keys a client may pair
  MaxPending,       \* AIRDAP_NETWORK_AUTH_MAX_PENDING_HANDSHAKES
  MaxGeneration     \* bound on the credential generation, 2^32 - 1 in the code

VARIABLES
  cred,             \* active_credential
  window,           \* pairing_window_active
  owner,            \* owner_session
  handshakes,       \* pending_handshakes
  boundCount,       \* bound_connections
  owed              \* per task: the session it has yet to pass to the revoke handler

authVars == <<cred, window, owner, handshakes, boundCount, owed>>

AuthTasks == Slots \cup {"timer", "pairing"}

NoCredential == [generation |-> 0, psk |-> "NONE"]
NoOwner == [id |-> 0, by |-> NoCredential, idle |-> FALSE]

AuthInit ==
  /\ cred \in {NoCredential} \cup [generation : {1}, psk : PSKs]
  /\ window = FALSE
  /\ owner = NoOwner
  /\ handshakes = 0
  /\ boundCount = 0
  /\ owed = [a \in AuthTasks |-> 0]

\* allocate_session_id, over the ids some variable may still hold.
FreshId(held) == Min((1 .. Cardinality(held) + 1) \ held)

\* invalidate_owner_locked, by task a.
InvalidateOwner(a) ==
  /\ owner' = NoOwner
  /\ owed' = [owed EXCEPT ![a] = owner.id]

Expired == owner.id # 0 /\ owner.idle

\* The owner session once an expired one is invalidated.
OwnerNow == IF Expired THEN NoOwner ELSE owner

\* What bind and validate do with an expired owner before they look further.
ExpireFirst(a) == owed' = [owed EXCEPT ![a] = IF Expired THEN owner.id ELSE @]

-----------------------------------------------------------------------------
\* Time passes without a valid request.
OwnerIdles ==
  /\ owner.id # 0
  /\ owner' = [owner EXCEPT !.idle = TRUE]
  /\ UNCHANGED <<cred, window, handshakes, boundCount, owed>>

ExpiryTimer ==
  /\ owed["timer"] = 0
  /\ Expired
  /\ InvalidateOwner("timer")
  /\ UNCHANGED <<cred, window, handshakes, boundCount>>

SetPairingWindow(active) ==
  /\ window' = active
  /\ UNCHANGED <<cred, owner, handshakes, boundCount, owed>>

\* pair_credential, storage succeeding; the same key again changes nothing,
\* and neither does a failed store.
Pair(psk, physicalUsb) ==
  /\ owed["pairing"] = 0
  /\ physicalUsb \/ window
  /\ cred.psk # psk
  /\ cred.generation < MaxGeneration
  /\ cred' = [generation |-> cred.generation + 1, psk |-> psk]
  /\ InvalidateOwner("pairing")
  /\ UNCHANGED <<window, handshakes, boundCount>>

\* airdap_network_auth_clear_network_configuration; the store may fail.
ClearNetwork ==
  /\ owed["pairing"] = 0
  /\ window' = FALSE
  /\ \/ cred' = NoCredential /\ InvalidateOwner("pairing")
     \/ UNCHANGED <<cred, owner, owed>>
  /\ UNCHANGED <<handshakes, boundCount>>

-----------------------------------------------------------------------------
(* Steps of a connection's task c that snapshotted credential k *)

\* airdap_network_auth_tls_accept up to the handshake.
HandshakeAdmitted == cred # NoCredential /\ handshakes < MaxPending

BeginHandshake ==
  /\ handshakes' = handshakes + 1
  /\ UNCHANGED <<cred, window, owner, boundCount, owed>>

\* Its end: the slot is returned whatever came of the handshake.
EndHandshake ==
  /\ handshakes' = handshakes - 1
  /\ UNCHANGED <<cred, window, owner, boundCount, owed>>

\* Variant: the credential is not compared again when the session is bound.
BindOutcomeUnchecked(k, token) ==
  CASE OwnerNow.id # 0 -> IF token = OwnerNow.id THEN "OK" ELSE "BUSY"
    [] OTHER -> IF token = 0 THEN "OK" ELSE "EXPIRED"

\* What airdap_network_auth_session_bind answers; token 0 is no token.
BindOutcome(k, token) ==
  CASE cred # k -> "EXPIRED"
    [] OwnerNow.id # 0 -> IF token = OwnerNow.id THEN "OK" ELSE "BUSY"
    [] OTHER -> IF token = 0 THEN "OK" ELSE "EXPIRED"

\* The session a successful bind gives, fresh unless the token names one.
BoundSession(token, held) == IF token # 0 THEN token ELSE FreshId(held)

SessionBind(c, k, token, held) ==
  /\ ExpireFirst(c)
  /\ IF BindOutcome(k, token) = "OK"
       THEN /\ owner' = IF token # 0
                          THEN [OwnerNow EXCEPT !.idle = FALSE]
                          ELSE [id |-> BoundSession(token, held), by |-> k, idle |-> FALSE]
            /\ boundCount' = boundCount + 1
       ELSE owner' = OwnerNow /\ UNCHANGED boundCount
  /\ UNCHANGED <<cred, window, handshakes>>

\* airdap_network_auth_session_validate; a connection that is not bound is
\* refused before anything is looked at.
IsValid(sid, k) == sid # 0 /\ sid = OwnerNow.id /\ k = OwnerNow.by

SessionValidate(c, sid, k) ==
  IF sid = 0
    THEN UNCHANGED authVars
    ELSE /\ ExpireFirst(c)
         /\ owner' = [OwnerNow EXCEPT !.idle = @ /\ ~IsValid(sid, k)]
         /\ UNCHANGED <<cred, window, handshakes, boundCount>>

\* airdap_network_auth_connection_close: the session ends with the first of
\* its connections.
ConnectionClose(c, sid) ==
  /\ boundCount' = IF sid # 0 THEN boundCount - 1 ELSE boundCount
  /\ IF sid # 0 /\ owner.id = sid
       THEN InvalidateOwner(c)
       ELSE UNCHANGED <<owner, owed>>
  /\ UNCHANGED <<cred, window, handshakes>>
=============================================================================
