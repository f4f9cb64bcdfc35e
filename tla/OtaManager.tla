------------------------------ MODULE OtaManager ------------------------------
(***************************************************************************)
(* Firmware updates (firmware/components/ota_manager/ota_manager.c) over   *)
(* the mode word and the ownership arbiter.                                *)
(*                                                                         *)
(* session_mutex serializes the calls of all clients, but a call is many   *)
(* steps: it moves the mode word, then the arbiter, then the UART, while   *)
(* DAP, control and button tasks run.  opc[t] is where a client's task is  *)
(* inside the call that holds the mutex.  Refused calls change nothing and *)
(* are left out.  dap_ota.c also refuses a USB command while anyone owns    *)
(* the port; that look is stale once the mutex is taken, so a USB          *)
(* command here may arrive at any time.                                    *)
(*                                                                         *)
(* Usb is the task of the NULL client; the others are network clients, each *)
(* one TLS connection with one session, which never comes back once closed. *)
(***************************************************************************)
EXTENDS ModeState, Sequences

CONSTANTS
  Clients,      \* the tasks that call the manager
  Usb,          \* the one that calls without a client
  MaxImage      \* bound on the image size, in chunks

VARIABLES
  session,      \* session
  otaLock,      \* session_mutex: the task holding it, or "FREE"
  opc,          \* where each client's task is inside its call
  size,         \* image_size of the begin in progress
  uart,         \* the target UART's TX: RUNNING or SUSPENDED
  link,         \* network clients: NEW, OPEN, REVOKED, CLOSED
  flash,        \* who wrote each chunk of the update partition
  boot          \* the update partition is selected for the next boot

otaVars == <<session, otaLock, opc, size, uart, link, flash, boot>>
otaAllVars == <<allVars, otaVars>>

NoSession == [state |-> "IDLE", client |-> "NONE", expected |-> 0,
              written |-> 0, disconnected |-> FALSE]

OtaInit ==
  /\ ModeInit
  /\ session = NoSession
  /\ otaLock = "FREE"
  /\ opc = [c \in Clients |-> "idle"]
  /\ size = 0
  /\ uart = "RUNNING"
  /\ link = [c \in Clients |-> IF c = Usb THEN "OPEN" ELSE "NEW"]
  /\ flash = <<>>
  /\ boot = FALSE

\* airdap_network_auth_session_validate behind the client's callback.
Authorized(c) == c = Usb \/ link[c] = "OPEN"

OwnsSession(c) == session.client = c

\* xSemaphoreTake, then code that touches nothing but the session.
Locked(c) == opc[c] = "idle" /\ otaLock = "FREE"

\* The call goes on, holding the mutex.
Hold(c, label) == otaLock' = c /\ opc' = [opc EXCEPT ![c] = label]

Unlock(c) == otaLock' = "FREE" /\ opc' = [opc EXCEPT ![c] = "idle"]

\* The mode call, or the arbiter call, made at label has returned.
Resumed(c, label) == opc[c] = label /\ mpc[c] = "idle" /\ pc[c] = "idle"

\* restore_idle_mode: the event, then resume, then the UART.
RestoreIdleMode(c, event) ==
  TransitionEnter(c, event) /\ UNCHANGED changes /\ Hold(c, "restore_mode")

-----------------------------------------------------------------------------
(* begin_locked *)

OtaBegin(c, n) ==
  /\ Locked(c) /\ Authorized(c)
  /\ session.state = "IDLE"
  /\ changes > 0
  /\ changes' = changes - 1
  /\ TransitionEnter(c, "OTA_STARTED")
  /\ Hold(c, "begin_started")
  /\ size' = n
  /\ UNCHANGED <<session, uart, link, flash, boot>>

BeginStarted(c) ==
  /\ Resumed(c, "begin_started") /\ mresult[c] = "OK"
  /\ SuspendLoad(c)
  /\ Hold(c, "begin_suspended")
  /\ UNCHANGED <<session, size, uart, link, flash, boot, modeVars>>

\* Variant: a busy arbiter does not stop the update.
BeginSuspendedAnyway(c) ==
  /\ Resumed(c, "begin_suspended")
  /\ Hold(c, "begin_uart")
  /\ UNCHANGED <<session, size, uart, link, flash, boot, allVars>>

BeginSuspended(c) ==
  /\ Resumed(c, "begin_suspended")
  /\ \/ /\ result[c] = "OK"
        /\ Hold(c, "begin_uart")
        /\ UNCHANGED allVars
     \/ /\ result[c] # "OK"
        /\ TransitionEnter(c, "OTA_FAILED") /\ UNCHANGED changes
        /\ Hold(c, "begin_refused")
  /\ UNCHANGED <<session, size, uart, link, flash, boot>>

BeginFailed(c) ==
  /\ Resumed(c, "begin_refused") /\ mresult[c] = "OK"
  /\ Unlock(c)
  /\ size' = 0
  /\ UNCHANGED <<session, uart, link, flash, boot, allVars>>

\* airdap_target_uart_suspend fails before or after it blocked TX.
BeginUart(c) ==
  /\ Resumed(c, "begin_uart")
  /\ \/ /\ uart' = "SUSPENDED"
        /\ Hold(c, "begin_flash")
        /\ UNCHANGED <<size, allVars>>
     \/ /\ uart' \in {"RUNNING", "SUSPENDED"}
        /\ RestoreIdleMode(c, "OTA_FAILED")
        /\ size' = 0
  /\ UNCHANGED <<session, link, flash, boot>>

\* The client is checked again before esp_ota_begin erases the partition.
BeginFlash(c) ==
  /\ Resumed(c, "begin_flash")
  /\ \/ /\ Authorized(c)
        /\ flash' = <<>>
        /\ session' = [state |-> "RECEIVING", client |-> c, expected |-> size,
                       written |-> 0, disconnected |-> FALSE]
        /\ Unlock(c)
        /\ UNCHANGED allVars
     \/ /\ flash' \in {flash, <<>>}
        /\ RestoreIdleMode(c, "OTA_FAILED")
        /\ UNCHANGED session
  /\ size' = 0
  /\ UNCHANGED <<uart, link, boot>>

-----------------------------------------------------------------------------
(* restore_idle_mode after its transition *)

RestoreMode(c) ==
  /\ Resumed(c, "restore_mode") /\ mresult[c] = "OK"
  /\ ResumeLoad(c)
  /\ Hold(c, "restore_owner")
  /\ UNCHANGED <<session, size, uart, link, flash, boot, modeVars>>

\* Variant: the UART is not resumed.
RestoreOwnerOnly(c) ==
  /\ Resumed(c, "restore_owner") /\ result[c] = "OK"
  /\ Unlock(c)
  /\ UNCHANGED <<session, size, uart, link, flash, boot, allVars>>

RestoreOwner(c) ==
  /\ Resumed(c, "restore_owner") /\ result[c] = "OK"
  /\ uart' = "RUNNING"
  /\ Unlock(c)
  /\ UNCHANGED <<session, size, link, flash, boot, allVars>>

-----------------------------------------------------------------------------
(* write_locked, commit_locked, abort_locked, disconnect_client, reboot *)

\* reset_session and restore_idle_mode, as every failure path runs them.
EndSession(c, event) == session' = NoSession /\ RestoreIdleMode(c, event)

\* A write at the right offset succeeds, or fails and the session is aborted,
\* or fails to abort too and stays.
OtaWrite(c, offset, n) ==
  /\ Locked(c) /\ Authorized(c) /\ OwnsSession(c)
  /\ session.state = "RECEIVING"
  /\ offset = session.written
  /\ n <= session.expected - session.written
  /\ \/ /\ flash' = flash \o [i \in 1 .. n |-> c]
        /\ session' = [session EXCEPT !.written = @ + n]
        /\ UNCHANGED <<otaLock, opc, allVars>>
     \/ EndSession(c, "OTA_FAILED") /\ UNCHANGED flash
  /\ UNCHANGED <<size, uart, link, boot>>

\* Variant: an image shorter than announced may be committed.
OtaCommitShort(c) ==
  /\ Locked(c) /\ Authorized(c) /\ OwnsSession(c)
  /\ session.state = "RECEIVING"
  /\ Hold(c, "commit_boot")
  /\ UNCHANGED <<session, size, uart, link, flash, boot, allVars>>

\* esp_ota_end validates the image.
OtaCommit(c) ==
  /\ Locked(c) /\ Authorized(c) /\ OwnsSession(c)
  /\ session.state = "RECEIVING"
  /\ session.written = session.expected
  /\ \/ Hold(c, "commit_boot") /\ UNCHANGED <<session, allVars>>
     \/ EndSession(c, "OTA_FAILED")
  /\ UNCHANGED <<size, uart, link, flash, boot>>

\* The client is checked again, then the partition is selected.
CommitBoot(c) ==
  /\ Resumed(c, "commit_boot")
  /\ \/ /\ Authorized(c)
        /\ boot' = TRUE
        /\ session' = [session EXCEPT !.state = "COMMITTED", !.expected = 0,
                                      !.written = 0]
        /\ TransitionEnter(c, "OTA_COMMITTED") /\ UNCHANGED changes
        /\ Hold(c, "commit_mode")
     \/ EndSession(c, "OTA_FAILED") /\ UNCHANGED boot
  /\ UNCHANGED <<size, uart, link, flash>>

CommitMode(c) ==
  /\ Resumed(c, "commit_mode") /\ mresult[c] = "OK"
  /\ Unlock(c)
  /\ UNCHANGED <<session, size, uart, link, flash, boot, allVars>>

\* The owner aborts, or any client once the owner's connection is gone; a
\* failed esp_ota_abort changes nothing.
OtaAbort(c) ==
  /\ Locked(c) /\ Authorized(c)
  /\ OwnsSession(c) \/ session.disconnected
  /\ session.state = "RECEIVING"
  /\ EndSession(c, "OTA_ABORTED")
  /\ UNCHANGED <<size, uart, link, flash, boot>>

\* Variant: the flag is only set when the abort worked.
OtaDisconnectUnflagged(c) ==
  /\ Locked(c)
  /\ link' = [link EXCEPT ![c] = IF c = Usb THEN "OPEN" ELSE "CLOSED"]
  /\ c # Usb => link[c] \in {"OPEN", "REVOKED"}
  /\ UNCHANGED <<session, otaLock, opc, size, uart, flash, boot, allVars>>

\* airdap_ota_disconnect_client, from release_connection or a USB disconnect.
OtaDisconnect(c) ==
  /\ Locked(c)
  /\ \/ c = Usb /\ UNCHANGED link
     \/ /\ c # Usb /\ link[c] \in {"OPEN", "REVOKED"}
        /\ link' = [link EXCEPT ![c] = "CLOSED"]
  /\ \/ /\ session.state = "RECEIVING" /\ OwnsSession(c)
        /\ \/ EndSession(c, "OTA_ABORTED")
           \/ /\ session' = [session EXCEPT !.disconnected = TRUE]
              /\ UNCHANGED <<otaLock, opc, allVars>>
     \/ /\ session.state # "RECEIVING" \/ ~OwnsSession(c)
        /\ UNCHANGED <<session, otaLock, opc, allVars>>
  /\ UNCHANGED <<size, uart, flash, boot>>

\* A reset: the session and every connection are gone.  A selected partition
\* is the one that runs now, and the other one takes the next update.
OtaRestart ==
  /\ Restart
  /\ session' = NoSession
  /\ otaLock' = "FREE"
  /\ opc' = [c \in Clients |-> "idle"]
  /\ size' = 0
  /\ uart' = "RUNNING"
  /\ link' = [c \in Clients |->
       IF link[c] \in {"OPEN", "REVOKED"} /\ c # Usb THEN "CLOSED" ELSE link[c]]
  /\ flash' = IF boot THEN <<>> ELSE flash
  /\ boot' = FALSE

OtaReboot(c) ==
  /\ Locked(c) /\ Authorized(c)
  /\ session.state = "COMMITTED"
  /\ OtaRestart

-----------------------------------------------------------------------------
(* The network clients: network_dap.c serves one DAP connection at a time. *)

OpenLink(c) ==
  /\ link[c] = "NEW"
  /\ \A d \in Clients \ {Usb} : link[d] \notin {"OPEN", "REVOKED"}
  /\ link' = [link EXCEPT ![c] = "OPEN"]
  /\ UNCHANGED <<session, otaLock, opc, size, uart, flash, boot, allVars>>

\* The session expires or is revoked under the connection.
RevokeLink(c) ==
  /\ c # Usb /\ link[c] = "OPEN"
  /\ link' = [link EXCEPT ![c] = "REVOKED"]
  /\ UNCHANGED <<session, otaLock, opc, size, uart, flash, boot, allVars>>

OtaStep(c) ==
  \/ BeginStarted(c) \/ BeginSuspended(c) \/ BeginFailed(c) \/ BeginUart(c)
  \/ BeginFlash(c) \/ RestoreMode(c) \/ RestoreOwner(c) \/ CommitBoot(c)
  \/ CommitMode(c)

OtaCall(c) ==
  \/ \E n \in 1 .. MaxImage : OtaBegin(c, n)
  \/ \E offset \in 0 .. MaxImage, n \in 1 .. MaxImage : OtaWrite(c, offset, n)
  \/ OtaCommit(c) \/ OtaAbort(c) \/ OtaDisconnect(c) \/ OtaReboot(c)
  \/ OpenLink(c) \/ RevokeLink(c)

OtaTask(t) ==
  \/ ModeTask(t) /\ UNCHANGED otaVars
  \/ t \in Clients /\ (OtaStep(t) \/ OtaCall(t))

OtaNext == OtaRestart \/ \E t \in Tasks : OtaTask(t)

OtaSpec == OtaInit /\ [][OtaNext]_otaAllVars

\* Tasks inside a call are scheduled again, in whichever layer they are.
OtaFairness ==
  /\ \A t \in Tasks : WF_otaAllVars(InModeStep(t) /\ UNCHANGED otaVars)
  /\ \A c \in Clients : WF_otaAllVars(OtaStep(c))

-----------------------------------------------------------------------------
(* Properties *)

\* Type invariant of the update session and of its environment.
OtaTypeOK ==
  /\ session \in [state : {"IDLE", "RECEIVING", "COMMITTED"},
                  client : Clients \cup {"NONE"}, expected : 0 .. MaxImage,
                  written : 0 .. MaxImage, disconnected : BOOLEAN]
  /\ otaLock \in Clients \cup {"FREE"}
  /\ size \in 0 .. MaxImage
  /\ uart \in {"RUNNING", "SUSPENDED"}
  /\ link \in [Clients -> {"NEW", "OPEN", "REVOKED", "CLOSED"}]
  /\ Len(flash) <= MaxImage
  /\ boot \in BOOLEAN

\* While an image is received or waits for its reboot nobody can debug: the
\* arbiter is suspended, no task drives the pins, the UART is blocked, and
\* the mode word tells everyone.
UpdateExcludesDebug ==
  session.state # "IDLE" =>
    /\ control.state = "SUSPENDED"
    /\ \A t \in Tasks : ~Drives(t)
    /\ uart = "SUSPENDED"
    /\ mode.ota # "IDLE"

\* Once an update is over, however it ended, debugging is possible again: no
\* failure path of begin, write, commit, abort or disconnect leaves the port
\* or the UART suspended.
DebugRestored ==
  otaLock = "FREE" /\ session.state = "IDLE" =>
    /\ mode.ota = "IDLE"
    /\ control.state # "SUSPENDED"
    /\ uart = "RUNNING"

\* The boot partition is only selected when the whole announced image was
\* written, in order, by the client that commits it.
SelectedImageIsWhole ==
  [][~boot /\ boot' =>
       /\ Len(flash) = session.expected
       /\ \A i \in 1 .. Len(flash) : flash[i] = session.client]_otaAllVars

\* A session whose network owner is gone can be aborted by the next client:
\* it is never left owned by a connection that cannot call any more.
OrphansCanBeAborted ==
  session.state = "RECEIVING" /\ link[session.client] = "CLOSED" =>
    session.disconnected

\* Every call of a client gives the mutex back, and every mode call returns,
\* whoever competes with it for the two words.
CallsReturn ==
  /\ \A c \in Clients : opc[c] # "idle" ~> opc[c] = "idle"
  /\ \A t \in Tasks : mpc[t] # "idle" ~> mpc[t] = "idle"
=============================================================================
