---------------------------- MODULE UartClients ----------------------------
(***************************************************************************)
(* The users of the target's serial port: the USB bridge                   *)
(* (usb_device/usb_uart_bridge.c), with its callbacks on the TinyUSB task  *)
(* and its polling worker; the network service (network_uart.c and the     *)
(* part of network_dap.c that opens and closes its session); and the       *)
(* firmware update, which suspends the port.                               *)
(***************************************************************************)
EXTENDS TargetUart

CONSTANTS
  usb,    \* the TinyUSB task, on which the bridge's callbacks run
  poll,   \* usb_uart_worker
  net,    \* the task of the network connection
  kick,   \* the listener, closing the session of a revoked connection
  ota,    \* the task running a firmware update
  Sizes   \* the lengths of reads and writes

VARIABLES
  place,        \* place[t]: where t is in its own code
  local,        \* local[t]: the session identifier t works with
  job,          \* what the TinyUSB callback is for
  usbSession,   \* usb_uart_session
  coding,       \* current_line_coding
  dtr,          \* what tud_cdc_n_connected reports
  usbReady,     \* usb_ready, of usb_device.c
  dataEnabled,  \* airdap_mode_state_usb_data_enabled, of mode_state.c
  netSession    \* connection->uart_session

bridgeVars == <<job, usbSession, coding, dtr, usbReady, dataEnabled>>

clientVars == <<place, local, bridgeVars, netSession>>

allVars == <<uartVars, clientVars>>

ClientInit ==
  /\ UartInit
  /\ place = [t \in {usb, poll, net, kick, ota} |-> "idle"]
  /\ local = [t \in {usb, poll, net, kick} |-> 0]
  /\ job = "none"
  /\ usbSession = 0
  /\ coding = Default
  /\ dtr = FALSE
  /\ usbReady = FALSE
  /\ dataEnabled = TRUE
  /\ netSession = 0

\* airdap_usb_data_ready
DataReady == usbReady /\ dataEnabled

At(t, p) == place[t] = p /\ Idle(t)

Go(t, p) == place' = [place EXCEPT ![t] = p]

\* t goes on at p; its call's result and identifier stay in use.
Continue(t, p) == Go(t, p) /\ UNCHANGED <<uartVars, local>>

\* t's function returns; its local variables are gone.
Finish(t, p) ==
  /\ Go(t, p)
  /\ local' = [local EXCEPT ![t] = 0]
  /\ ures' = [ures EXCEPT ![t] = "NONE"]
  /\ UNCHANGED <<slots, txOwner, suspended, nextSession, txLock, tx, rxTotal,
                 config, uat, uarg, seen, opened, got>>

\* Variant: a plain store of zero.
ForgetSessionBlind(s) == usbSession' = 0

\* compare_exchange of usb_uart_session with zero.
ForgetSession(s) == usbSession' = IF usbSession = s THEN 0 ELSE usbSession

-----------------------------------------------------------------------------
(* open_usb_uart_session.  Only the TinyUSB task opens, so the exchange    *)
(* that publishes the session cannot fail: BridgeKnowsSession states it.   *)

OpenReady ==
  /\ At(usb, "ready")
  /\ \/ DataReady /\ Continue(usb, "load")
     \/ ~DataReady /\ Finish(usb, "idle")
  /\ UNCHANGED <<bridgeVars, netSession>>

OpenLoad ==
  /\ At(usb, "load")
  /\ Go(usb, IF usbSession # 0 THEN "acquire" ELSE "open")
  /\ local' = [local EXCEPT ![usb] = usbSession]
  /\ UNCHANGED <<uartVars, bridgeVars, netSession>>

Open ==
  /\ At(usb, "open")
  /\ SessionOpen(usb, "USB")
  /\ local' = [local EXCEPT ![usb] = nextSession]
  /\ Go(usb, "publish")
  /\ UNCHANGED <<bridgeVars, netSession>>

OpenPublish ==
  /\ At(usb, "publish")
  /\ \/ /\ ures[usb] # "OK"
        /\ Finish(usb, "idle")
        /\ UNCHANGED usbSession
     \/ /\ ures[usb] = "OK"
        /\ usbSession' = local[usb]
        /\ Continue(usb, "acquire")
  /\ UNCHANGED <<job, coding, dtr, usbReady, dataEnabled,
                 netSession>>

(* The rest of the receive, line state and line coding callbacks. *)

Acquire ==
  /\ At(usb, "acquire")
  /\ TxAcquire(usb, "USB", local[usb])
  /\ Go(usb, "acquired")
  /\ UNCHANGED <<local, bridgeVars, netSession>>

Acquired ==
  /\ At(usb, "acquired")
  /\ \/ ures[usb] \notin {"OK", "ALREADY_OWNER"} /\ Finish(usb, "idle")
     \/ /\ ures[usb] = "OK" \/ job = "configure"
        /\ ures[usb] \in {"OK", "ALREADY_OWNER"}
        /\ Continue(usb, "configure")
     \/ /\ ures[usb] = "ALREADY_OWNER" /\ job = "receive"
        /\ Continue(usb, "write")
  /\ UNCHANGED <<bridgeVars, netSession>>

ApplyLineCoding ==
  /\ At(usb, "configure")
  /\ SessionConfigure(usb, "USB", local[usb], coding)
  /\ Go(usb, "applied")
  /\ UNCHANGED <<local, bridgeVars, netSession>>

\* A refused setting is only logged.
Applied ==
  /\ At(usb, "applied")
  /\ \/ job = "receive" /\ Continue(usb, "write")
     \/ job = "configure" /\ Finish(usb, "idle")
  /\ UNCHANGED <<bridgeVars, netSession>>

WriteReceived ==
  /\ At(usb, "write")
  /\ \E n \in Sizes : SessionWrite(usb, "USB", local[usb], n)
  /\ Go(usb, "written")
  /\ UNCHANGED <<local, bridgeVars, netSession>>

Written ==
  /\ At(usb, "written")
  /\ Finish(usb, "idle")
  /\ UNCHANGED <<bridgeVars, netSession>>

(* close_usb_uart_session, on the TinyUSB task or on the worker. *)

CloseLoad(t) ==
  /\ At(t, "close_load")
  /\ local' = [local EXCEPT ![t] = usbSession]
  /\ Go(t, IF usbSession = 0 THEN "idle" ELSE "close")
  /\ UNCHANGED <<uartVars, bridgeVars, netSession>>

Close(t) ==
  /\ At(t, "close")
  /\ SessionClose(t, "USB", local[t])
  /\ Go(t, "forget")
  /\ UNCHANGED <<local, bridgeVars, netSession>>

CloseForget(t) ==
  /\ At(t, "forget")
  /\ ForgetSession(local[t])
  /\ Finish(t, "idle")
  /\ UNCHANGED <<job, coding, dtr, usbReady, dataEnabled,
                 netSession>>

(* The events TinyUSB reports, each the start of a callback. *)

CdcReceive ==
  /\ At(usb, "idle")
  /\ usbReady
  /\ job' = "receive"
  /\ Go(usb, "ready")
  /\ UNCHANGED <<uartVars, local, usbSession, coding, dtr, usbReady,
                 dataEnabled, netSession>>

CdcLineState(up) ==
  /\ At(usb, "idle")
  /\ usbReady
  /\ dtr' = up
  /\ job' = "configure"
  /\ Go(usb, IF up THEN "ready" ELSE "close_load")
  /\ UNCHANGED <<uartVars, local, usbSession, coding, usbReady, dataEnabled,
                 netSession>>

CdcLineCoding(c) ==
  /\ At(usb, "idle")
  /\ usbReady
  /\ coding' = c
  /\ job' = "configure"
  /\ Go(usb, IF dtr THEN "ready" ELSE "idle")
  /\ UNCHANGED <<uartVars, local, usbSession, dtr, usbReady, dataEnabled,
                 netSession>>

UsbAttach ==
  /\ At(usb, "idle")
  /\ ~usbReady
  /\ usbReady' = TRUE
  /\ UNCHANGED <<uartVars, place, local, job, usbSession, coding, dtr,
                 dataEnabled, netSession>>

\* usb_ready is cleared, then airdap_usb_uart_bridge_disconnected is called.
UsbDetach ==
  /\ At(usb, "idle")
  /\ usbReady
  /\ usbReady' = FALSE
  /\ dtr' = FALSE
  /\ Go(usb, "close_load")
  /\ UNCHANGED <<uartVars, local, job, usbSession, coding, dataEnabled,
                 netSession>>

\* Another task changes the route of the data interfaces.
RouteChange ==
  /\ dataEnabled' = ~dataEnabled
  /\ UNCHANGED <<uartVars, place, local, job, usbSession, coding, dtr,
                 usbReady, netSession>>

UsbCallbackStep ==
  \/ OpenReady \/ OpenLoad \/ Open \/ OpenPublish
  \/ Acquire \/ Acquired \/ ApplyLineCoding \/ Applied
  \/ WriteReceived \/ Written
  \/ CloseLoad(usb) \/ Close(usb) \/ CloseForget(usb)
  \/ UartCallStep(usb) /\ UNCHANGED clientVars

\* What the host sends over an open port, and what opens and closes it.
UsbTraffic ==
  \/ CdcReceive
  \/ \E c \in Settings : CdcLineCoding(c)

UsbEvent ==
  \/ \E up \in BOOLEAN : CdcLineState(up)
  \/ UsbAttach \/ UsbDetach

-----------------------------------------------------------------------------
(* airdap_usb_uart_bridge_process_once, on the worker. *)

\* Variant: a worker that leaves closing to the callbacks.
PollReadyOnly ==
  /\ At(poll, "idle")
  /\ DataReady
  /\ Go(poll, "load")
  /\ UNCHANGED <<uartVars, local, bridgeVars, netSession>>

PollReady ==
  /\ At(poll, "idle")
  /\ Go(poll, IF DataReady THEN "load" ELSE "close_load")
  /\ UNCHANGED <<uartVars, local, bridgeVars, netSession>>

PollLoad ==
  /\ At(poll, "load")
  /\ \/ /\ usbSession # 0 /\ dtr
        /\ local' = [local EXCEPT ![poll] = usbSession]
        /\ Go(poll, "read")
        /\ UNCHANGED uartVars
     \/ /\ usbSession = 0 \/ ~dtr
        /\ Finish(poll, "idle")
  /\ UNCHANGED <<bridgeVars, netSession>>

PollRead ==
  /\ At(poll, "read")
  /\ \E n \in Sizes : SessionRead(poll, "USB", local[poll], n)
  /\ Go(poll, "delivered")
  /\ UNCHANGED <<local, bridgeVars, netSession>>

PollDelivered ==
  /\ At(poll, "delivered")
  /\ \/ ures[poll] = "STALE_SESSION" /\ Continue(poll, "forget")
     \/ ures[poll] # "STALE_SESSION" /\ Finish(poll, "idle")
  /\ UNCHANGED <<bridgeVars, netSession>>

PollStep ==
  \/ PollReady \/ PollLoad \/ PollRead \/ PollDelivered
  \/ CloseLoad(poll) \/ Close(poll) \/ CloseForget(poll)

-----------------------------------------------------------------------------
(* The network service: one connection at a time. *)

NetOpen ==
  /\ At(net, "idle")
  /\ SessionOpen(net, "NETWORK")
  /\ local' = [local EXCEPT ![net] = nextSession]
  /\ Go(net, "opened")
  /\ UNCHANGED <<bridgeVars, netSession>>

NetOpened ==
  /\ At(net, "opened")
  /\ \/ /\ ures[net] # "OK"
        /\ Finish(net, "idle")
        /\ UNCHANGED netSession
     \/ /\ ures[net] = "OK"
        /\ netSession' = local[net]
        /\ Continue(net, "serve")
  /\ UNCHANGED bridgeVars

\* airdap_network_uart_dispatch, for each request that is one call.
NetRequest ==
  /\ At(net, "serve")
  /\ \/ TxAcquire(net, "NETWORK", netSession)
     \/ \E c \in Settings : SessionConfigure(net, "NETWORK", netSession, c)
     \/ \E n \in Sizes : SessionWrite(net, "NETWORK", netSession, n)
  /\ Go(net, "answer")
  /\ UNCHANGED <<local, bridgeVars, netSession>>

NetAnswer ==
  /\ At(net, "answer")
  /\ Finish(net, "serve")
  /\ UNCHANGED <<bridgeVars, netSession>>

\* READ, and after it the drop count of the session.
NetRead ==
  /\ At(net, "serve")
  /\ \E n \in Sizes : SessionRead(net, "NETWORK", netSession, n)
  /\ Go(net, "report")
  /\ UNCHANGED <<local, bridgeVars, netSession>>

NetReport ==
  /\ At(net, "report")
  /\ \/ ures[net] = "OK" /\ SessionGetStatus(net, "NETWORK", netSession)
     \/ ures[net] # "OK" /\ UNCHANGED uartVars
  /\ Go(net, "answer")
  /\ UNCHANGED <<local, bridgeVars, netSession>>

\* STATUS: the session's state, and then the port's.
NetStatus ==
  /\ At(net, "serve")
  /\ SessionGetStatus(net, "NETWORK", netSession)
  /\ Go(net, "status")
  /\ UNCHANGED <<local, bridgeVars, netSession>>

NetPortStatus ==
  /\ At(net, "status")
  /\ \/ ures[net] = "OK" /\ GetStatus(net)
     \/ ures[net] # "OK" /\ UNCHANGED uartVars
  /\ Go(net, "answer")
  /\ UNCHANGED <<local, bridgeVars, netSession>>

\* release_connection: takes the identifier, then closes it.
NetRelease ==
  /\ At(net, "serve")
  /\ local' = [local EXCEPT ![net] = netSession]
  /\ netSession' = 0
  /\ Go(net, "close")
  /\ UNCHANGED <<uartVars, bridgeVars>>

NetClose ==
  /\ At(net, "close")
  /\ SessionClose(net, "NETWORK", local[net])
  /\ Go(net, "closed")
  /\ UNCHANGED <<local, bridgeVars, netSession>>

\* process_revoked_session: reads the identifier, closes it later.
KickLoad ==
  /\ At(kick, "idle")
  /\ netSession # 0
  /\ local' = [local EXCEPT ![kick] = netSession]
  /\ Go(kick, "close")
  /\ UNCHANGED <<uartVars, bridgeVars, netSession>>

KickClose ==
  /\ At(kick, "close")
  /\ SessionClose(kick, "NETWORK", local[kick])
  /\ Go(kick, "closed")
  /\ UNCHANGED <<local, bridgeVars, netSession>>

\* Whether the session was still there makes no difference to a closer.
NetClosed(t) ==
  /\ At(t, "closed")
  /\ Finish(t, "idle")
  /\ UNCHANGED <<bridgeVars, netSession>>

NetStep ==
  \/ NetOpen \/ NetOpened \/ NetRequest \/ NetAnswer
  \/ NetRead \/ NetReport
  \/ NetStatus \/ NetPortStatus \/ NetRelease \/ NetClose \/ NetClosed(net)
  \/ UartCallStep(net) /\ UNCHANGED clientVars

KickStep == KickLoad \/ KickClose \/ NetClosed(kick)

-----------------------------------------------------------------------------
(* A firmware update: suspends the port, and resumes it when the update    *)
(* ends or could not begin.                                                *)

UpdateBegin ==
  /\ At(ota, "idle")
  /\ SuspendTimeout(ota) \/ Suspend(ota)
  /\ Go(ota, "suspend")
  /\ UNCHANGED <<local, bridgeVars, netSession>>

UpdateSuspended ==
  /\ At(ota, "suspend")
  /\ Go(ota, IF ures[ota] = "OK" THEN "updating" ELSE "resume")
  /\ UNCHANGED <<uartVars, local, bridgeVars, netSession>>

UpdateEnd ==
  /\ At(ota, "updating")
  /\ Go(ota, "resume")
  /\ UNCHANGED <<uartVars, local, bridgeVars, netSession>>

UpdateResume ==
  /\ At(ota, "resume")
  /\ Resume(ota)
  /\ Go(ota, "idle")
  /\ UNCHANGED <<local, bridgeVars, netSession>>

OtaStep ==
  \/ UpdateBegin \/ UpdateSuspended \/ UpdateEnd \/ UpdateResume
  \/ UartCallStep(ota) /\ UNCHANGED clientVars

-----------------------------------------------------------------------------
\* The receiving worker and the sending hardware.
PortStep ==
  /\ TxDrain \/ \E n \in Sizes : PublishRx(n)
  /\ UNCHANGED clientVars

\* A callback that began ends, the worker polls, and the line sends.
BridgeFairness ==
  /\ WF_allVars(UsbCallbackStep)
  /\ WF_allVars(PollStep)
  /\ WF_allVars(TxDrain /\ UNCHANGED clientVars)

-----------------------------------------------------------------------------
(* Properties. *)

\* Every open session is known to the task that must close it: the slot of
\* USB holds the session in usb_uart_session or one the TinyUSB task is about
\* to store there, and the slot of the network likewise.  Otherwise
\* session_open would answer BUSY for ever.  The exchange that publishes a
\* USB session finds no other.
BridgeKnowsSession ==
  /\ slots["USB"].session # 0 =>
       \/ slots["USB"].session = usbSession
       \/ /\ place[usb] = "publish"
          /\ ures[usb] = "OK"
          /\ slots["USB"].session = local[usb]
  /\ slots["NETWORK"].session # 0 =>
       \/ slots["NETWORK"].session = netSession
       \/ /\ place[net] \in {"opened", "close"}
          /\ slots["NETWORK"].session = local[net]
  /\ place[usb] = "publish" => usbSession = 0

\* During an update nothing is sent and no setting changes: suspend returned
\* OK only once the send ring was empty, and nobody owns the sending side
\* until resume.
QuietWhileUpdating ==
  place[ota] = "updating" =>
    /\ tx = 0
    /\ txOwner = NoOwner
    /\ \A t \in Tasks : txLock # t

\* If the USB data interfaces stay unavailable, the USB session is closed and
\* its hold on the sending side with it, also when the route changed between
\* a callback's test of airdap_usb_data_ready and its session_open.
UsbSessionReleased ==
  <>[]~DataReady => <>[](slots["USB"].session = 0 /\ txOwner.transport # "USB")
=============================================================================
