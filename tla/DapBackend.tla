------------------------------ MODULE DapBackend ------------------------------
(***************************************************************************)
(* The debug backend of the two transports                                 *)
(* (firmware/components/dap_protocol/dap_backend.c, and the Connect and    *)
(* Disconnect commands of dap_protocol.c) over the mode policy and the     *)
(* arbiter.                                                                *)
(*                                                                         *)
(* One worker serves both transports, a packet at a time, while USB,       *)
(* Wi-Fi and control tasks move the policy and the port under it.  A       *)
(* transport is the task named after it in the layers below.               *)
(***************************************************************************)
EXTENDS ModeState

Transports == {t \in Tasks : Owner(t) \in {"USB", "NETWORK"}}

VARIABLES
  bpc,          \* where each transport's packet is; "idle": none
  port,         \* processor.selected_port: DISABLED or SWD
  lost          \* history: a live claim was dropped, or its release refused

backendVars == <<bpc, port, lost>>
backendAllVars == <<allVars, backendVars>>

BackendInit ==
  /\ ModeInit
  /\ bpc = [h \in Transports |-> "idle"]
  /\ port = [h \in Transports |-> "DISABLED"]
  /\ lost = [h \in Transports |-> FALSE]

\* The worker takes the next packet only when it is done with the one before.
WorkerFree == \A h \in Transports : bpc[h] = "idle"

At(h, label) == bpc[h] = label /\ mpc[h] = "idle" /\ pc[h] = "idle"

Step(h, label) == bpc' = [bpc EXCEPT ![h] = label] /\ UNCHANGED port

\* The packet is answered.
Answer(h, selected) ==
  /\ bpc' = [bpc EXCEPT ![h] = "idle"]
  /\ port' = [port EXCEPT ![h] = selected]

\* The claim of h is the one the arbiter granted.
Holds(h) ==
  /\ ValidClaim(claim[h])
  /\ control.state = claim[h].owner
  /\ control.generation = claim[h].generation

Loses(h, how) == lost' = [lost EXCEPT ![h] = how]

-----------------------------------------------------------------------------
(* DAP_Connect: backend_connect, and backend_disconnect when it fails *)

\* airdap_ota_debug_allowed reads the mode word; the update manager is a
\* module of its own.  An unsupported port fails before the backend is asked.
Connect(h) ==
  /\ WorkerFree
  /\ \/ /\ mode.ota = "IDLE" /\ DapAcquire(h)
        /\ Step(h, "connect_acquired") /\ Loses(h, lost[h] \/ Holds(h))
     \/ Step(h, "connect_failed") /\ UNCHANGED <<lost, allVars>>

ConnectAcquired(h) ==
  /\ At(h, "connect_acquired")
  /\ \/ /\ mresult[h] = "ALLOWED" /\ DapBegin(h)
        /\ Step(h, "connect_begun") /\ Loses(h, FALSE)
     \/ /\ mresult[h] # "ALLOWED"
        /\ Step(h, "connect_failed") /\ UNCHANGED <<lost, allVars>>

\* airdap_swd_set_clock, which may fail, then operation_end.
ConnectBegun(h) ==
  /\ At(h, "connect_begun")
  /\ \/ /\ mresult[h] = "ALLOWED"
        /\ EndOperation(h)
        /\ Answer(h, "SWD") \/ Step(h, "connect_failed")
     \/ /\ mresult[h] # "ALLOWED"
        /\ Step(h, "connect_failed") /\ UNCHANGED allVars
  /\ UNCHANGED lost

\* Variant: backend_disconnect is not called.
ConnectFailedSkips(h) ==
  /\ At(h, "connect_failed")
  /\ Step(h, "connect_released")
  /\ UNCHANGED <<lost, allVars>>

ConnectFailed(h) ==
  /\ At(h, "connect_failed")
  /\ ReleaseClaim(h)
  /\ Step(h, "connect_released")
  /\ UNCHANGED lost

\* The result of the release is ignored.
ConnectReleased(h) ==
  /\ At(h, "connect_released")
  /\ Answer(h, "DISABLED")
  /\ Loses(h, lost[h] \/ result[h] = "BUSY")
  /\ UNCHANGED allVars

-----------------------------------------------------------------------------
(* DAP_Disconnect, and airdap_dap_session_closed which runs one *)

Disconnect(h) ==
  /\ WorkerFree
  /\ ReleaseClaim(h)
  /\ Step(h, "disconnected")
  /\ UNCHANGED lost

Disconnected(h) ==
  /\ At(h, "disconnected")
  /\ Answer(h, "DISABLED")
  /\ Loses(h, lost[h] \/ result[h] = "BUSY")
  /\ UNCHANGED allVars

-----------------------------------------------------------------------------
(* Every other command that reaches the pins: begin_operation, the bus     *)
(* access, operation_end                                                   *)

Operate(h) ==
  /\ WorkerFree
  /\ DapBegin(h)
  /\ Step(h, "operating")
  /\ UNCHANGED lost

Operating(h) ==
  /\ At(h, "operating")
  /\ \/ mresult[h] = "ALLOWED" /\ EndOperation(h)
     \/ mresult[h] # "ALLOWED" /\ UNCHANGED allVars
  /\ Answer(h, port[h])
  /\ UNCHANGED lost

-----------------------------------------------------------------------------
(* The other tasks, and the specification *)

\* Events, route selections and control operations, as in ModeState.
OtherCall(t) ==
  \/ \E event \in Emits[t] : Transition(t, event)
  \/ \E request \in Selects[t] : SetRoute(t, request)
  \/ t \in Controls /\ (ControlBegin(t) \/ EndOperation(t))

BackendTask(t) ==
  \/ (OtherCall(t) \/ InModeStep(t)) /\ UNCHANGED backendVars
  \/ /\ t \in Transports
     /\ \/ Connect(t) \/ ConnectAcquired(t) \/ ConnectBegun(t)
        \/ ConnectFailed(t) \/ ConnectReleased(t)
        \/ Disconnect(t) \/ Disconnected(t)
        \/ Operate(t) \/ Operating(t)

BackendNext == \E t \in Tasks : BackendTask(t)

BackendSpec == BackendInit /\ [][BackendNext]_backendAllVars

-----------------------------------------------------------------------------
(* Properties *)

\* The transport is between packets, with no connection.
Disabled(h) == bpc[h] = "idle" /\ port[h] = "DISABLED"

\* A disconnected transport keeps the port in two cases only: a repeated
\* Connect dropped the live claim (mode_state.c:507) and was refused, or the
\* release met a control operation and its BUSY was ignored (dap_backend.c:104).
\* Every other path of Connect, Disconnect and session close gives it back.
GivenBackUnlessLost ==
  \A h \in Transports : Disabled(h) /\ CurrentOwner = Owner(h) => lost[h]

\* What the comment in backend_connect ("The protocol releases the claim if
\* connection setup fails.") and airdap_dap.h ("Releases the owner's claim")
\* say together: a disconnected transport does not own the port.
DisabledReleases ==
  \A h \in Transports : Disabled(h) => CurrentOwner # Owner(h)
=============================================================================
