------------------------------ MODULE ModeState ------------------------------
(***************************************************************************)
(* The device mode and the debug-port policy                               *)
(* (firmware/components/mode_state/mode_state.c and mode_storage.c),       *)
(* composed with the ownership arbiter it drives.                          *)
(*                                                                         *)
(* A second atomic word, mode_control, holds the policy; policy and        *)
(* ownership are two words, so a call that needs both reads the policy,    *)
(* moves the ownership and reads the policy again.  Every atomic access is *)
(* a step: a task is inside a mode call while mpc[t] # "idle" and, within  *)
(* it, inside an arbiter call while pc[t] # "idle".                        *)
(*                                                                         *)
(* Emits, Acquires, Controls, Selects   which task makes which calls       *)
(* MaxChanges   bound on the calls that change the mode word               *)
(* EpochModulus the epochs' width: 2^8, 2^8 and 2^5 in the code            *)
(***************************************************************************)
EXTENDS DapOwnership, FiniteSets

CONSTANTS
  Emits,        \* task -> the events it reports
  Acquires,     \* task -> the owner it acquires the port for, or "NONE"
  Controls,     \* the tasks that start network control operations
  Selects,      \* task -> the routes it asks for
  StartWords,   \* the mode words a run starts from
  MaxChanges,
  EpochModulus

VARIABLES
  mode,         \* mode_control
  inflight,     \* usb_preemptions_inflight
  nvs,          \* the stored route
  saveFailed,   \* history: the last save reported an error
  mpc,          \* where each task is inside a mode call
  before,       \* the mode word the task loaded last
  want,         \* the event or route the call is about
  mresult,      \* what the task's last mode call returned
  changes,      \* calls that may still change the mode word
  moved         \* history: the mode fields that moved since a task loaded them

modeVars ==
  <<mode, inflight, nvs, saveFailed, mpc, before, want, mresult, changes, moved>>
ownVars == vars
allVars == <<ownVars, modeVars>>

-----------------------------------------------------------------------------
(* The mode word *)

Routes == {"AUTO", "USB", "NETWORK"}
RouteRequests == Routes \cup {"TOGGLE", "NETWORK_AUTO_TOGGLE"}
WifiStates == {"STOPPED", "DISCONNECTED", "CONNECTING", "ONLINE"}
ProvisioningStates == {"IDLE", "ACTIVE", "SUCCEEDED", "TIMED_OUT"}
OtaStates == {"IDLE", "RECEIVING", "READY_TO_REBOOT"}

Epochs == 0 .. EpochModulus - 1

ModeWords ==
  [usb : BOOLEAN, shell : BOOLEAN, wifi : WifiStates,
   provisioning : ProvisioningStates, ota : OtaStates, route : Routes,
   epoch : Epochs, wifiEpoch : Epochs, shellEpoch : Epochs]

\* One field moves per event: its name, the values it may have, the new one.
Moves(field, from, to) == [field |-> field, from |-> from, to |-> to]

EventTable == [
  USB_ATTACHED           |-> Moves("usb", BOOLEAN, TRUE),
  USB_DETACHED           |-> Moves("usb", BOOLEAN, FALSE),
  DEBUG_SHELL_STARTED    |-> Moves("shell", BOOLEAN, TRUE),
  DEBUG_SHELL_ENDED      |-> Moves("shell", BOOLEAN, FALSE),
  WIFI_STOPPED           |-> Moves("wifi", WifiStates, "STOPPED"),
  WIFI_DISCONNECTED      |-> Moves("wifi", WifiStates \ {"STOPPED"}, "DISCONNECTED"),
  WIFI_CONNECTING        |-> Moves("wifi", WifiStates, "CONNECTING"),
  WIFI_ONLINE            |-> Moves("wifi", {"CONNECTING"}, "ONLINE"),
  PROVISIONING_STARTED   |-> Moves("provisioning", ProvisioningStates \ {"ACTIVE"}, "ACTIVE"),
  PROVISIONING_SUCCEEDED |-> Moves("provisioning", {"ACTIVE"}, "SUCCEEDED"),
  PROVISIONING_TIMED_OUT |-> Moves("provisioning", {"ACTIVE"}, "TIMED_OUT"),
  PROVISIONING_RESET     |-> Moves("provisioning", ProvisioningStates, "IDLE"),
  OTA_STARTED            |-> Moves("ota", {"IDLE"}, "RECEIVING"),
  OTA_ABORTED            |-> Moves("ota", {"RECEIVING"}, "IDLE"),
  OTA_FAILED             |-> Moves("ota", {"RECEIVING"}, "IDLE"),
  OTA_COMMITTED          |-> Moves("ota", {"RECEIVING"}, "READY_TO_REBOOT"),
  OTA_RESET              |-> Moves("ota", OtaStates, "IDLE")]

Events == DOMAIN EventTable

Increment(epoch) == (epoch + 1) % EpochModulus

\* next_control refuses an event whose field has no such transition.
Accepts(w, event) == w[EventTable[event].field] \in EventTable[event].from

NextControl(w, event) ==
  LET move == EventTable[event]
      next == [w EXCEPT ![move.field] = move.to] IN
  [next EXCEPT
     !.epoch      = IF move.field \in {"usb", "ota"} THEN Increment(@) ELSE @,
     !.wifiEpoch  = IF move.field = "wifi" THEN Increment(@) ELSE @,
     !.shellEpoch = IF w.shell # next.shell THEN Increment(@) ELSE @]

WithRoute(w, route) ==
  [w EXCEPT !.route = route, !.epoch = Increment(@)]

\* app_main: airdap_mode_state_init, then OTA_RESET from the OTA manager, then
\* airdap_mode_state_restore_dap_route with what mode_storage.c loads.
BootWord(route) ==
  [NextControl([usb |-> FALSE, shell |-> FALSE, wifi |-> "STOPPED",
                provisioning |-> "IDLE", ota |-> "IDLE", route |-> "AUTO",
                epoch |-> 0, wifiEpoch |-> 0, shellEpoch |-> 0], "OTA_RESET")
   EXCEPT !.route = route]

UsbDataEnabled(w) == w.route # "NETWORK"
NetworkDataEnabled(w) ==
  w.route = "NETWORK" \/ (w.route = "AUTO" /\ ~w.usb)

-----------------------------------------------------------------------------
(* dap_admission_for_control.  Callers are always authenticated: the       *)
(* network sessions of the firmware are opened after authentication.       *)

DapResults == {"OK", "ALLOWED", "BUSY", "OFFLINE", "INVALID_ARGUMENT",
               "INVALID_STATE", "STORAGE_ERROR", "INVALID_TRANSITION"}

\* What the mode word alone says; "dap" and "control" are the values of
\* board_control.
Policy(w, owner, kind) ==
  LET blocked ==
        \/ w.ota # "IDLE"
        \/ owner = "USB" /\ ~UsbDataEnabled(w)
        \/ owner = "NETWORK" /\ kind = "control" /\ w.shell
        \/ owner = "NETWORK" /\ kind = "dap" /\ ~NetworkDataEnabled(w)
      offline ==
        \/ owner \in {"USB", "DIAGNOSTIC"} /\ ~w.usb
        \/ owner = "NETWORK" /\ w.wifi # "ONLINE"
  IN IF blocked THEN "BUSY" ELSE IF offline THEN "OFFLINE" ELSE "ALLOWED"

\* The second half reads airdap_dap_ownership_current.
OwnerConflict(owner) == CurrentOwner \notin {"NONE", owner}

Admission(w, owner, kind) ==
  IF Policy(w, owner, kind) = "ALLOWED" /\ OwnerConflict(owner)
  THEN "BUSY" ELSE Policy(w, owner, kind)

\* A refused transaction whose policy would now be allowed reports BUSY.
Latest(w, owner, kind) ==
  IF Admission(w, owner, kind) = "ALLOWED" THEN "BUSY"
  ELSE Admission(w, owner, kind)

OwnershipResult(r) ==
  IF r \in {"OK", "ALREADY_OWNER"} THEN "ALLOWED"
  ELSE IF r \in {"BUSY", "OFFLINE", "INVALID_ARGUMENT"} THEN r
  ELSE "INVALID_STATE"

\* Variant: the stamp compares the fields and not their epochs.
StampWithoutEpochs(w, owner, kind) ==
  <<w.usb, w.ota, w.route, IF owner = "NETWORK" THEN w.wifi ELSE "STOPPED",
    kind = "control" /\ w.shell>>

\* dap_policy_stamp, and the shell fields control operations add to it.
Stamp(w, owner, kind) ==
  <<w.usb, w.ota, w.epoch, w.route,
    IF owner = "NETWORK" THEN <<w.wifi, w.wifiEpoch>> ELSE <<>>,
    IF kind = "control" THEN <<w.shell, w.shellEpoch>> ELSE <<>> >>

-----------------------------------------------------------------------------
(* Control flow inside a mode call *)

NoWord == BootWord("AUTO")

Goto(t, label) ==
  /\ mpc' = [mpc EXCEPT ![t] = label]
  /\ UNCHANGED <<before, want, mresult, moved>>

\* Load mode_control and go on.
LoadMode(t, label) ==
  /\ mpc' = [mpc EXCEPT ![t] = label]
  /\ before' = [before EXCEPT ![t] = mode]
  /\ moved' = [moved EXCEPT ![t] = {}]
  /\ UNCHANGED <<want, mresult>>

\* The call goes to its last step, which will return r.
Conclude(t, label, r) ==
  /\ mpc' = [mpc EXCEPT ![t] = label]
  /\ mresult' = [mresult EXCEPT ![t] = r]
  /\ UNCHANGED <<before, want, moved>>

\* The call returns r; its locals die.
Finish(t, r) ==
  /\ mpc' = [mpc EXCEPT ![t] = "idle"]
  /\ before' = [before EXCEPT ![t] = NoWord]
  /\ want' = [want EXCEPT ![t] = "NONE"]
  /\ mresult' = [mresult EXCEPT ![t] = r]
  /\ moved' = [moved EXCEPT ![t] = {}]

\* History of a change of the mode word, for the tasks in the set busy.
Note(busy, next) ==
  moved' = [u \in Tasks |->
    IF u \in busy
    THEN moved[u] \cup {f \in {"usb", "ota", "route", "wifi", "shell"} : next[f] # mode[f]}
    ELSE {}]

InModeCall == {u \in Tasks : mpc[u] # "idle"}

\* An arbiter call returned to t's mode call.
Returned(t, label) == mpc[t] = label /\ pc[t] = "idle"

SharedMode == <<mode, inflight, nvs, saveFailed, changes>>

-----------------------------------------------------------------------------
(* airdap_mode_state_transition *)

TransitionEnter(t, event) ==
  /\ mpc[t] = "idle" /\ pc[t] = "idle"
  /\ inflight' = IF event = "USB_ATTACHED" THEN inflight + 1 ELSE inflight
  /\ mpc' = [mpc EXCEPT ![t] = "tr_load"]
  /\ want' = [want EXCEPT ![t] = event]
  /\ UNCHANGED <<mode, nvs, saveFailed, before, mresult, moved, ownVars>>

Transition(t, event) ==
  changes > 0 /\ changes' = changes - 1 /\ TransitionEnter(t, event)

\* Reload, and refuse an event the loaded word has no transition for.  Only
\* attach counts as a preemption and it is never refused.
TransitionDecide(t) ==
  /\ \/ Accepts(mode, want[t]) /\ LoadMode(t, "tr_cas")
     \/ ~Accepts(mode, want[t]) /\ Finish(t, "INVALID_TRANSITION")
  /\ UNCHANGED <<SharedMode, ownVars>>

TransitionLoad(t) == mpc[t] = "tr_load" /\ TransitionDecide(t)

\* The word is exchanged: an attach goes on to revoke, the others are done.
TransitionWin(t) ==
  LET next == NextControl(before[t], want[t]) IN
  /\ mode = before[t]
  /\ mode' = next
  /\ \/ /\ want[t] = "USB_ATTACHED"
        /\ mpc' = [mpc EXCEPT ![t] =
                     IF next.route # "NETWORK" THEN "tr_revoke" ELSE "tr_leave"]
        /\ mresult' = [mresult EXCEPT ![t] = "OK"]
        /\ Note(InModeCall, next)
        /\ UNCHANGED <<before, want>>
     \/ /\ want[t] # "USB_ATTACHED"
        /\ mpc' = [mpc EXCEPT ![t] = "idle"]
        /\ before' = [before EXCEPT ![t] = NoWord]
        /\ want' = [want EXCEPT ![t] = "NONE"]
        /\ mresult' = [mresult EXCEPT ![t] = "OK"]
        /\ Note(InModeCall \ {t}, next)
  /\ UNCHANGED <<inflight, nvs, saveFailed, changes, ownVars>>

TransitionCas(t) ==
  /\ mpc[t] = "tr_cas"
  /\ TransitionWin(t) \/ (mode # before[t] /\ TransitionDecide(t))

\* The result of the revocation is ignored.
TransitionRevoke(t) ==
  /\ mpc[t] = "tr_revoke"
  /\ RevokeOwnerLoad(t, "NETWORK")
  /\ Goto(t, "tr_leave")
  /\ UNCHANGED SharedMode

TransitionLeave(t) ==
  /\ Returned(t, "tr_leave")
  /\ inflight' = inflight - 1
  /\ Finish(t, mresult[t])
  /\ UNCHANGED <<mode, nvs, saveFailed, changes, ownVars>>

-----------------------------------------------------------------------------
(* airdap_mode_state_set_dap_route *)

SetRoute(t, request) ==
  /\ mpc[t] = "idle" /\ pc[t] = "idle"
  /\ changes > 0
  /\ changes' = changes - 1
  /\ ControlLoad(t, "DIAGNOSTIC")
  /\ mpc' = [mpc EXCEPT ![t] = "route_reserved"]
  /\ want' = [want EXCEPT ![t] = request]
  /\ UNCHANGED <<mode, inflight, nvs, saveFailed, before, mresult, moved>>

RouteReserved(t) ==
  /\ Returned(t, "route_reserved")
  /\ \/ result[t] # "OK" /\ Finish(t, OwnershipResult(result[t]))
     \/ /\ result[t] = "OK" /\ operation[t].owner # "NONE"
        /\ Conclude(t, "route_end", "BUSY")
     \/ /\ result[t] = "OK" /\ operation[t].owner = "NONE"
        /\ LoadMode(t, "route_check")
  /\ UNCHANGED <<SharedMode, ownVars>>

\* The route a request selects in the loaded word.
Selected(w, request) ==
  IF request = "TOGGLE"
  THEN IF w.route = "USB" \/ (w.route = "AUTO" /\ w.usb) THEN "NETWORK" ELSE "USB"
  ELSE IF request = "NETWORK_AUTO_TOGGLE"
  THEN IF w.route = "NETWORK" THEN "AUTO" ELSE "NETWORK"
  ELSE request

RouteCheck(t) ==
  LET selected == Selected(before[t], want[t])
      busy == before[t].ota # "IDLE" \/ inflight # 0 IN
  /\ mpc[t] = "route_check"
  /\ \/ busy /\ Conclude(t, "route_end", "BUSY")
     \/ /\ ~busy /\ selected = before[t].route
        /\ Conclude(t, "route_end", "ALLOWED")
     \/ /\ ~busy /\ selected # before[t].route
        /\ mpc' = [mpc EXCEPT ![t] = "route_save"]
        /\ want' = [want EXCEPT ![t] = selected]
        /\ UNCHANGED <<before, mresult, moved>>
  /\ UNCHANGED <<SharedMode, ownVars>>

\* Variant: the route in force is saved in place of the selected one.
RouteSaveOld(t) ==
  /\ mpc[t] = "route_save"
  /\ nvs' = before[t].route
  /\ saveFailed' = FALSE
  /\ Goto(t, "route_cas")
  /\ UNCHANGED <<mode, inflight, changes, ownVars>>

\* airdap_mode_storage_save: a failed commit may or may not have stored it.
RouteSave(t) ==
  /\ mpc[t] = "route_save"
  /\ \/ /\ nvs' = want[t]
        /\ saveFailed' = FALSE
        /\ Goto(t, "route_cas")
     \/ /\ nvs' \in {nvs, want[t]}
        /\ saveFailed' = TRUE
        /\ Conclude(t, "route_end", "STORAGE_ERROR")
  /\ UNCHANGED <<mode, inflight, changes, ownVars>>

RouteCas(t) ==
  LET next == WithRoute(before[t], want[t]) IN
  /\ mpc[t] = "route_cas"
  /\ \/ /\ mode = before[t]
        /\ mode' = next
        /\ mpc' = [mpc EXCEPT ![t] = "route_end"]
        /\ mresult' = [mresult EXCEPT ![t] = "ALLOWED"]
        /\ Note(InModeCall, next)
        /\ UNCHANGED <<inflight, nvs, saveFailed, changes, before, want>>
     \/ mode # before[t] /\ LoadMode(t, "route_cas") /\ UNCHANGED SharedMode
  /\ UNCHANGED ownVars

RouteEnd(t) ==
  /\ mpc[t] = "route_end"
  /\ OperationEnd(t)
  /\ Finish(t, mresult[t])
  /\ UNCHANGED SharedMode

-----------------------------------------------------------------------------
(* airdap_mode_state_dap_acquire.  USB callers are counted in and out.     *)

Owner(t) == Acquires[t]

\* The return of dap_acquire, and the counting around it.
AcquireDone(t, r) ==
  IF Owner(t) = "USB" THEN Conclude(t, "acq_leave", r) ELSE Finish(t, r)

DapAcquire(t) ==
  /\ mpc[t] = "idle" /\ pc[t] = "idle" /\ ~operation[t].active
  /\ inflight' = IF Owner(t) = "USB" THEN inflight + 1 ELSE inflight
  /\ claim' = [claim EXCEPT ![t] = NoClaim]
  /\ Goto(t, "acq_load")
  /\ UNCHANGED <<mode, nvs, saveFailed, changes, control, pc, expected, arg,
                 operation, result, regranted>>

\* A refused USB caller may take the port from the network.
MayPreempt(t, w) == Owner(t) = "USB" /\ w.route # "NETWORK"

AcquirePolicy(t) ==
  LET policy == Policy(mode, Owner(t), "dap") IN
  /\ mpc[t] = "acq_load"
  /\ \/ policy = "ALLOWED" /\ LoadMode(t, "acq_owner")
     \/ policy = "BUSY" /\ MayPreempt(t, mode) /\ LoadMode(t, "acq_preempt")
     \/ /\ policy # "ALLOWED"
        /\ policy = "BUSY" => ~MayPreempt(t, mode)
        /\ AcquireDone(t, policy)
  /\ UNCHANGED <<SharedMode, ownVars>>

AcquireOwner(t) ==
  /\ mpc[t] = "acq_owner"
  /\ \/ ~OwnerConflict(Owner(t)) /\ Goto(t, "acq_call")
     \/ /\ OwnerConflict(Owner(t)) /\ MayPreempt(t, before[t])
        /\ Goto(t, "acq_preempt")
     \/ /\ OwnerConflict(Owner(t)) /\ ~MayPreempt(t, before[t])
        /\ AcquireDone(t, "BUSY")
  /\ UNCHANGED <<SharedMode, ownVars>>

AcquirePreempt(t) ==
  /\ mpc[t] = "acq_preempt"
  /\ \/ CurrentOwner = "NETWORK" /\ Goto(t, "acq_revoke")
     \/ CurrentOwner # "NETWORK" /\ AcquireDone(t, "BUSY")
  /\ UNCHANGED <<SharedMode, ownVars>>

AcquireRevoke(t) ==
  /\ mpc[t] = "acq_revoke"
  /\ RevokeOwnerLoad(t, "NETWORK")
  /\ Goto(t, "acq_revoked")
  /\ UNCHANGED SharedMode

\* The policy is read and judged again, without a second preemption.
AcquireRevoked(t) ==
  LET policy == Policy(mode, Owner(t), "dap") IN
  /\ Returned(t, "acq_revoked")
  /\ \/ /\ result[t] \notin {"OK", "NOT_OWNER"}
        /\ AcquireDone(t, OwnershipResult(result[t]))
     \/ /\ result[t] \in {"OK", "NOT_OWNER"} /\ policy = "ALLOWED"
        /\ LoadMode(t, "acq_owner_again")
     \/ /\ result[t] \in {"OK", "NOT_OWNER"} /\ policy # "ALLOWED"
        /\ AcquireDone(t, policy)
  /\ UNCHANGED <<SharedMode, ownVars>>

AcquireOwnerAgain(t) ==
  /\ mpc[t] = "acq_owner_again"
  /\ \/ ~OwnerConflict(Owner(t)) /\ Goto(t, "acq_call")
     \/ OwnerConflict(Owner(t)) /\ AcquireDone(t, "BUSY")
  /\ UNCHANGED <<SharedMode, ownVars>>

AcquireCall(t) ==
  /\ mpc[t] = "acq_call"
  /\ AcquireLoad(t, Owner(t))
  /\ Goto(t, "acq_called")
  /\ UNCHANGED SharedMode

AcquireCalled(t) ==
  LET granted == IF Owner(t) = "DIAGNOSTIC" /\ result[t] = "ALREADY_OWNER"
                 THEN "BUSY" ELSE OwnershipResult(result[t])
      stable == Stamp(before[t], Owner(t), "dap") = Stamp(mode, Owner(t), "dap") IN
  /\ Returned(t, "acq_called")
  /\ \/ granted # "ALLOWED" /\ AcquireDone(t, granted)
     \/ granted = "ALLOWED" /\ stable /\ AcquireDone(t, "ALLOWED")
     \/ granted = "ALLOWED" /\ ~stable /\ LoadMode(t, "acq_release")
  /\ UNCHANGED <<SharedMode, ownVars>>

AcquireRelease(t) ==
  /\ mpc[t] = "acq_release"
  /\ Release(t)
  /\ Goto(t, "acq_released")
  /\ UNCHANGED SharedMode

AcquireReleased(t) ==
  /\ Returned(t, "acq_released")
  /\ \/ /\ result[t] \notin {"OK", "NOT_OWNER"}
        /\ AcquireDone(t, OwnershipResult(result[t]))
     \/ /\ result[t] \in {"OK", "NOT_OWNER"}
        /\ AcquireDone(t, Latest(before[t], Owner(t), "dap"))
  /\ UNCHANGED <<SharedMode, ownVars>>

AcquireLeave(t) ==
  /\ mpc[t] = "acq_leave"
  /\ inflight' = inflight - 1
  /\ Finish(t, mresult[t])
  /\ UNCHANGED <<mode, nvs, saveFailed, changes, ownVars>>

-----------------------------------------------------------------------------
(* airdap_mode_state_dap_operation_begin and _control_operation_begin: the *)
(* same transaction around two arbiter calls.                              *)

BeginPolicy(t, owner, kind, next) ==
  LET policy == Policy(mode, owner, kind) IN
  /\ mpc[t] = "idle" /\ pc[t] = "idle"
  /\ \/ policy = "ALLOWED" /\ LoadMode(t, next)
     \/ policy # "ALLOWED" /\ Finish(t, policy)
  /\ UNCHANGED <<SharedMode, ownVars>>

BeginOwner(t, owner, label, next) ==
  /\ mpc[t] = label
  /\ \/ ~OwnerConflict(owner) /\ Goto(t, next)
     \/ OwnerConflict(owner) /\ Finish(t, "BUSY")
  /\ UNCHANGED <<SharedMode, ownVars>>

BeginReturned(t, owner, kind, label, undo) ==
  LET granted == OwnershipResult(result[t])
      stable == Stamp(before[t], owner, kind) = Stamp(mode, owner, kind) IN
  /\ Returned(t, label)
  /\ \/ granted # "ALLOWED" /\ Finish(t, granted)
     \/ granted = "ALLOWED" /\ stable /\ Finish(t, "ALLOWED")
     \/ granted = "ALLOWED" /\ ~stable /\ LoadMode(t, undo)
  /\ UNCHANGED <<SharedMode, ownVars>>

\* The exchange of operation_end, then the admission for the result.
BeginUndo(t, label, next) ==
  /\ mpc[t] = label
  /\ OperationEnd(t)
  /\ Goto(t, next)
  /\ UNCHANGED SharedMode

BeginRefused(t, owner, kind, label) ==
  /\ mpc[t] = label
  /\ Finish(t, Latest(before[t], owner, kind))
  /\ UNCHANGED <<SharedMode, ownVars>>

DapBegin(t) == ~operation[t].active /\ BeginPolicy(t, Owner(t), "dap", "dap_owner")

DapBeginOwner(t) == BeginOwner(t, Owner(t), "dap_owner", "dap_call")

DapBeginCall(t) ==
  /\ mpc[t] = "dap_call"
  /\ OperationBegin(t)
  /\ Goto(t, "dap_called")
  /\ UNCHANGED SharedMode

DapBeginCalled(t) == BeginReturned(t, Owner(t), "dap", "dap_called", "dap_undo")

DapBeginUndo(t) ==
  \/ BeginUndo(t, "dap_undo", "dap_refused")
  \/ BeginRefused(t, Owner(t), "dap", "dap_refused")

ControlBegin(t) ==
  ~operation[t].active /\ BeginPolicy(t, "NETWORK", "control", "ctl_owner")

ControlBeginOwner(t) == BeginOwner(t, "NETWORK", "ctl_owner", "ctl_call")

ControlBeginCall(t) ==
  /\ mpc[t] = "ctl_call"
  /\ ControlLoad(t, "NETWORK")
  /\ Goto(t, "ctl_called")
  /\ UNCHANGED SharedMode

ControlBeginCalled(t) ==
  BeginReturned(t, "NETWORK", "control", "ctl_called", "ctl_undo")

ControlBeginUndo(t) ==
  \/ BeginUndo(t, "ctl_undo", "ctl_refused")
  \/ BeginRefused(t, "NETWORK", "control", "ctl_refused")

-----------------------------------------------------------------------------
(* The tasks of the firmware as clients, and the specification *)

\* The arbiter as dap_service_init leaves it.
ModeInit ==
  /\ control = MakeControl(0, "NONE")
  /\ pc = [t \in Tasks |-> "idle"]
  /\ expected = [t \in Tasks |-> Blank]
  /\ arg = [t \in Tasks |-> "NONE"]
  /\ claim = [t \in Tasks |-> NoClaim]
  /\ operation = [t \in Tasks |-> NoOperation]
  /\ result = [t \in Tasks |-> "OK"]
  /\ regranted = {}
  /\ mode \in StartWords
  /\ inflight = 0
  /\ nvs = mode.route
  /\ saveFailed = FALSE
  /\ mpc = [t \in Tasks |-> "idle"]
  /\ before = [t \in Tasks |-> NoWord]
  /\ want = [t \in Tasks |-> "NONE"]
  /\ mresult = [t \in Tasks |-> "OK"]
  /\ changes = MaxChanges
  /\ moved = [t \in Tasks |-> {}]

\* The client is done with the pins, or gives the port back.
EndOperation(t) ==
  /\ mpc[t] = "idle" /\ pc[t] = "idle"
  /\ OperationEnd(t)
  /\ UNCHANGED modeVars

ReleaseClaim(t) ==
  /\ mpc[t] = "idle" /\ ~operation[t].active
  /\ Release(t)
  /\ UNCHANGED modeVars

ArbiterStep(t) == InCall(t) /\ UNCHANGED modeVars

\* A reset at any point: only the stored route survives.
Restart ==
  /\ changes > 0
  /\ changes' = changes - 1
  /\ control' = MakeControl(0, "NONE")
  /\ pc' = [t \in Tasks |-> "idle"]
  /\ expected' = [t \in Tasks |-> Blank]
  /\ arg' = [t \in Tasks |-> "NONE"]
  /\ claim' = [t \in Tasks |-> NoClaim]
  /\ operation' = [t \in Tasks |-> NoOperation]
  /\ result' = [t \in Tasks |-> "OK"]
  /\ regranted' = {}
  /\ mode' = BootWord(nvs)
  /\ inflight' = 0
  /\ saveFailed' = FALSE
  /\ mpc' = [t \in Tasks |-> "idle"]
  /\ before' = [t \in Tasks |-> NoWord]
  /\ want' = [t \in Tasks |-> "NONE"]
  /\ mresult' = [t \in Tasks |-> "OK"]
  /\ moved' = [t \in Tasks |-> {}]
  /\ UNCHANGED nvs

\* The steps of a task inside a mode call.
InModeStep(t) ==
  \/ TransitionLoad(t) \/ TransitionCas(t) \/ TransitionRevoke(t)
  \/ TransitionLeave(t)
  \/ RouteReserved(t) \/ RouteCheck(t) \/ RouteSave(t) \/ RouteCas(t)
  \/ RouteEnd(t)
  \/ AcquirePolicy(t) \/ AcquireOwner(t) \/ AcquirePreempt(t)
  \/ AcquireRevoke(t) \/ AcquireRevoked(t) \/ AcquireOwnerAgain(t)
  \/ AcquireCall(t) \/ AcquireCalled(t) \/ AcquireRelease(t)
  \/ AcquireReleased(t) \/ AcquireLeave(t)
  \/ DapBeginOwner(t) \/ DapBeginCall(t) \/ DapBeginCalled(t) \/ DapBeginUndo(t)
  \/ ControlBeginOwner(t) \/ ControlBeginCall(t) \/ ControlBeginCalled(t)
  \/ ControlBeginUndo(t)
  \/ ArbiterStep(t)

ModeCall(t) ==
  \/ \E event \in Emits[t] : Transition(t, event)
  \/ \E request \in Selects[t] : SetRoute(t, request)
  \/ /\ Owner(t) # "NONE"
     /\ DapAcquire(t) \/ DapBegin(t) \/ ReleaseClaim(t)
  \/ t \in Controls /\ ControlBegin(t)
  \/ EndOperation(t)

ModeTask(t) == ModeCall(t) \/ InModeStep(t)

ModeStep == \E t \in Tasks : ModeTask(t)

ModeNext == Restart \/ ModeStep

ModeSpec == ModeInit /\ [][ModeNext]_allVars

-----------------------------------------------------------------------------
(* Properties *)

\* Type invariant of the mode word and of the callers' locals.
ModeTypeOK ==
  /\ TypeOK
  /\ mode \in ModeWords
  /\ inflight \in 0 .. Cardinality(Tasks)
  /\ nvs \in Routes
  /\ before \in [Tasks -> ModeWords]
  /\ want \in [Tasks -> Events \cup RouteRequests \cup {"NONE"}]
  /\ mresult \in [Tasks -> DapResults]
  /\ changes \in 0 .. MaxChanges

\* The policy fields a transaction of t depends on.
Relevant(t) ==
  {"usb", "ota", "route"}
  \cup (IF Owner(t) = "NETWORK" \/ mpc[t] = "ctl_called" THEN {"wifi"} ELSE {})
  \cup (IF mpc[t] = "ctl_called" THEN {"shell"} ELSE {})

\* A call that says ALLOWED applied one policy: dap_acquire,
\* dap_operation_begin and control_operation_begin never succeed when the
\* policy moved, even there and back, between their two reads of it.
AdmittedUnderOnePolicy ==
  [][\A t \in Tasks :
       /\ mpc[t] \in {"acq_called", "dap_called", "ctl_called"}
       /\ mpc'[t] \in {"idle", "acq_leave"}
       /\ mresult'[t] = "ALLOWED"
       => Relevant(t) \cap moved[t] = {}]_allVars

\* Once every selection has returned, a reset restores the route in force,
\* unless the flash reported a failure.
RouteDurable ==
  saveFailed \/ nvs = mode.route \/ \E t \in Tasks : mpc[t] = "route_cas"

\* Attach and USB acquire never take the port from a network client that was
\* granted it under a route set to NETWORK by hand: the counter is there to
\* "keep USB attach/acquire revocations from crossing a manual route selection".
RevocationsDoNotCross ==
  [][\A t, u \in Tasks :
       /\ pc[t] = "revoke_owner_cas" /\ pc'[t] = "release_pins"
       /\ mpc[u] = "idle" /\ mresult[u] = "ALLOWED" /\ ValidClaim(claim[u])
       /\ control.generation = claim[u].generation
       => mode.route # "NETWORK"]_allVars

=============================================================================
