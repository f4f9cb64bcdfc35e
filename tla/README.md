# AirDAP: TLA+ models and proofs

AirDAP is a wireless CMSIS-DAP debugger: ESP32-S3 firmware (C, FreeRTOS) that
drives a target's SWD pins and UART for a host on USB or on Wi-Fi, a host bridge
(Rust), a Windows manager (C#) and command-line tools (Python). This directory
models the concurrent parts of the firmware and of the bridge: who may drive the
debug port, under which policy, for which session; how a firmware update takes
the port away from everyone and gives it back; how USB and network share the
target's UART; how a network client authenticates, is served and is revoked; how
the device moves between its USB profiles; how it gets onto a Wi-Fi network and
what its key does; and how the bridge exports the probe over USB/IP.

## The system

| Part | State | Operations | Talks to |
|---|---|---|---|
| `dap_ownership` | one atomic word: owner or NONE/TRANSITION/SUSPENDED/OFFLINE, ACTIVE bit, generation | acquire, release, revoke, operation begin/end, line reset, suspend, resume, transport-neutral control operations | pins |
| `mode_state`, `mode_storage` | one atomic word: USB, shell, Wi-Fi, provisioning, update, route, three epochs; a counter of USB preemptions; the stored route | events, route selection, DAP acquire and begin, control begin, resets | `dap_ownership`, NVS |
| `dap_service` | live session per transport, pending disconnects, one queue, one worker | open, close, reset, submit; the worker's loop | `dap_protocol` |
| `dap_protocol`, `dap_backend` | selected port and claim per transport | Connect, Disconnect, bus commands | `mode_state`, `dap_ownership`, SWD engine |
| `ota_manager` | one session under a mutex | begin, write, commit, abort, client disconnect, reboot | `mode_state`, `dap_ownership`, `target_uart`, flash |
| `dap_ota`, `network_ota` | none | update commands of the USB and network clients | `ota_manager` |
| `target_uart` | sessions, TX owner, suspended flag, RX fan-out | open, close, write, suspend, resume | UART driver |
| `network_dap`, `network_control`, `network_uart` | connection registry, revocation queue | accept, serve, revoke, close | `dap_service`, `network_auth`, `target_uart` |
| `network_auth` | the paired credential, the pairing window, one owner session | pair, handshake, bind, touch, expire, revoke | `config_store` |
| `config_store` | a record in flash | load, save, erase | NVS |
| `wifi_manager` | state machine, credentials, retry timer | connect, retry, reconfigure, switch off, suspend | `mode_state`, `config_store` |
| `ble_provisioning` | the provisioning window, its timer and client, the candidate credentials | open, claim, verify, commit, time out, cancel, erase | `wifi_manager`, `config_store`, `network_auth` |
| `provisioning_button`, `button_simulation`, `button_config` | gesture recogniser, simulated key, bindings | poll, simulate, bind | `ble_provisioning` |
| `usb_device` | profile, DAP session and stream of the cable, UART bridge, debug shell with its output accounting | attach, detach, receive, send, change profile; shell sessions, restart | `dap_service`, `target_uart`, `mode_state` |
| `airdap_frame`, `swd_engine` | parser and sequence numbers; bus | encode, parse; transfer | |
| host bridge | USB/IP session: URBs, workers, two clients of the device | submit, unlink, complete, heartbeat | the firmware |
| tools | update client | | the firmware |

What makes it hard: two lock-free words that several tasks read and exchange
without a common lock; a worker that holds a request while its session is closed
under it; an update that moves four pieces of state one after another with a
failure path after each; a route that is written to flash before it is in force;
bounded queues between tasks that must not lose a revocation or a timeout;
drivers whose reports arrive after the state they report has changed; resets at
any point. `PROJECT.json` lists each hazard at its line with the
properties that would catch it.

## Modules

```
PinArbiter  <--refines--  DapOwnership  <--EXTENDS--  ModeState  <--+-- OtaManager
                               ^                                    +-- DapBackend
                      DapOwnershipProofs          DapService (on its own)

TargetUart  <--EXTENDS--  UartClients
NetworkAuth <--EXTENDS--  NetworkDap
ConfigStore <--EXTENDS--  WifiManager  <--EXTENDS--  BleProvisioning
ProvisioningButton (on its own)
AirdapFrame <--EXTENDS--  UsbIp
DebugShellTx <--EXTENDS-- UsbDevice    <--EXTENDS--  DebugShell
```

* **PinArbiter**: what a client may rely on. A pair of holder and generation, and
  who drives the pins, each changed in one atomic step.
* **DapOwnership**: `dap_ownership.c`. Every atomic load, exchange and store is a
  step. `control` is the word; `pc[t]` the place of task `t` inside its call and
  the other per-task variables its C locals and caller structures. Compare and
  exchange is modelled with its failure branch. A weak exchange that fails
  spuriously only repeats a read, so it is left to stuttering.
* **ModeState**: `mode_state.c` and the save of `mode_storage.c`, composed with
  the arbiter: a mode call *is* steps of its own and arbiter calls of the same
  task (`mpc[t]` and `pc[t]`). `mode` is the word, `inflight` the preemption
  counter, `nvs` the stored route. `Restart` is a reset at any point followed by
  the boot order of `app_main.c`. A failing save may or may not have reached
  flash.
* **DapService**: `dap_service.c`. The worker's loop is one step per access to
  shared state. `proc[tr]` is the session whose Connect is in force in the
  processor of a transport.
* **OtaManager**: `ota_manager.c` over ModeState. A call holds `session_mutex`
  and runs step by step: mode event, arbiter suspend or resume, UART suspend or
  resume, flash call. Every flash and UART call may fail. `flash` records who
  wrote each chunk, `link` the state of a network client's connection.
* **DapBackend**: Connect and Disconnect of `dap_protocol.c`, `dap_backend.c`
  and the operation bracket of bus commands over ModeState, on the one worker.
* **TargetUart**: `target_uart.c`. A section under `state_mutex` is one step;
  `txLock` is `tx_operation_mutex`, held over a write, a configuration or a
  suspension, whose inner steps are separate: filling the driver's ring, each
  store of `publish_configuration`, each load of `get_status`, the wait for the
  ring to empty. Received byte number *k* is the number *k*, so order and loss are
  visible. `before` and `after` of `get_status`: the comparison with an
  uninitialized `after` on a first odd read loops whatever its value, so it needs
  no choice. Baud rate and data bits stand for the four fields of a setting. The
  loads and stores of the publication are sequentially consistent in the model;
  the code's field accesses are relaxed between acquire loads of the counter
  (`target_uart.c:435`), so `StatusIsOneConfiguration` is about the interleaving
  of the two tasks, not about reordering by the hardware.
* **UartClients**: `usb_uart_bridge.c` (callbacks on the TinyUSB task, the worker,
  the detach handler), `network_uart.c`, the places of `network_dap.c` where a
  connection opens, releases or is made to lose its UART session, and an update
  that suspends and resumes. `DataReady` combines the attachment, which only the
  TinyUSB task changes, with the route, which any task may change at any time.
* **NetworkAuth**: `network_auth.c`. A section under `auth_mutex` is one step;
  `owed` is the revocation a task has to report after it let the mutex go.
* **NetworkDap**: `network_dap.c` over NetworkAuth: the listener, one task per
  connection from accept to teardown, the revocation queue with its overflow
  flag, and what this code uses of the DAP and UART services (a worker that
  answers while it holds the session's mutex).
* **AirdapFrame**: the sequence validator of `airdap_frame.c` and the counter of
  `network.rs`, as operators over `1 .. MaxSequence`.
* **UsbIp**: a session of `usbip.rs` and its two clients in `network.rs`. `state`
  is the `State` struct under its mutex; the receiver, the three workers, the
  serial reader and the heartbeat interleave around it. Units of data are
  numbered, so order, loss and cuts are visible.
* **ConfigStore**: `config_store.c`. `ram` and `flash`; a save may fail before or
  after flash has changed, and a reset may find a partition it has to erase.
  `airdap_config_store_set_provisioned` alone, which no firmware code calls, is
  left out: it could set the flag without credentials.
* **WifiManager**: `wifi_manager.c` and `wifi_state_machine.c` as functions of the
  manager's record, with every outcome of the driver calls, and a start that
  fails. History: `overtaken` (a connect on top of a disconnection not yet
  reported, or one of the upstream manager's), `stale` (a configuration that could
  not be applied and was reported) and `kept` (a disconnect that failed and left
  the driver with a link the manager has forgotten).
* **BleProvisioning**: `ble_provisioning.c`, the shell's Wi-Fi commands and the
  key's device commands over WifiManager: one event loop with a bounded queue,
  the timers, the GATT task, the shell, the driver and the upstream provisioning
  manager around it. History: `untold`, a clear that failed published nothing.
* **ProvisioningButton**: the recogniser, the simulated key and `button_task`, in
  polls; `trace` remembers what the key did since the last gesture.
* **DebugShellTx**: `debug_shell_tx_state.c` as operators.
* **UsbDevice**: `usb_device.c` with `dap_stream.c` by its outcomes. The TinyUSB
  task takes one event at a time; `dev.todo` is what is left of its callback.
  Around it: the cable, the host, the route, the mode worker, and the DAP worker
  that tests and then writes its answer. `stack` and `bus` are external.
* **DebugShell**: the shell's task of `debug_shell.c` over UsbDevice: reserve,
  write, commit, wait for the ticket. History: `past`, what the host took and
  where every write landed.
* **MC\*** modules give the tasks their roles for TLC. In them `usb`, `wifi` and
  `shell` report events, `host` and `net` are the USB and network debug clients,
  `kick` is the listener closing a
  revoked connection, `poll` the bridge's worker, `line` the receiving UART worker,
  `ctl` starts control operations, `btn` selects routes, `diag` is the debug
  shell's probe, `cable`, `peer` and `later` are update clients.

Variants whose comment begins with "Variant:" are plausible mistakes in the code;
each property is violated by at least one of them, which shows that it depends on
what the code does.

## Runs

| Run | Instance | Properties |
|---|---|---|
| MCDapOwnership | 2 tasks, generations to 2, symmetric | `IInv`, `RevokesOnlyWhatItSaw`, `ImplementsPinArbiter` |
| MCModeState | crews usb+net+btn, usb+diag+btn, wifi+shell+ctl; 2 changes, cable attached or not at the start | `RouteDurable`, `AdmittedUnderOnePolicy` |
| MCModeStateCrossing | usb+net+btn; 2 changes | `RevocationsDoNotCross` (violated) |
| MCDapService | 2 transports, queue 1, 3 sessions | `FreshProcessor`, `DisconnectsOnlyAsked`, `ClosedIsDisconnected` (liveness) |
| MCOtaManager | crews cable+net+btn, cable+peer+later; 2 changes, 2 chunks | `UpdateExcludesDebug`, `DebugRestored`, `OrphansCanBeAborted`, `SelectedImageIsWhole` |
| MCOtaManagerLive | crews cable+net, cable+btn; 2 changes | `CallsReturn` (liveness) |
| MCDapBackend | crews usb+host+net, net+ctl+btn; generations to 2, 1 change, cable attached or not at the start | `GivenBackUnlessLost` |
| MCDapBackendReconnect | wifi+net; 1 change | `DisabledReleases` (violated) |
| MCUartClients | crews usb+host+poll+route, usb+host+net+route, net+kick+ota, usb+host+ota, net+line+route, usb+poll+line; 2 sessions, rings of 2 (RX) and 1 (TX), 4 bytes, 1 configuration | `TxOwnerIsStable`, `RxFaithful`, `StatusIsOneConfiguration`, `BridgeKnowsSession`, `QuietWhileUpdating`, `UsbSessionReleased` (liveness) |
| MCNetworkDap | 2 slots, 2 keys, 2 dials, revocation queue 1; seven crews: ports and frames with idle expiry, pairing, the pairing window, peers that leave, route changes | `ResourcesCounted`, `OwnerIsPaired`, `CallbackHasItsConnection`, `RevocationsAreCarried` |
| MCUsb | export crews of 3 or 4 URBs (dap, serial, line, setup, both with heartbeats); cable crews cable, data, keys, stop with the inputs of `Budget` | `EveryUrbSettledOnce`, `OutputAsReported`, `InputInOrder`, `NoLostWakeUp`, `SequencesAgree`; `BytesOnTheirEndpoint`, `AttachmentIsTracked`, `RestartIsAcknowledged` |
| MCProvisioning | 2 credentials, 2 clients, event queue 3; nine crews with the inputs of `MCBudget` | `ProvisionedHasWifi`, `NeverStranded`, `AppliedIsStored`, `WindowAlwaysEnds`, `WindowOwnsStation`, `CommitsOnlyUndecided`, `CommandIsDeliberate`, `SimulationIsRecognised` |

What they show, run by run, is the "about" of the run in `PROJECT.json`; each
property has its statement as a comment in its module. The type invariants of
ModeState, DapService, OtaManager and TargetUart are stated for reading and as
the start of proofs; no run lists them.

A behaviour of a run with crews has one of them, chosen at the start: the run
covers several small teams of tasks instead of one team too large to explore.

**Bounds.** `MaxGeneration` is the generation limit itself, so the runs reach the
offline port that the code reaches after 2^28 grants. `MaxChanges` bounds the
events, selections and restarts of a run; two are enough for a field to move and
move back inside another task's transaction. MCModeState and MCDapBackend start
from both states of the cable, which saves them a change. `EpochModulus` is above the number
of changes, so epochs do not wrap: a wrap inside one transaction (256 events
while a task is between two loads) would defeat the stamps and is outside the
model. `MaxSession`, `QueueDepth` and `MaxImage` bound sessions, waiting requests
and chunks; three sessions let a closed session's item meet two successors.
In MCUartClients two sessions let a late close meet the successor, `MaxRx` lets
the ring wrap, overflow and the drop counter (limit 1) saturate, writes of 2 meet
a ring of 1, and one publication is all a torn reading needs. In MCNetworkDap two
slots are one connection per service, or a successor beside the connection that is
torn down; the revocation queue of 1 overflows. In MCUsb the queues hold one URB,
responses two, and `MaxSequence` 5, odd as 2^32 - 1 is, wraps and leaves numbers
on both sides of half a turn; the interface's buffer of 2 units takes
neither the greeting and the acknowledgement together nor an acknowledgement
behind a text; one unplugging, two route changes and two session starts are
enough for a profile to be left and come back under a session. In MCProvisioning
each crew may spend a few inputs of the kinds that interfere with one another;
the key's durations keep the order of the code's thresholds, and the key itself
runs without a bound.

`CHECK_DEADLOCK FALSE` in MCUsb and MCProvisioning: a session that ended, a device
that restarted and a crew without inputs left have nothing to do.

`GivenBackUnlessLost` is exact: the history variable `lost` is set in two
situations and nowhere else, so the run shows that these are the only ways in
which a disconnected transport keeps the port. One is finding 2. The other: while
a control operation is active the release returns BUSY, which `dap_backend.c:104`
ignores, although `airdap_dap.h:24` says that closing "Releases the owner's claim".

`RestartIsAcknowledged` sets one behaviour apart in the same way (`past.early`): a
completion carries a number of bytes and no session, so bytes that an earlier
shell session left in the interface's buffer may be counted for a later one once
that has reserved. `test_stale_completion_cannot_complete_new_ticket` covers a
completion that comes before the reservation, which is ignored. The run shows
that nothing else lets the device restart before its acknowledgement was taken.

`NeverStranded` assumes that `esp_wifi_disconnect` works on a live link, and says
exactly where: the history variable `kept` is set when it fails there. Then
`begin_reconfiguration` (`wifi_manager.c:280`) configures and connects a driver
that is still connected, and if that answers OK the manager waits in CONNECTING
with no timer; `disconnect_station` (`wifi_manager.c:294`) leaves the link up with
the manager STOPPED. Both last until the link ends, after which the property holds
again; the mode word shows the machine's state throughout.

Behaviours the models have and no property forbids: a failed save that left the
new record in flash is not repaired by storing the old value again
(`config_store.c:341`); a keep-alive does not take back a timeout that is already
queued (`ble_provisioning.c:616`); a configuration that could not be applied is
retried by connecting only (`wifi_manager.c:256`).

**Fairness.** Weak fairness of the steps of a task that is inside a call:
FreeRTOS schedules every ready task of the priorities involved, no step blocks
for ever, and no call has to be made. Grants and mode events are finitely many
in a run (`MaxGeneration`, `MaxChanges`), so `CallsReturn` checks the retry loops of the mode word and of the arbiter's
suspend and resume against every finite amount of interference; under endless
interference a lock-free loop guarantees progress of some task only. In
DapService the worker and the second store of a close are fair. In UartClients a
callback that began, the bridge's worker and the transmitter are fair; the host,
the network and the route owe nothing. A crew without the worker has no fair
behaviour, so `UsbSessionReleased` is about the two crews with `poll`.

## Findings

1. `MCModeStateCrossing`: `mode_state.c:31` says the counter keeps USB
   revocations "from crossing a manual route selection". It is read once
   (line 454), before the flash save. An attach that starts after that read
   revokes a network client admitted under the route just selected.
2. `MCDapBackendReconnect`: `dap_backend.c:97` says "The protocol releases the
   claim if connection setup fails". `dap_acquire` clears the claim first
   (`mode_state.c:507`); if a connected host connects again and is refused, the
   empty claim cannot be released and the port stays owned.

## Proofs

`DapOwnershipProofs` proves, for every set of tasks and every generation limit
(`DapOwnership`'s named assumptions), the properties of MCDapOwnership, those that
follow from its invariant (`TypeOK`, `PinsExclusive`, `NoOrphanedReservation`,
`ClaimsAgree`, `OperationHoldsOwnership`, `SuspendedUntilResume`,
`OfflineIsFinal`), and the refinement of PinArbiter.

The argument. The properties are not inductive: that a blind store is harmless
depends on who is in a transition. `IInv` adds, to `TypeOK`, what each place in
the code knows of its locals (`LocalsInv`), that a TRANSITION word has exactly one
task at a place that will store (`TransitionInv`), that the ACTIVE bit has exactly
one task with an open operation (`OperationInv`), and that claims carry
generations no later than the word's and agree on the owner (`ClaimInv`). Every
step of every entry point is one of seven kinds by what it does to the word (read,
lock, keep, store, grant, begin, end); a lemma per kind shows that it preserves
`IInv`, and a lemma per action that it is of its kind. The safety properties
follow from `IInv`; the action properties and the refinement from `IInv` and the
kind of the step.

Only model-checked: everything about the other modules, and all liveness
(fairness and ENABLED are out of the prover's reach). UsbIp flushes its responses
with a RECURSIVE operator, so nothing is proved about it or its MC module.

## Not modelled

Statistics, logs, text and packet layouts; the SWD bit timing and the pins'
electrical state; priorities (any ready task may run); a task deleted inside a
call (the code has none). The single DAP worker serializes `host` and `net`; the
ModeState runs let them interleave, which allows more behaviours, and DapBackend
models the worker. Epoch wraps, as above, and the wrap of 32-bit session
identifiers while a reference to an old one lives.

The DAP command processor and the SWD engine run on the worker inside one
operation and share nothing with another task: what could go wrong there is
sequential and byte-level, the ground of their unit tests. The host service
serializes its operations with one gate, and what is left is in the programs,
libraries and file systems it calls; the manager is a user interface over it. In
UsbIp the import handshake and the list of devices are fixed data. Line editing,
scanning and printing of the shell are text processing. The parts without a
module are in `PROJECT.json` with reasons.

## Plan

1. Theorems: `FreshProcessor` of DapService, `TxOwnerIsStable` of TargetUart,
   `OwnerIsPaired` and `ResourcesCounted` of NetworkDap, `BytesOnTheirEndpoint`
   and `AttachmentIsTracked` of UsbDevice, `ProvisionedHasWifi` of ConfigStore,
   `RouteDurable` of ModeState, `UpdateExcludesDebug` of OtaManager.
2. Abstract specifications: a one-session-at-a-time service that DapService
   implements; an atomic admission that ModeState implements where it does.
3. Boot confirmation and rollback of an updated image; the request framing of the
   DAP processor as operators against a reference definition.
