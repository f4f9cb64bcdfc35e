-------------------------- MODULE BleProvisioning --------------------------
(***************************************************************************)
(* The provisioning window (ble_provisioning.c) together with the Wi-Fi    *)
(* manager it suspends, the configuration store both write, and the shell  *)
(* (debug_shell_wifi.c).  Handlers run one at a time on the default event  *)
(* loop, from one bounded queue; around it run the timer callbacks, the    *)
(* GATT task, the shell, the station driver and the upstream provisioning  *)
(* manager, which is external.                                             *)
(***************************************************************************)
EXTENDS WifiManager, SequencesExt

CONSTANTS
  Owners,           \* protocomm sessions of BLE clients
  QueueDepth        \* events the default loop holds

VARIABLES
  m,                \* the Wi-Fi manager and the driver
  b,                \* the window and the upstream manager, see NoWindow
  queue,            \* events of the default loop
  firing,           \* esp_timer callbacks that have expired and not run yet
  shell             \* what the shell's command has still to do

provVars == <<storeVars, m, b, queue, firing, shell>>

Event(kind) == [kind |-> kind, arg |-> None, owner |-> None]
Posted(kind) == \E i \in DOMAIN queue : queue[i].kind = kind
Room == Len(queue) < QueueDepth

\* Two fields are history: verified, what the upstream manager has connected
\* with in this window, and untold, that a failed clear ended the last one.
NoWindow ==
  [active |-> FALSE, stopping |-> FALSE, outcome |-> "NONE", owner |-> None,
   candidate |-> None, timer |-> FALSE, busy |-> FALSE, restart |-> FALSE,
   manager |-> "off", verified |-> {}, untold |-> FALSE, pairing |-> FALSE, mode |-> "IDLE"]

\* app_main starts the store, the Wi-Fi manager, which may fail, and the window
\* in this order.
ProvInit ==
  /\ StoreInit
  /\ m \in {Started(ram.wifi), NotStarted(ram.wifi)}
  /\ b = NoWindow
  /\ queue = <<>>
  /\ firing = {}
  /\ shell = "none"

\* esp_restart, or a power failure at any moment.
Restart ==
  /\ Reload
  /\ m' \in {Started(ram'.wifi), NotStarted(ram'.wifi)}
  /\ b' = NoWindow
  /\ queue' = <<>>
  /\ firing' = {}
  /\ shell' = "none"

-----------------------------------------------------------------------------
(* The driver, external: each report is an event of the loop *)

Report(kind, n) ==
  /\ Room
  /\ queue' = Append(queue, Event(kind))
  /\ m' = n
  /\ UNCHANGED <<storeVars, b, firing, shell>>

DriverStarts == m.driver = "starting" /\ Report("START", [m EXCEPT !.driver = "idle"])

DriverConnects ==
  m.driver = "connecting" /\ Report("CONNECTED", [m EXCEPT !.driver = "connected"])

\* A failed attempt, a lost link, or the end of a disconnect.
DriverDisconnects ==
  \/ /\ m.driver \in {"connecting", "connected", "leaving"}
     /\ Report("DISCONNECTED",
               [m EXCEPT !.driver = "idle", !.ip = FALSE, !.reports = @ + 1, !.kept = FALSE])
  \/ /\ m.driver = "rejoining"
     /\ Report("DISCONNECTED", [m EXCEPT !.driver = "connecting", !.ip = FALSE, !.reports = @ + 1])

DriverGetsIp ==
  m.driver = "connected" /\ ~m.ip /\ Report("GOT_IP", [m EXCEPT !.ip = TRUE])

DriverLosesIp ==
  m.driver = "connected" /\ m.ip /\ Report("LOST_IP", [m EXCEPT !.ip = FALSE])

-----------------------------------------------------------------------------
(* Timers: an expiry takes the timer, the callback runs later *)

RetryExpires ==
  /\ m.timer
  /\ m' = [m EXCEPT !.timer = FALSE]
  /\ firing' = firing \cup {"RETRY"}
  /\ UNCHANGED <<storeVars, b, queue, shell>>

WindowExpires ==
  /\ b.timer
  /\ b' = [b EXCEPT !.timer = FALSE]
  /\ firing' = firing \cup {"TIMEOUT"}
  /\ UNCHANGED <<storeVars, m, queue, shell>>

\* retry_timer_callback: a full queue re-arms the timer, unless the handlers
\* have armed it meanwhile.
RetryCallback ==
  /\ "RETRY" \in firing
  /\ firing' = firing \ {"RETRY"}
  /\ \/ Room /\ queue' = Append(queue, Event("RETRY")) /\ UNCHANGED m
     \/ ~Room /\ m' = [m EXCEPT !.timer = TRUE] /\ UNCHANGED queue
  /\ UNCHANGED <<storeVars, b, shell>>

\* Variant: a timeout that finds the queue full is dropped.
WindowCallbackDrops ==
  /\ "TIMEOUT" \in firing
  /\ firing' = firing \ {"TIMEOUT"}
  /\ queue' = IF Room THEN Append(queue, Event("TIMEOUT")) ELSE queue
  /\ UNCHANGED <<storeVars, b, m, shell>>

\* window_timer_callback
WindowCallback ==
  /\ "TIMEOUT" \in firing
  /\ firing' = firing \ {"TIMEOUT"}
  /\ \/ Room /\ queue' = Append(queue, Event("TIMEOUT")) /\ UNCHANGED b
     \/ ~Room /\ b' = [b EXCEPT !.timer = TRUE] /\ UNCHANGED queue
  /\ UNCHANGED <<storeVars, m, shell>>

-----------------------------------------------------------------------------
(* The shell: the store is written, the flag read and the event posted in
   three steps of another task *)

\* set_credentials and clear_credentials up to the store.
ShellStores(wifi, ok) ==
  /\ shell = "none"
  /\ IF wifi = None THEN Clear({"wifi"}, ok) ELSE SetBlob("wifi", wifi, ok)
  /\ shell' = IF ok THEN "check" ELSE "none"
  /\ UNCHANGED <<m, b, queue, firing>>

ShellChecks ==
  /\ shell = "check"
  /\ shell' = IF m.started /\ ~m.suspended THEN "notify" ELSE "none"
  /\ UNCHANGED <<storeVars, m, b, queue, firing>>

\* notify_configuration_changed waits for room.
ShellNotifies ==
  /\ shell = "notify"
  /\ Room
  /\ queue' = Append(queue, Event("CHANGED"))
  /\ shell' = "none"
  /\ UNCHANGED <<storeVars, m, b, firing>>

-----------------------------------------------------------------------------
(* The button and the BLE client *)

\* button_task posts a recognised gesture; gestures are further apart than the
\* loop takes for one.
Key(command) ==
  /\ Room
  /\ ~\E k \in {"PROVISIONING", "CLEAR", "WIFI"} : Posted(k)
  /\ queue' = Append(queue, Event(command))
  /\ UNCHANGED <<storeVars, m, b, firing, shell>>

Serving == b.manager \in {"ready", "verifying", "done"}

\* session_endpoint: one request at a time; a full queue is an error to the
\* client and leaves nothing pending.
SessionEndpoint(owner, command) ==
  /\ Serving
  /\ b.owner \in {None, owner}
  /\ ~b.busy
  /\ queue' = IF Room THEN Append(queue, [kind |-> "SESSION", arg |-> command, owner |-> owner])
                      ELSE queue
  /\ b' = [b EXCEPT !.busy = Room]
  /\ UNCHANGED <<storeVars, m, firing, shell>>

\* pairing_endpoint_handler
PairingEndpoint(blob, ok) ==
  /\ Serving
  /\ b.pairing
  /\ SetBlob("auth", blob, ok)
  /\ UNCHANGED <<m, b, queue, firing, shell>>

\* The upstream manager, external: it configures the driver with the client's
\* credentials, connects, and reports the verdict and its own end.
ClientSubmits(wifi) ==
  /\ b.manager = "ready"
  /\ Room
  /\ queue' = Append(queue, [Event("CRED_RECV") EXCEPT !.arg = wifi])
  /\ b' = [b EXCEPT !.manager = "verifying"]
  /\ m' = [m EXCEPT !.config = wifi,
                    !.driver = Connected(IF @ \in {"connecting", "connected"} THEN "leaving" ELSE @)]
  /\ UNCHANGED <<storeVars, firing, shell>>

\* It learns of the result from the same events of the loop.
UpstreamVerifies ==
  /\ b.manager = "verifying"
  /\ Room
  /\ \/ /\ m.driver = "connected" /\ m.ip /\ ~Posted("GOT_IP")
        /\ queue' = Append(queue, Event("CRED_SUCCESS"))
        /\ b' = [b EXCEPT !.manager = "done", !.verified = @ \cup {m.config}]
     \/ /\ m.driver = "idle" /\ ~Posted("DISCONNECTED")
        /\ queue' = Append(queue, Event("CRED_FAIL"))
        /\ b' = [b EXCEPT !.manager = "done"]
  /\ UNCHANGED <<storeVars, m, firing, shell>>

UpstreamEnds ==
  /\ b.manager = "stopping"
  /\ Room
  /\ queue' = Append(queue, Event("END"))
  /\ b' = [b EXCEPT !.manager = "ended"]
  /\ UNCHANGED <<storeVars, m, firing, shell>>

-----------------------------------------------------------------------------
(* The window, as functions of its record *)

\* airdap_mode_state_transition for the PROVISIONING events
Moved(mode, event) ==
  CASE event = "STARTED" -> "ACTIVE"
    [] event = "RESET" -> "IDLE"
    [] event \in {"SUCCEEDED", "TIMED_OUT"} -> IF mode = "ACTIVE" THEN event ELSE mode
    [] OTHER -> mode

\* Variant: a window that is stopped is not reported.
OutcomeEventSilent(outcome) == None

OutcomeEvent(outcome) ==
  CASE outcome = "RESTORE" -> "TIMED_OUT" [] outcome = "CLEAR" -> "RESET" [] OTHER -> None

\* request_window_stop: a committed result is kept; when the window is already
\* stopping only a clear still counts.
RequestWindowStop(w, outcome) ==
  LET kept == IF w.outcome = "SUCCESS" /\ outcome = "RESTORE" THEN "SUCCESS" ELSE outcome
      closed == [w EXCEPT !.owner = None, !.pairing = FALSE,
                          !.mode = IF w.owner # None /\ kept = "SUCCESS"
                                     THEN Moved(@, "SUCCEEDED") ELSE @]
  IN
  CASE ~w.active -> w
    [] w.active /\ w.stopping ->
         IF kept = "CLEAR" THEN [closed EXCEPT !.outcome = kept, !.mode = Moved(@, "RESET")] ELSE closed
    [] OTHER -> [closed EXCEPT !.stopping = TRUE, !.outcome = kept, !.timer = FALSE,
                               !.mode = Moved(@, OutcomeEvent(kept)), !.manager = "stopping",
                               !.untold = kept = "CLEAR_FAILED"]

\* start_window once nothing can fail but the timer.
Opened(w) ==
  [w EXCEPT !.active = TRUE, !.stopping = FALSE, !.outcome = "NONE", !.owner = None,
            !.candidate = None, !.busy = FALSE, !.manager = "ready", !.verified = {},
            !.untold = FALSE, !.pairing = TRUE, !.timer = TRUE, !.mode = Moved(@, "STARTED")]

\* handle_session_control; storage and timer are the outcomes of selecting RAM
\* storage after the upstream reset and of re-arming the window's timer.
SessionControl(w, event, storage, timer) ==
  LET done == [w EXCEPT !.busy = FALSE]
      rearmed(x) == IF timer THEN [x EXCEPT !.timer = TRUE] ELSE RequestWindowStop(x, "RESTORE")
      listened == w.active /\ ~w.stopping /\ w.owner \in {None, event.owner}
      managed == listened /\ w.owner # None
  IN
  CASE listened /\ event.arg = "claim" /\ w.outcome = "NONE" ->
         rearmed([done EXCEPT !.owner = event.owner])
    [] managed /\ event.arg = "keepalive" -> rearmed(done)
    [] managed /\ event.arg = "reset" /\ w.manager = "done" /\ storage ->
         rearmed([done EXCEPT !.outcome = "NONE", !.candidate = None, !.manager = "ready"])
    [] managed /\ event.arg = "reset" /\ w.manager = "done" /\ ~storage ->
         [done EXCEPT !.manager = "ready"]
    [] managed /\ event.arg = "cancel" -> RequestWindowStop(done, "RESTORE")
    [] OTHER -> done

-----------------------------------------------------------------------------
(* The handlers of the default loop *)

\* The next event is of this kind.  After esp_restart no handler runs.
Handles(kind) ==
  /\ queue # <<>>
  /\ Head(queue).kind = kind
  /\ b.active \/ ~b.restart
  /\ UNCHANGED <<firing, shell>>

Taken == queue' = Tail(queue)

WifiEvents == {"CHANGED", "RETRY", "START", "CONNECTED", "DISCONNECTED", "GOT_IP", "LOST_IP"}

HandleWifiEvent ==
  \E kind \in WifiEvents, o \in Outcomes :
    /\ Handles(kind)
    /\ m' = WifiHandles(m, kind, ram.wifi, o)
    /\ Taken
    /\ UNCHANGED <<storeVars, b>>

\* start_window: it may fail before anything was changed, before the Wi-Fi
\* manager is suspended, or after, when cleanup_failed_window_start resumes it.
StartWindow(step, o) ==
  CASE step = "load" -> UNCHANGED <<m, b>>
    [] step = "before" \/ (step # "load" /\ ~PrepareOk(m)) ->
         m' = m /\ b' = [b EXCEPT !.outcome = "NONE", !.busy = FALSE]
    [] step = "after" /\ PrepareOk(m) ->
         m' = Finish(Prepare(m), ram.wifi, o) /\ b' = [b EXCEPT !.outcome = "NONE", !.busy = FALSE]
    [] step = "timer" /\ PrepareOk(m) ->
         m' = Prepare(m) /\ b' = RequestWindowStop(Opened(b), "RESTORE")
    [] OTHER -> m' = Prepare(m) /\ b' = Opened(b)

\* The PROVISIONING command opens a window, or ends the one that is open.
HandleProvisioningKey ==
  /\ Handles("PROVISIONING")
  /\ Taken
  /\ \/ b.active /\ b' = RequestWindowStop(b, "RESTORE") /\ UNCHANGED m
     \/ /\ ~b.active
        /\ \E step \in {"load", "before", "after", "timer", "none"}, o \in Outcomes : StartWindow(step, o)
  /\ UNCHANGED storeVars

\* CLEAR_NETWORK_RESTART with airdap_wifi_manager_clear_network_configuration:
\* the store, the driver's RAM, the driver's own NVS, and the event, which the
\* loop's own task cannot wait to post: another task may have taken the place
\* this event left.  A manager that never started has no driver to clear and
\* nobody to tell.
HandleClearKey ==
  /\ Handles("CLEAR")
  /\ \E stored, driver, nvs, posted \in BOOLEAN :
       LET listens == m.started /\ ~m.suspended
           cleared == stored /\ driver /\ nvs /\ (listens => posted)
           closed == [b EXCEPT !.pairing = FALSE]
       IN
       /\ posted => stored /\ listens
       /\ stored /\ listens /\ ~posted => ~Room
       /\ ~m.started => driver
       /\ Clear({"wifi", "auth"}, stored)
       /\ m' = IF ~stored
                 THEN m
                 ELSE [m EXCEPT !.config = IF driver THEN None ELSE @,
                                !.stale = @ \/ ~driver \/ (listens /\ ~posted)]
       /\ queue' = IF posted THEN Append(Tail(queue), Event("CHANGED")) ELSE Tail(queue)
       /\ b' = CASE ~cleared -> RequestWindowStop(closed, "CLEAR_FAILED")
                 [] cleared /\ b.active -> [RequestWindowStop(closed, "CLEAR") EXCEPT !.restart = TRUE]
                 [] OTHER -> [closed EXCEPT !.restart = TRUE, !.mode = Moved(@, "RESET")]

\* A command is refused while a reset or power pulse of the target runs, the
\* radio's also while the target is debugged or an update is received.
KeyRefused ==
  \E command \in {"PROVISIONING", "CLEAR", "WIFI"} :
    /\ Handles(command)
    /\ Taken
    /\ UNCHANGED <<storeVars, m, b>>

\* WIFI_TOGGLE is refused while a window is open.
HandleWifiKey ==
  /\ Handles("WIFI")
  /\ Taken
  /\ \E o \in Outcomes : m' = IF b.active THEN m ELSE Toggle(m, ram.wifi, o)
  /\ UNCHANGED <<storeVars, b>>

\* esp_restart
RestartAfterClear == b.restart /\ ~b.active /\ Restart

HandleSession ==
  /\ Handles("SESSION")
  /\ Taken
  /\ \E storage, timer \in BOOLEAN : b' = SessionControl(b, Head(queue), storage, timer)
  /\ UNCHANGED <<storeVars, m>>

HandleTimeout ==
  /\ Handles("TIMEOUT")
  /\ Taken
  /\ b' = RequestWindowStop(b, "RESTORE")
  /\ UNCHANGED <<storeVars, m>>

Undecided == b.active /\ ~b.stopping /\ b.outcome = "NONE"

\* NETWORK_PROV_WIFI_CRED_RECV; valid: the candidate has a legal size.
HandleReceived ==
  /\ Handles("CRED_RECV")
  /\ Taken
  /\ \E valid \in BOOLEAN :
       /\ b' = CASE ~Undecided -> b
                 [] Undecided /\ valid -> [b EXCEPT !.candidate = Head(queue).arg]
                 [] OTHER -> RequestWindowStop(b, "RESTORE")
       /\ m' = IF Undecided /\ valid THEN [m EXCEPT !.published = "CONNECTING"] ELSE m
  /\ UNCHANGED storeVars

HandleFailed ==
  /\ Handles("CRED_FAIL")
  /\ Taken
  /\ b' = IF b.active THEN [b EXCEPT !.candidate = None] ELSE b
  /\ UNCHANGED <<storeVars, m>>

\* Variant: a window that is being stopped still commits.
CommitsAnyway == b.active /\ b.candidate # None

\* A verified candidate is committed while the window is undecided.
Commits == Undecided /\ b.candidate # None

\* NETWORK_PROV_WIFI_CRED_SUCCESS: a managed window waits for its client, any
\* other is over after a delay.
HandleSuccess ==
  /\ Handles("CRED_SUCCESS")
  /\ Taken
  /\ LET w == IF b.active THEN [b EXCEPT !.candidate = None] ELSE b
         won == [w EXCEPT !.outcome = "SUCCESS"]
         shown == [won EXCEPT !.mode = Moved(@, "SUCCEEDED")] IN
     \/ /\ Commits
        /\ CommitNetworkProvisioning(b.candidate, TRUE)
        /\ IF b.owner # None
             THEN b' = won
             ELSE b' \in {[shown EXCEPT !.timer = TRUE], RequestWindowStop(shown, "SUCCESS")}
     \/ /\ Commits
        /\ CommitNetworkProvisioning(b.candidate, FALSE)
        /\ b' = RequestWindowStop(w, "RESTORE")
     \/ /\ ~Commits
        /\ b' = IF Undecided THEN RequestWindowStop(w, "RESTORE") ELSE w
        /\ UNCHANGED storeVars
  /\ UNCHANGED m

\* handle_window_end: the Wi-Fi manager resumes with what the store holds.
HandleEnd ==
  /\ Handles("END")
  /\ Taken
  /\ b' = [b EXCEPT !.owner = None, !.timer = FALSE, !.pairing = FALSE, !.manager = "off",
                    !.active = FALSE, !.stopping = FALSE, !.candidate = None]
  /\ \E o \in Outcomes : m' = Finish(m, ram.wifi, o)
  /\ UNCHANGED storeVars

-----------------------------------------------------------------------------
(* Properties *)

\* Nothing is on its way to the Wi-Fi manager.
Quiet ==
  /\ queue = <<>> /\ firing = {} /\ shell = "none"
  /\ m.driver \in {"idle", "connected"} /\ (m.driver = "connected" => m.ip)
  /\ m.radio /\ ~m.suspended

\* A station is never left without a next step: with nothing in flight, one
\* that has a configuration is online or has a retry armed, one that has none
\* holds no link, and the mode word shows the state the machine is in
\* (handle_failure, connect_now, begin_reconfiguration, disconnect_station), save
\* where the manager's picture of the driver had been overtaken.  A failed
\* disconnect is the one path on which the code forgets a link it has, and sets
\* the first part aside (kept) until that link ends.
NeverStranded ==
  Quiet /\ ~m.overtaken =>
    /\ m.kept \/ (IF m.has THEN m.timer \/ m.sm = "ONLINE" ELSE m.driver = "idle")
    /\ m.published = m.sm

\* What the driver is configured with is what the store holds, once no change
\* is in flight and none was reported to have failed: in particular after a
\* shell command that raced the end of a provisioning window, and whatever
\* candidate that window tried (set_credentials, finish_provisioning).
AppliedIsStored ==
  (m.radio /\ ~m.suspended /\ ~m.pending /\ ~m.stale /\ ~Posted("CHANGED") /\ shell = "none")
    => /\ m.has = (ram.wifi # None)
       /\ m.has => m.config = ram.wifi

\* An open window ends: its timer is armed, or has expired and its event is on
\* the way, or the stop was asked for and the upstream manager will report it;
\* and a request the client was told is pending is in the queue.
WindowAlwaysEnds ==
  /\ b.active =>
       \/ b.timer \/ "TIMEOUT" \in firing \/ Posted("TIMEOUT")
       \/ b.stopping /\ (b.manager = "stopping" \/ Posted("END"))
  /\ b.busy /\ b.active => Posted("SESSION")

\* The Wi-Fi manager is suspended exactly while a window is open, pairing is
\* accepted and a client owns the window only while it is open and not ending,
\* and the mode shows a window only when there is one, save after a clear that
\* failed, which publishes nothing (request_window_stop, handle_window_end).
WindowOwnsStation ==
  /\ m.suspended = b.active
  /\ b.pairing \/ b.owner # None => b.active /\ ~b.stopping
  /\ b.mode = "ACTIVE" /\ ~b.untold => b.active

\* Only a candidate the upstream manager has verified in this window becomes
\* the stored configuration, and only while the window was still undecided
\* (NETWORK_PROV_WIFI_CRED_SUCCESS after a cancel, a timeout or a clear).  The
\* shell's own writes and a restart after a failed one are set aside.
CommitsOnlyUndecided ==
  [][\A wifi \in Credentials :
       ram'.wifi = wifi /\ ram.wifi # wifi /\ UNCHANGED <<shell, failed>>
         => Undecided /\ wifi \in b.verified]_provVars
=============================================================================
