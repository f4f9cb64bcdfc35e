---------------------------- MODULE WifiManager ----------------------------
(***************************************************************************)
(* The Wi-Fi manager (wifi_manager.c) with its state machine               *)
(* (wifi_state_machine.c).  Its handlers run one at a time on the default  *)
(* event loop; the operators below are those handlers as functions of the  *)
(* record m: the manager's variables, the mode it has published, and the   *)
(* station driver it calls.  stored is the credential in the configuration *)
(* store, o the outcomes of the driver calls a handler makes.              *)
(***************************************************************************)
EXTENDS ConfigStore, Sequences

CONSTANT MaxDelay   \* doublings of the retry delay

\* Driver: "off", "starting", "idle", "connecting", "connected", "leaving" (a
\* disconnect under way) and "rejoining" (a connect on top of one).  reports
\* counts the disconnections the manager has yet to hear of.  overtaken is a
\* history variable: a connect was asked for before an earlier disconnection was
\* heard of, and its report is then taken for the end of the new connection; or
\* the manager resumed while a connection of the upstream manager, which it does
\* not know of, was being made.  kept is one too: a disconnect failed and the
\* manager went on as if the connection were gone, which the driver still has or
\* is making; it is over when that connection ends.
Outcomes == [config : BOOLEAN, connect : BOOLEAN, disconnect : BOOLEAN]

\* airdap_wifi_manager_start with the driver starting.
Started(stored) ==
  [started |-> TRUE, sm |-> "STOPPED", has |-> stored # None, link |-> FALSE, delay |-> 0,
   timer |-> FALSE, active |-> FALSE, progress |-> FALSE, pending |-> FALSE,
   suspended |-> FALSE, radio |-> TRUE, published |-> "STOPPED", stale |-> FALSE,
   driver |-> "starting", config |-> stored, ip |-> FALSE,
   reports |-> 0, overtaken |-> FALSE, kept |-> FALSE]

\* A start that failed at any of its calls, after cleanup_failed_start; app_main
\* goes on without Wi-Fi.
NotStarted(stored) ==
  [Started(stored) EXCEPT !.started = FALSE, !.radio = FALSE, !.driver = "off", !.config = None]

\* airdap_wifi_state_machine_init
MachineInit(m, has) == [m EXCEPT !.sm = "STOPPED", !.has = has, !.link = FALSE, !.delay = 0]

\* A state the machine enters is published to the mode word.
Enter(m, state) == [m EXCEPT !.sm = state, !.published = state]

NextDelay(delay) == IF delay = MaxDelay THEN MaxDelay ELSE delay + 1

\* handle_failure, and schedule_retry.
Failure(m) ==
  IF ~m.has
    THEN m
    ELSE [Enter(m, "DISCONNECTED") EXCEPT !.link = FALSE, !.delay = NextDelay(@), !.timer = TRUE]

-----------------------------------------------------------------------------
(* Driver calls *)

Linked == {"connecting", "connected", "rejoining"}

Disconnected(d) == IF d \in Linked THEN "leaving" ELSE d

\* esp_wifi_disconnect; one that fails leaves the driver as it was.
Disconnect(m, o) ==
  IF o.disconnect
    THEN [m EXCEPT !.driver = Disconnected(@)]
    ELSE [m EXCEPT !.kept = @ \/ m.driver \in Linked]

Connected(d) ==
  CASE d = "idle" -> "connecting" [] d = "leaving" -> "rejoining" [] OTHER -> d

\* esp_wifi_connect fails while the driver is off.
ConnectOk(m, o) == m.driver \notin {"off", "starting"} /\ o.connect

-----------------------------------------------------------------------------
(* Handlers *)

\* Variant: a connect that cannot be started is not counted as a failure.
ConnectNowQuietly(m, o) ==
  IF m.suspended \/ m.progress \/ m.active \/ ~ConnectOk(m, o)
    THEN m ELSE [m EXCEPT !.progress = TRUE, !.driver = Connected(@)]

ConnectNow(m, o) ==
  CASE m.suspended \/ m.progress \/ m.active -> m
    [] ~(m.suspended \/ m.progress \/ m.active) /\ ConnectOk(m, o) ->
         [m EXCEPT !.progress = TRUE, !.driver = Connected(@),
                   !.overtaken = @ \/ m.driver = "leaving" \/ m.reports > 0]
    [] OTHER -> Failure(m)

\* stale: the driver may hold an older configuration, which was reported.
ConfigureAndConnect(m, stored, o) ==
  CASE m.suspended -> m
    [] ~m.suspended /\ o.config /\ stored # None ->
         ConnectNow([m EXCEPT !.config = stored, !.stale = FALSE], o)
    [] OTHER -> Failure([m EXCEPT !.stale = TRUE])

\* The manager holds the station to have a connection or to be making one.
Busy(m) == m.active \/ m.progress

Forgotten(m) == [m EXCEPT !.active = FALSE, !.progress = FALSE]

\* Variant: the new configuration is not applied after the disconnection.
BeginReconfigurationForgets(m, stored, o) ==
  CASE m.suspended \/ m.pending -> m
    [] ~(m.suspended \/ m.pending) /\ Busy(m) /\ o.disconnect -> Disconnect(m, o)
    [] ~(m.suspended \/ m.pending) /\ Busy(m) /\ ~o.disconnect ->
         ConfigureAndConnect(Forgotten(Disconnect(m, o)), stored, o)
    [] OTHER -> ConfigureAndConnect(m, stored, o)

\* A station with a connection is disconnected first; the rest happens when the
\* driver reports it, or at once when the disconnect fails.
BeginReconfiguration(m, stored, o) ==
  CASE m.suspended \/ m.pending -> m
    [] ~(m.suspended \/ m.pending) /\ Busy(m) /\ o.disconnect ->
         [Disconnect(m, o) EXCEPT !.pending = TRUE]
    [] ~(m.suspended \/ m.pending) /\ Busy(m) /\ ~o.disconnect ->
         ConfigureAndConnect(Forgotten(Disconnect(m, o)), stored, o)
    [] OTHER -> ConfigureAndConnect(m, stored, o)

DisconnectStation(m, o) ==
  [Forgotten(IF Busy(m) THEN Disconnect(m, o) ELSE m) EXCEPT !.pending = FALSE]

\* CONFIGURATION_UPDATED and CONFIGURATION_CLEARED
ConfigurationUpdated(m, stored, o) ==
  BeginReconfiguration(
    [Enter(m, "CONNECTING") EXCEPT !.has = TRUE, !.delay = 0, !.link = FALSE, !.timer = FALSE],
    stored, o)

ConfigurationCleared(m, o) ==
  DisconnectStation(
    [Enter(m, "STOPPED") EXCEPT !.has = FALSE, !.delay = 0, !.link = FALSE, !.timer = FALSE], o)

\* handle_configuration_changed
ConfigurationChanged(m, stored, o) ==
  CASE ~m.radio -> MachineInit(m, stored # None)
    [] m.radio /\ stored # None -> ConfigurationUpdated(m, stored, o)
    [] OTHER -> ConfigurationCleared(m, o)

\* CONNECTING entered from a state in which nothing was under way.
StartConnecting(m, o) == ConnectNow([Enter(m, "CONNECTING") EXCEPT !.link = FALSE], o)

StationStarted(m, o) == IF m.has /\ m.sm = "STOPPED" THEN StartConnecting(m, o) ELSE m

RetryExpired(m, o) == IF m.has /\ m.sm = "DISCONNECTED" THEN StartConnecting(m, o) ELSE m

LinkConnected(m) ==
  LET n == [m EXCEPT !.progress = FALSE, !.active = TRUE] IN
  CASE m.suspended -> [n EXCEPT !.published = "CONNECTING"]
    [] ~m.suspended /\ ~m.pending /\ m.sm = "CONNECTING" -> [n EXCEPT !.link = TRUE]
    [] OTHER -> n

LinkDisconnected(m, stored, o) ==
  LET n == [m EXCEPT !.progress = FALSE, !.active = FALSE] IN
  CASE m.suspended -> [n EXCEPT !.published = "DISCONNECTED"]
    [] ~m.suspended /\ m.pending ->
         ConfigureAndConnect([n EXCEPT !.link = FALSE, !.pending = FALSE], stored, o)
    [] OTHER -> Failure([n EXCEPT !.link = FALSE])

Heard(m) == [m EXCEPT !.reports = @ - 1]

GotIp(m) ==
  CASE m.suspended -> [m EXCEPT !.published = "ONLINE"]
    [] ~m.suspended /\ m.sm = "CONNECTING" /\ m.link -> [Enter(m, "ONLINE") EXCEPT !.delay = 0]
    [] OTHER -> m

LostIp(m) ==
  CASE m.suspended -> [m EXCEPT !.published = "CONNECTING"]
    [] ~m.suspended /\ m.sm = "ONLINE" /\ m.link -> Enter(m, "CONNECTING")
    [] OTHER -> m

\* event_handler for the events of the driver, the timer and the store.
WifiHandles(m, event, stored, o) ==
  CASE event = "CHANGED" /\ ~m.suspended -> ConfigurationChanged(m, stored, o)
    [] event = "RETRY" /\ ~m.suspended /\ m.radio -> RetryExpired(m, o)
    [] event = "START" /\ ~m.suspended /\ m.radio -> StationStarted(m, o)
    [] event = "CONNECTED" /\ m.radio -> LinkConnected(m)
    [] event = "DISCONNECTED" /\ m.radio -> LinkDisconnected(Heard(m), stored, o)
    [] event = "DISCONNECTED" /\ ~m.radio -> Heard(m)
    [] event = "GOT_IP" /\ m.radio -> GotIp(m)
    [] event = "LOST_IP" /\ m.radio -> LostIp(m)
    [] OTHER -> m

\* airdap_wifi_manager_toggle; o.config and o.connect are the outcomes of
\* configuring and of starting or stopping the driver.
Toggle(m, stored, o) ==
  LET off == MachineInit([m EXCEPT !.radio = ~@, !.timer = FALSE, !.active = FALSE,
                            !.progress = FALSE, !.pending = FALSE, !.ip = FALSE, !.kept = FALSE,
                            !.published = "STOPPED"],
                         IF m.radio THEN m.has ELSE stored # None)
  IN
  CASE ~m.started \/ m.suspended \/ ~o.connect -> m
    [] m.started /\ ~m.suspended /\ o.connect /\ m.radio -> [off EXCEPT !.driver = "off"]
    [] m.started /\ ~m.suspended /\ o.connect /\ ~m.radio /\ stored # None /\ ~o.config -> m
    [] OTHER -> [off EXCEPT !.driver = "starting", !.stale = FALSE,
                            !.config = IF stored # None THEN stored ELSE @]

\* airdap_wifi_manager_prepare_provisioning
PrepareOk(m) == m.started /\ m.radio /\ ~m.suspended
Prepare(m) == [m EXCEPT !.timer = FALSE, !.pending = FALSE, !.suspended = TRUE]

\* airdap_wifi_manager_finish_provisioning
Finish(m, stored, o) ==
  LET unknown == ~Busy(m) /\ m.driver \in Linked
  IN ConfigurationChanged([m EXCEPT !.suspended = FALSE, !.overtaken = @ \/ unknown], stored, o)
=============================================================================
