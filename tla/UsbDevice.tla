----------------------------- MODULE UsbDevice -----------------------------
(***************************************************************************)
(* The USB side of the firmware (usb_device/usb_device.c, dap_stream.c):   *)
(* two profiles, one with the DAP interface and one with the debug shell   *)
(* only, between which the device moves by leaving the bus and coming      *)
(* back; the DAP session of the cable; and the answers the DAP worker      *)
(* sends.  The debug shell is built in; the UART bridge, which the same    *)
(* callbacks tell of a detach, is in UartClients.                          *)
(*                                                                         *)
(* Callbacks run one at a time on the TinyUSB task, in the order of their  *)
(* events; dev.todo lists what is left of the one it is in.  A section     *)
(* under usb_io_mutex or under tx_state_lock is one step.                  *)
(***************************************************************************)
EXTENDS DebugShellTx, Sequences

CONSTANT MaxEvents   \* events waiting for the TinyUSB task

VARIABLES
  bus,      \* the cable, the pull-up, and whether the host has configured the device
  stack,    \* TinyUSB: the configured profile, the events, and the shell's buffers
  dev,      \* the variables of usb_device.c, and the USB part of the mode word
  answer,   \* the request the DAP worker has, and how far it is
  output,   \* debug_shell.c: session_active with its bit of the mode word, tx_state
  past      \* history: what the host took, and where every write landed

deviceVars == <<bus, stack, dev, answer, output, past>>

NoAnswer == [session |-> 0, at |-> "none"]

\* airdap_usb_init, the cable in or out.
DeviceInit ==
  /\ bus \in [cable : BOOLEAN, pulled : {TRUE}, seen : {FALSE}]
  /\ stack = [config |-> "none", events |-> <<>>, fifo |-> <<>>, typed |-> <<>>]
  /\ dev \in {[todo |-> <<>>, ready |-> FALSE, network |-> ~route, desired |-> FALSE,
               reconnect |-> FALSE, deadline |-> FALSE, polled |-> FALSE, session |-> 0,
               sessions |-> 0, partial |-> FALSE, present |-> FALSE, usbRoute |-> route] :
                route \in BOOLEAN}
  /\ answer = NoAnswer
  /\ output = [active |-> FALSE, tx |-> TxInit]
  /\ past = [attempt |-> 0, took |-> 0, early |-> FALSE, landed |-> {}]

\* airdap_usb_data_ready
UsbDataReady == dev.ready /\ ~dev.network /\ dev.usbRoute

\* The interface that is vendor instance i of the configured profile.
Interface(i) ==
  CASE stack.config = "wired" -> IF i = 0 THEN "dap" ELSE "shell"
    [] stack.config = "network" /\ i = 0 -> "shell"
    [] OTHER -> "none"

DebugInstance == IF dev.network THEN 0 ELSE 1

\* airdap_usb_debug_mounted
DebugMounted == dev.ready /\ Interface(DebugInstance) # "none"

Landed(writer, i) == [past EXCEPT !.landed = @ \cup {<<writer, Interface(i)>>}]

-----------------------------------------------------------------------------
(* The bus.  A soft disconnect, or a cable pulled during one, may or may   *)
(* not be reported to the stack.                                           *)

Event(what) == [what |-> what, units |-> <<>>]

Queued(s, event) == [s EXCEPT !.events = Append(@, event)]

Post(event) == Len(stack.events) < MaxEvents /\ stack' = Queued(stack, event)

PlugIn ==
  /\ ~bus.cable
  /\ bus' = [bus EXCEPT !.cable = TRUE]
  /\ UNCHANGED <<stack, dev, answer, output, past>>

HostConfigures ==
  /\ bus.cable /\ bus.pulled /\ ~bus.seen
  /\ bus' = [bus EXCEPT !.seen = TRUE]
  /\ Post(Event("mount"))
  /\ UNCHANGED <<dev, answer, output, past>>

Unplug ==
  /\ bus.cable
  /\ bus' = [bus EXCEPT !.cable = FALSE, !.seen = FALSE]
  /\ \/ Post(Event("umount"))
     \/ ~bus.seen /\ UNCHANGED stack
  /\ UNCHANGED <<dev, answer, output, past>>

\* A packet for the DAP interface: "whole" requests, a "part" of one, or "junk".
HostSends(packet) ==
  /\ bus.seen /\ stack.config = "wired"
  /\ Post(Event(packet))
  /\ UNCHANGED <<bus, dev, answer, output, past>>

HostTypes(key) ==
  /\ bus.seen /\ stack.config # "none" /\ stack.typed = <<>>
  /\ stack' = [stack EXCEPT !.typed = <<key>>]
  /\ UNCHANGED <<bus, dev, answer, output, past>>

\* One transfer of shell output is on the bus at a time.
HostTakes(n) ==
  LET units == SubSeq(stack.fifo, 1, n) IN
  /\ bus.seen /\ n \in 1 .. Len(stack.fifo) /\ Len(stack.events) < MaxEvents
  /\ \A i \in DOMAIN stack.events : stack.events[i].what # "sent"
  /\ stack' = [Queued(stack, [what |-> "sent", units |-> units]) EXCEPT
                 !.fifo = SubSeq(@, n + 1, Len(@))]
  /\ past' = [past EXCEPT !.took = @ + Len(SelectSeq(units, LAMBDA u : u.ack = past.attempt))]
  /\ UNCHANGED <<bus, dev, answer, output>>

\* A route selection of another task (mode_state.c).
UsbRouteChanges ==
  /\ dev' = [dev EXCEPT !.usbRoute = ~@]
  /\ UNCHANGED <<bus, stack, answer, output, past>>

\* usb_mode_worker
ModeWorker ==
  /\ ~dev.polled
  /\ dev' = [dev EXCEPT !.polled = TRUE]
  /\ Post(Event("poll"))
  /\ UNCHANGED <<bus, answer, output, past>>

-----------------------------------------------------------------------------
(* The TinyUSB task *)

Takes(what) ==
  /\ dev.todo = <<>>
  /\ stack.events # <<>>
  /\ Head(stack.events).what = what

Taken == [stack EXCEPT !.events = Tail(@)]

\* A new configuration, or the end of one, empties the buffers.
Configured(config) == [Taken EXCEPT !.config = config, !.fifo = <<>>, !.typed = <<>>]

Does(step) ==
  /\ dev.todo # <<>>
  /\ Head(dev.todo) = step

Then(steps) == [dev EXCEPT !.todo = steps \o Tail(@)]

\* Variant: a configuration of the profile that is being left counts.
AttachedAlways(d) == [d EXCEPT !.ready = TRUE, !.deadline = FALSE, !.todo = <<"attach", "open">>]

\* TINYUSB_EVENT_ATTACHED
Attached(d) ==
  IF d.reconnect
    THEN d
    ELSE [d EXCEPT !.ready = TRUE, !.deadline = FALSE, !.todo = <<"attach", "open">>]

Mount ==
  /\ Takes("mount")
  /\ stack' = Configured(IF dev.network THEN "network" ELSE "wired")
  /\ dev' = Attached(dev)
  /\ UNCHANGED <<bus, answer, output, past>>

PublishAttach ==
  /\ Does("attach")
  /\ dev' = [Then(<<>>) EXCEPT !.present = TRUE]
  /\ UNCHANGED <<bus, stack, answer, output, past>>

\* open_usb_session; the service may refuse.
OpenUsbSession ==
  /\ Does("open")
  /\ \/ /\ UsbDataReady /\ dev.session = 0
        /\ dev' = [Then(<<>>) EXCEPT !.session = dev.sessions + 1, !.sessions = @ + 1]
     \/ dev' = Then(<<>>)
  /\ UNCHANGED <<bus, stack, answer, output, past>>

\* TINYUSB_EVENT_DETACHED
Umount ==
  /\ Takes("umount")
  /\ stack' = Configured("none")
  /\ dev' = [dev EXCEPT !.ready = FALSE, !.partial = FALSE,
                        !.todo = <<"close", "detach", "shell">>]
  /\ UNCHANGED <<bus, answer, output, past>>

\* close_usb_session: airdap_dap_service_session_close waits for the session's
\* mutex, which the worker holds while it sends.
CloseUsbSession ==
  /\ Does("close")
  /\ dev.session = 0 \/ answer.at \notin {"held", "send"}
  /\ dev' = [Then(<<>>) EXCEPT !.session = 0]
  /\ UNCHANGED <<bus, stack, answer, output, past>>

PublishDetach ==
  /\ Does("detach")
  /\ dev' = [Then(<<>>) EXCEPT !.present = dev.reconnect /\ @]
  /\ UNCHANGED <<bus, stack, answer, output, past>>

\* airdap_debug_shell_disconnected
ShellEnds == output' = [active |-> FALSE, tx |-> TxDisconnected(output.tx)]

EndShell ==
  /\ Does("shell")
  /\ ShellEnds
  /\ dev' = Then(<<>>)
  /\ UNCHANGED <<bus, stack, answer, past>>

\* restart_usb_session; only this task changes what is mounted.
Restart == IF stack.config # "none" THEN <<"close", "open">> ELSE <<"close">>

\* tud_vendor_rx_cb.  A partial request may have become too old.
Receive(packet) ==
  /\ Takes(packet)
  /\ stack' = Taken
  /\ \/ ~UsbDataReady /\ UNCHANGED dev
     \/ UsbDataReady /\ dev' = [dev EXCEPT !.todo = <<packet>>]
     \/ /\ UsbDataReady /\ dev.partial
        /\ dev' = [dev EXCEPT !.partial = FALSE, !.todo = Restart \o <<packet>>]
  /\ UNCHANGED <<bus, answer, output, past>>

\* airdap_dap_stream_feed: requests to enqueue and nothing left over, the
\* beginning of one, or a stream that has to be thrown away.
Feed(packet) ==
  /\ Does(packet)
  /\ dev' = CASE packet = "part" -> [Then(<<>>) EXCEPT !.partial = TRUE]
              [] packet = "junk" -> [Then(Restart) EXCEPT !.partial = FALSE]
              [] packet = "whole" ->
                   [Then(IF dev.session = 0 /\ stack.config # "none"
                           THEN <<"attach", "open", "submit">> ELSE <<"submit">>)
                      EXCEPT !.partial = FALSE]
  /\ UNCHANGED <<bus, stack, answer, output, past>>

\* The end of enqueue_dap_request.  The service has room for one request here.
SubmitRequest ==
  /\ Does("submit")
  /\ dev' = Then(<<>>)
  /\ answer' = IF dev.session # 0 /\ answer = NoAnswer
                 THEN [session |-> dev.session, at |-> "queued"] ELSE answer
  /\ UNCHANGED <<bus, stack, output, past>>

\* tud_vendor_tx_cb of the shell's interface: completion counts for the
\* connection of now, also of units an earlier one left in the buffer.
Sent ==
  LET units == Head(stack.events).units
      counts == dev.ready /\ Interface(DebugInstance) = "shell"
      tx == output.tx
  IN
  /\ Takes("sent")
  /\ stack' = Taken
  /\ output' = IF counts THEN [output EXCEPT !.tx = Completed(tx, Len(units))] ELSE output
  /\ past' = [past EXCEPT !.early = @ \/ /\ counts /\ tx.connected /\ Outstanding(tx) > 0
                                         /\ \E i \in DOMAIN units : units[i].of # tx.generation]
  /\ UNCHANGED <<bus, dev, answer>>

-----------------------------------------------------------------------------
(* airdap_usb_reconcile_mode, on the TinyUSB task too *)

Poll ==
  /\ Takes("poll")
  /\ stack' = Taken
  /\ dev' = [dev EXCEPT !.todo = <<"poll", "done">>, !.desired = ~dev.usbRoute]
  /\ UNCHANGED <<bus, answer, output, past>>

\* Leaves the bus; the stack may hear of that.
LeaveBus ==
  /\ Does("poll")
  /\ ~dev.reconnect /\ dev.desired # dev.network
  /\ dev' = [Then(<<"close", "clear", "shell", "watch">>) EXCEPT !.ready = FALSE, !.reconnect = TRUE]
  /\ bus' = [bus EXCEPT !.pulled = FALSE, !.seen = FALSE]
  /\ \/ UNCHANGED stack
     \/ bus.seen /\ Post(Event("umount"))
  /\ UNCHANGED <<answer, output, past>>

ClearStream ==
  /\ Does("clear")
  /\ dev' = [Then(<<>>) EXCEPT !.partial = FALSE]
  /\ UNCHANGED <<bus, stack, answer, output, past>>

\* Variant: nothing watches over the enumeration.
SwitchedUnwatched(d) == [d EXCEPT !.network = d.desired, !.reconnect = FALSE]

Switched(d) == [d EXCEPT !.network = d.desired, !.reconnect = FALSE, !.deadline = TRUE]

\* Back on the bus when the time has come, with the profile desired now.
JoinBus ==
  /\ Does("poll")
  /\ dev.reconnect
  /\ dev' = Switched(Then(<<>>))
  /\ bus' = [bus EXCEPT !.pulled = TRUE]
  /\ UNCHANGED <<stack, answer, output, past>>

\* Nothing to change or too early for it; or the shell has usb_io_mutex.
PollOn ==
  /\ Does("poll")
  /\ \/ /\ dev.reconnect \/ dev.desired = dev.network
        /\ dev' = Then(<<"watch">>)
     \/ /\ dev.reconnect \/ dev.desired # dev.network
        /\ dev' = Then(<<>>)
  /\ UNCHANGED <<bus, stack, answer, output, past>>

\* The host has not configured the device in time, or still may.
Watch ==
  /\ Does("watch")
  /\ \/ /\ dev.deadline /\ ~dev.ready
        /\ dev' = [Then(<<>>) EXCEPT !.present = FALSE, !.deadline = FALSE]
     \/ dev' = Then(<<>>)
  /\ UNCHANGED <<bus, stack, answer, output, past>>

PollDone ==
  /\ Does("done")
  /\ dev' = [Then(<<>>) EXCEPT !.polled = FALSE]
  /\ UNCHANGED <<bus, stack, answer, output, past>>

-----------------------------------------------------------------------------
(* The worker of the DAP service with a request of the cable *)

\* The answer to a request is sent under its session's mutex, or dropped.
Execute ==
  /\ answer.at = "queued"
  /\ \/ answer.session = dev.session /\ answer' = [answer EXCEPT !.at = "held"]
     \/ answer' = NoAnswer
  /\ UNCHANGED <<bus, stack, dev, output, past>>

\* send_usb_response: the tests, then the write.
SendTests ==
  /\ answer.at = "held"
  /\ answer' = IF UsbDataReady /\ answer.session = dev.session /\ stack.config # "none"
                 THEN [answer EXCEPT !.at = "send"] ELSE NoAnswer
  /\ UNCHANGED <<bus, stack, dev, output, past>>

SendWrites ==
  /\ answer.at = "send"
  /\ past' = Landed("dap", 0)
  /\ answer' = NoAnswer
  /\ UNCHANGED <<bus, stack, dev, output>>

-----------------------------------------------------------------------------
(* Properties *)

\* Responses only ever reach the DAP interface and shell output only the shell's,
\* although an instance number means another interface in the other profile and
\* writers test before they write ("to prevent a stale instance from sending shell
\* bytes to the DAP endpoints after a switch back to USB", usb_device.c).
BytesOnTheirEndpoint ==
  \A write \in past.landed : write[2] \in {write[1], "none"}

\* Between callbacks the mode word knows the cable: it shows USB present while the
\* device is configured, it shows a device that is not configured as present only
\* while a reconnection or the enumeration timeout is going to settle that, and a
\* configured device is ready to be used (usb_event_callback,
\* airdap_usb_reconcile_mode).
AttachmentIsTracked ==
  dev.todo = <<>> =>
    /\ dev.ready => dev.present
    /\ dev.present /\ ~dev.ready => dev.reconnect \/ dev.deadline
    /\ bus.seen => dev.ready \/ \E i \in DOMAIN stack.events : stack.events[i].what = "mount"
=============================================================================
