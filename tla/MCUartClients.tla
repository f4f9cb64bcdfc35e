--------------------------- MODULE MCUartClients ---------------------------
(***************************************************************************)
(* TLC instances of UartClients.  A behaviour has one crew of activities   *)
(* that run, chosen at the start; the others stay idle.                    *)
(***************************************************************************)
EXTENDS UartClients

CONSTANTS host, line, route, Crews
VARIABLE crew

AllTasks == {usb, poll, net, kick, ota}

\* Two supported settings and one that configure_driver refuses.
TwoSettings ==
  {[baud |-> 1, bits |-> 1], [baud |-> 2, bits |-> 2], [baud |-> 0, bits |-> 1]}

Usual == [baud |-> 1, bits |-> 1]

CrewInit == ClientInit /\ crew \in Crews

CrewNext ==
  /\ \/ usb \in crew /\ (UsbCallbackStep \/ UsbEvent)
     \/ host \in crew /\ UsbTraffic
     \/ poll \in crew /\ PollStep
     \/ net \in crew /\ NetStep
     \/ kick \in crew /\ KickStep
     \/ ota \in crew /\ OtaStep
     \/ route \in crew /\ RouteChange
     \/ TxDrain /\ UNCHANGED clientVars
     \/ line \in crew /\ PortStep
  /\ UNCHANGED crew

CrewSpec ==
  /\ CrewInit
  /\ [][CrewNext]_<<allVars, crew>>
  /\ BridgeFairness
=============================================================================
