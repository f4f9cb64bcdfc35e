---------------------------- MODULE MCDapBackend ----------------------------
(***************************************************************************)
(* TLC instances of DapBackend: both transports, and the tasks that move   *)
(* the policy under them.  A behaviour has one crew of tasks that run,     *)
(* chosen at the start; the others stay idle.                              *)
(***************************************************************************)
EXTENDS DapBackend

CONSTANTS usb, wifi, host, net, ctl, btn

Online(route) ==
  NextControl(NextControl(BootWord(route), "WIFI_CONNECTING"), "WIFI_ONLINE")

\* Wi-Fi is up, and the cable may be attached.
Started == {Online("AUTO"), NextControl(Online("AUTO"), "USB_ATTACHED")}

Reports == [t \in Tasks |->
  CASE t = usb -> {"USB_ATTACHED", "USB_DETACHED"}
    [] t = wifi -> {"WIFI_DISCONNECTED", "WIFI_CONNECTING", "WIFI_ONLINE"}
    [] OTHER -> {}]

Owns == [t \in Tasks |->
  CASE t = host -> "USB" [] t = net -> "NETWORK" [] OTHER -> "NONE"]

Asks == [t \in Tasks |-> IF t = btn THEN {"NETWORK_AUTO_TOGGLE"} ELSE {}]

CONSTANT Crews
VARIABLE crew

CrewInit == BackendInit /\ crew \in Crews

CrewNext == \E t \in crew : BackendTask(t) /\ UNCHANGED crew

CrewSpec == CrewInit /\ [][CrewNext]_<<backendAllVars, crew>>
=============================================================================
