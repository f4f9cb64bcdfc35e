---------------------------- MODULE MCModeState ----------------------------
(***************************************************************************)
(* TLC instance of ModeState: one task per role.  A behaviour has one crew *)
(* of tasks that run, chosen at the start; the others stay idle.           *)
(***************************************************************************)
EXTENDS ModeState

CONSTANTS usb, wifi, shell, host, net, ctl, btn, diag

\* Boot, and the words reached from it once Wi-Fi is up, with the cable
\* attached or not.
Online(route) ==
  NextControl(NextControl(BootWord(route), "WIFI_CONNECTING"), "WIFI_ONLINE")

Started == {Online("AUTO"), NextControl(Online("AUTO"), "USB_ATTACHED")}

\* usb_device.c reports attach and detach, wifi_manager.c the link, the debug
\* shell its sessions.
Reports == [t \in Tasks |->
  CASE t = usb -> {"USB_ATTACHED", "USB_DETACHED"}
    [] t = wifi -> {"WIFI_DISCONNECTED", "WIFI_CONNECTING", "WIFI_ONLINE"}
    [] t = shell -> {"DEBUG_SHELL_STARTED", "DEBUG_SHELL_ENDED"}
    [] OTHER -> {}]

\* The USB and network DAP contexts and the debug shell's SWD probe.
Owns == [t \in Tasks |->
  CASE t = host -> "USB"
    [] t = net -> "NETWORK"
    [] t = diag -> "DIAGNOSTIC"
    [] OTHER -> "NONE"]

\* The button commands.
Asks == [t \in Tasks |->
  IF t = btn THEN {"NETWORK", "NETWORK_AUTO_TOGGLE"} ELSE {}]

CONSTANT Crews
VARIABLE crew

CrewInit == ModeInit /\ crew \in Crews

CrewNext ==
  \/ Restart /\ UNCHANGED crew
  \/ \E t \in crew : ModeTask(t) /\ UNCHANGED crew

CrewSpec == CrewInit /\ [][CrewNext]_<<allVars, crew>>
=============================================================================
