---------------------------- MODULE MCOtaManager ----------------------------
(***************************************************************************)
(* TLC instances of OtaManager: the updating clients and the tasks that    *)
(* compete with them for the port.  A behaviour has one crew of tasks that *)
(* run, chosen at the start; the others stay idle.                         *)
(***************************************************************************)
EXTENDS OtaManager

CONSTANTS cable, peer, later, net, btn

Online(route) ==
  NextControl(NextControl(BootWord(route), "WIFI_CONNECTING"), "WIFI_ONLINE")

Started == {Online("AUTO")}

\* The mode events of these runs are the manager's own.
Silent == [t \in Tasks |-> {}]

Owns == [t \in Tasks |-> IF t = net THEN "NETWORK" ELSE "NONE"]

Asks == [t \in Tasks |-> IF t = btn THEN {"NETWORK_AUTO_TOGGLE"} ELSE {}]

CONSTANT Crews
VARIABLE crew

CrewInit == OtaInit /\ crew \in Crews

CrewNext ==
  \/ OtaRestart /\ UNCHANGED crew
  \/ \E t \in crew : OtaTask(t) /\ UNCHANGED crew

CrewSpec == CrewInit /\ [][CrewNext]_<<otaAllVars, crew>>

CrewFairSpec == CrewSpec /\ OtaFairness
=============================================================================
