--------------------------- MODULE MCProvisioning ---------------------------
(***************************************************************************)
(* Instances of BleProvisioning and of ProvisioningButton for TLC.  A crew *)
(* names the actors that take part and the inputs each may spend; in the   *)
(* crew "button" the key runs alone.                                       *)
(***************************************************************************)
EXTENDS BleProvisioning, ProvisioningButton, TLC

CONSTANTS
  home, lab, phone, desk,
  Crews,            \* the crews that run
  Budget            \* inputs per crew

VARIABLES crew, left

mcVars == <<provVars, buttonVars, crew, left>>

\* The default bindings, and one that puts a restart on a click.
Shipped == [g \in Gestures |-> IF g = "HOLD10" THEN "CLEAR_NETWORK_RESTART" ELSE "OTHER"]
MCBindings == {Shipped, [g \in Gestures |-> IF g = "SINGLE" THEN "RESTART" ELSE "OTHER"]}

CrewInit ==
  /\ ProvInit
  /\ ButtonInit
  /\ crew \in Crews
  /\ crew = "button" => ram = DefaultRecord /\ m.started
  /\ crew # "button" => bindings = Shipped
  /\ left = Budget[crew]

\* One input of this kind is spent.
Spend(kind) ==
  /\ kind \in DOMAIN left
  /\ left[kind] > 0
  /\ left' = [left EXCEPT ![kind] = @ - 1]

Inputs ==
  \/ Spend("set") /\ \E wifi \in Credentials, ok \in BOOLEAN : ShellStores(wifi, ok)
  \/ Spend("clear") /\ \E ok \in BOOLEAN : ShellStores(None, ok)
  \/ Spend("key") /\ Key("PROVISIONING")
  \/ Spend("reset") /\ Key("CLEAR")
  \/ Spend("radio") /\ Key("WIFI")
  \/ Spend("client") /\ \E owner \in Owners, command \in {"claim", "keepalive", "reset", "cancel"} :
                          SessionEndpoint(owner, command)
  \/ Spend("pair") /\ \E blob \in Blobs, ok \in BOOLEAN : PairingEndpoint(blob, ok)
  \/ Spend("submit") /\ \E wifi \in Credentials : ClientSubmits(wifi)
  \/ Spend("crash") /\ Restart
  \/ Spend("link") /\ (DriverDisconnects \/ DriverLosesIp)
  \/ Spend("expire") /\ (RetryExpires \/ WindowExpires)

Loop ==
  \/ KeyRefused \/ HandleWifiEvent \/ HandleProvisioningKey \/ HandleClearKey
  \/ HandleWifiKey \/ HandleSession \/ HandleTimeout \/ HandleReceived \/ HandleFailed
  \/ HandleSuccess \/ HandleEnd

Others ==
  \/ ShellChecks \/ ShellNotifies
  \/ RetryCallback \/ WindowCallback
  \/ UpstreamVerifies \/ UpstreamEnds
  \/ DriverStarts \/ DriverConnects \/ DriverGetsIp
  \/ m.driver \in {"leaving", "rejoining"} /\ DriverDisconnects
  \/ RestartAfterClear

KeyNext ==
  \/ \E reading \in {"PRESSED", "RELEASED", "ERROR"} : Poll(reading)
  \/ \E gesture \in Gestures : Simulate(gesture)
  \/ \E new \in Bindings : Rebind(new)

CrewNext ==
  \/ crew # "button" /\ Inputs /\ UNCHANGED <<crew, buttonVars>>
  \/ crew # "button" /\ (Loop \/ Others) /\ UNCHANGED <<crew, left, buttonVars>>
  \/ crew = "button" /\ KeyNext /\ UNCHANGED <<crew, left, provVars>>

CrewSpec == CrewInit /\ [][CrewNext]_mcVars

\* Credentials are alike, and so are clients.
Symmetry == Permutations(Credentials) \cup Permutations(Owners)

MCBudget ==
  [station |-> [set |-> 2, clear |-> 1, link |-> 1, expire |-> 1],
   radio   |-> [radio |-> 3, set |-> 1, link |-> 1, expire |-> 1],
   window  |-> [key |-> 1, client |-> 3, submit |-> 2, expire |-> 1],
   again   |-> [key |-> 2, client |-> 2, expire |-> 1],
   failing |-> [key |-> 2, reset |-> 1, expire |-> 1],
   racing  |-> [key |-> 1, submit |-> 1, set |-> 1, expire |-> 1],
   erase   |-> [key |-> 1, reset |-> 1, submit |-> 1, pair |-> 1, crash |-> 1],
   store   |-> [set |-> 2, clear |-> 1, reset |-> 1, crash |-> 1],
   button  |-> [key |-> 0]]
=============================================================================
