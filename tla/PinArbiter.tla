----------------------------- MODULE PinArbiter -----------------------------
(***************************************************************************)
(* What the ownership arbiter promises, without saying how: the target     *)
(* pins are driven by one task at a time, and the debug port goes from one *)
(* owner to the next only through a phase in which a single task has the   *)
(* pins and nobody owns the port.  Grants are counted.                     *)
(***************************************************************************)
EXTENDS Naturals

CONSTANTS Tasks, Owners

VARIABLES
  drivers,   \* the tasks driving SWCLK, SWDIO and nRESET
  owner,     \* who owns the port, "NONE" if nobody
  grants     \* how many times the port was granted

vars == <<drivers, owner, grants>>

Init == drivers = {} /\ owner = "NONE" /\ grants = 0

\* A task takes the pins: to use them for the owner, or to take them away.
Enter(t) ==
  /\ drivers = {}
  /\ drivers' = {t}
  /\ owner' \in {owner, "NONE"}
  /\ UNCHANGED grants

\* The task gives the pins back and ownership is as it was.
Leave(t) ==
  /\ drivers = {t}
  /\ drivers' = {}
  /\ UNCHANGED <<owner, grants>>

\* The task gives the pins back to a new owner.
Grant(t, o) ==
  /\ drivers = {t}
  /\ owner = "NONE"
  /\ drivers' = {}
  /\ owner' = o
  /\ grants' = grants + 1

Next ==
  \E t \in Tasks : Enter(t) \/ Leave(t) \/ \E o \in Owners : Grant(t, o)

Spec == Init /\ [][Next]_vars
=============================================================================
