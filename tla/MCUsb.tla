------------------------------- MODULE MCUsb -------------------------------
(* USB over the network and over the cable.  The crews of UsbIp: what the    *)
(* peer may submit, and how much, in each.  The crews of DebugShell: how     *)
(* often the host and the user may do what.                                  *)
EXTENDS UsbIp, DebugShell

CONSTANTS Crews, CableCrews, MaxInput

VARIABLES
  crew,
  left      \* what the host and the user of a cable crew may still do

MCQueueDepth == [control |-> 1, dap |-> 1, write |-> 1]

\* The bounds the code sets, in units.
ASSUME BoundAssumption == {ResponseDepth, PendingLimit} \subseteq Nat \ {0}

In(ep, size) == [ep |-> ep, in |-> TRUE, size |-> size, op |-> "data"]
Out(ep, size) == [ep |-> ep, in |-> FALSE, size |-> size, op |-> "data"]
Setup(op) == [ep |-> 0, in |-> FALSE, size |-> 0, op |-> op]

\* What the peer may submit as its first, second, ... URB.
Repertoire ==
  LET Dap == {Out(1, 1), In(1, 1), In(1, 2)}
      Serial == {Out(3, 2), In(3, 1), In(3, 2)}
      Line == {Setup("drop-dtr"), Setup("coding"), Out(3, 1), In(2, 1)}
      Chapter9 == {Setup("configure"), Setup("deconfigure"), Setup("unsupported"),
                   Out(1, 0), Out(2, 1), In(2, 0), Out(3, 0)}
  IN [dap |-> <<Dap, Dap, Dap, Dap>>,
      serial |-> <<{Setup("dtr")}, Serial, Serial>>,
      line |-> <<{Setup("dtr")}, Line, Line>>,
      setup |-> <<Chapter9, Chapter9 \cup {Setup("dtr")}, {Out(3, 0), Setup("deconfigure")}>>,
      both |-> <<{Out(1, 1)}, {In(3, 1)}, {In(1, 2)}>>]

\* Crews in which the heartbeat runs.
Beating == {"both"}

SubmitOne ==
  LET n == Len(submitted) + 1 IN
  /\ n <= Len(Repertoire[crew])
  /\ \E t \in Repertoire[crew][n] :
       Submit([seq |-> n, ep |-> t.ep, in |-> t.in, size |-> t.size, op |-> t.op])

\* A URB is unlinked once.
UnlinkOne ==
  \E u \in ToSet(submitted) :
    /\ \A i \in DOMAIN state.log : ~(state.log[i].kind = "UNLINK" /\ state.log[i].urb = u)
    /\ Unlink(u)

-----------------------------------------------------------------------------

Budget ==
  [cable |-> [unplug |-> 1, route |-> 2, send |-> 0, start |-> 1, line |-> 0, restart |-> 0, end |-> 0],
   data |-> [unplug |-> 1, route |-> 1, send |-> 2, start |-> 0, line |-> 1, restart |-> 0, end |-> 0],
   keys |-> [unplug |-> 0, route |-> 0, send |-> 0, start |-> 2, line |-> 0, restart |-> 1, end |-> 0],
   stop |-> [unplug |-> 1, route |-> 0, send |-> 0, start |-> 1, line |-> 0, restart |-> 1, end |-> 1]]

Spend(kind) == left[kind] > 0 /\ left' = [left EXCEPT ![kind] = @ - 1]

HostNext ==
  \/ (PlugIn \/ HostConfigures) /\ UNCHANGED left
  \/ Unplug /\ Spend("unplug")
  \/ UsbRouteChanges /\ Spend("route")
  \/ \E packet \in {"whole", "part", "junk"} : HostSends(packet) /\ Spend("send")
  \/ \E key \in {"start", "line", "restart", "end"} : HostTypes(key) /\ Spend(key)
  \/ \E n \in 1 .. FifoSize : HostTakes(n) /\ UNCHANGED left

TinyUsbNext ==
  \/ Mount \/ PublishAttach \/ OpenUsbSession
  \/ Umount \/ CloseUsbSession \/ PublishDetach \/ EndShell
  \/ \E packet \in {"whole", "part", "junk"} : Receive(packet) \/ Feed(packet)
  \/ SubmitRequest \/ Sent
  \/ Poll \/ LeaveBus \/ ClearStream \/ JoinBus \/ PollOn \/ Watch \/ PollDone

ShellNext ==
  \/ ShellUnmounted \/ ShellReads \/ StartSession
  \/ EnterWrite \/ ReserveUnits \/ WriteUnits \/ CommitUnits
  \/ AwaitTicket \/ LookAgain \/ RestartDevice

\* A device that restarts is out of the model.  In "keys" and "stop" the route
\* stays and the mode worker has nothing to do.
CableNext ==
  /\ crew \in CableCrews
  /\ shell.at # "restarted"
  /\ \/ HostNext /\ UNCHANGED shell
     \/ crew \notin {"keys", "stop"} /\ ModeWorker /\ UNCHANGED <<shell, left>>
     \/ (TinyUsbNext \/ Execute \/ SendTests \/ SendWrites) /\ UNCHANGED <<shell, left>>
     \/ ShellNext /\ UNCHANGED left
  /\ UNCHANGED <<crew, usbVars>>

-----------------------------------------------------------------------------

CrewInit ==
  /\ UsbInit
  /\ ShellInit
  /\ \/ crew \in Crews /\ left = Budget.cable /\ bus.cable /\ dev.usbRoute
     \/ crew \in CableCrews /\ left = Budget[crew]

ExportNext ==
  /\ crew \in Crews
  /\ \/ SubmitOne
     \/ UnlinkOne
     \/ \E w \in Workers : Take(w)
     \/ ControlAsks \/ ControlAcquired \/ ControlAnswers
     \/ DapChecks \/ DapWakes \/ DapAsks \/ DapAnswers
     \/ WriteAsks \/ WriteGoesOn \/ WriteMore
     \/ ReaderAsks \/ ReaderGets \/ ReaderDelivers
     \/ crew \in Beating /\ \E c \in Clients : Heartbeat(c)
     \/ ServeDap
     \/ \E n \in 0 .. 2 : produced + n <= MaxInput /\ ServeUart(n)
     \/ SessionBreaks
  /\ UNCHANGED <<crew, left, shellVars>>

CrewNext == ExportNext \/ CableNext

CrewSpec == CrewInit /\ [][CrewNext]_<<usbVars, shellVars, crew, left>>
=============================================================================
