---------------------------- MODULE MCNetworkDap ----------------------------
(***************************************************************************)
(* TLC instances of NetworkDap.  A behaviour has one crew: the ports that  *)
(* are dialled, the frames the clients send after HELLO and AUTH, and the  *)
(* events that may interfere.                                              *)
(***************************************************************************)
EXTENDS NetworkDap

CONSTANTS
  Crews,
  FirstPSK,
  MaxDials      \* bound on the sockets that dial in

VARIABLES crew, dials

allVars == <<netVars, crew, dials>>

CrewInit ==
  /\ NetInit
  /\ crew \in Crews
  /\ dials = 0
  /\ cred.psk = FirstPSK
  /\ "route" \notin crew => enabled

Auth(step) == step /\ UNCHANGED <<conn, registryVars, serviceVars>>

Interferes ==
  \/ "idle" \in crew /\ (Auth(OwnerIdles) \/ Auth(ExpiryTimer))
  \/ "pairing" \in crew /\ (\E psk \in PSKs : Auth(Pair(psk, TRUE)) \/ Auth(ClearNetwork))
  \/ /\ "window" \in crew
     /\ \/ \E psk \in PSKs : Auth(Pair(psk, FALSE))
        \/ \E active \in BOOLEAN : Auth(SetPairingWindow(active))
  \/ "peer" \in crew /\ \E c \in Slots : PeerCloses(c)
  \/ "route" \in crew /\ ChangeRoute

Dial ==
  /\ dials < MaxDials
  /\ dials' = dials + 1
  /\ \E s \in Services \cap crew : Accept(s)

CrewNext ==
  /\ \/ Dial
     \/ /\ \/ Listener
           \/ Worker
           \/ \E c \in Slots :
                \/ ConnectionRuns(c) \/ ReadHello(c) \/ ReadAuth(c)
                \/ \E f \in Frames \cap crew : ReadRequest(c, f)
           \/ \E a \in AuthTasks : InvokeRevoke(a)
           \/ Interferes
        /\ UNCHANGED dials
  /\ UNCHANGED crew

CrewSpec == CrewInit /\ [][CrewNext]_allVars
=============================================================================
