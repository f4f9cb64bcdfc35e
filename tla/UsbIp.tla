------------------------------- MODULE UsbIp -------------------------------
(***************************************************************************)
(* The host's USB/IP export of the network probe (host/src/usbip.rs) and   *)
(* the two clients it talks to the device with (host/src/network.rs).      *)
(*                                                                         *)
(* state is the State struct, changed in one step under its mutex.  The    *)
(* tasks are the receiver, the workers of endpoints 0, 1 and 3, the serial *)
(* reader, the heartbeat and the packet writer.  A task that fails ends    *)
(* the session, and every task with it: running becomes FALSE and nothing  *)
(* moves any more.  A transfer carries units: <<seq, k>> is unit k of what *)
(* URB seq writes, or of the response to it.                               *)
(***************************************************************************)
EXTENDS AirdapFrame, SequencesExt, FiniteSets

CONSTANTS
  QueueDepth,       \* [worker -> depth of its queue]
  ResponseDepth,    \* responses kept for endpoint 1 before its worker waits
  PendingLimit,     \* URBs pending at once
  ResponseSize,     \* units of a DAP response
  MaxRequest,       \* longest DAP request
  NoticeSize        \* units of the serial-state notification

VARIABLES
  state,            \* the State struct, and the packets sent so far
  active,           \* sequence numbers of URBs a worker has taken on
  queue,            \* the workers' queues
  label,            \* where each task is
  hand,             \* the URB each task is working on
  offset,           \* units of a serial write the device has accepted
  buffered,         \* units uart_reader holds
  client,           \* the two clients: who has the lock, the sequence, the wire
  device,           \* the device's sequence validator for each
  running,          \* no task has ended
  submitted,        \* URBs the peer has submitted
  executed,         \* DAP requests the device has executed
  written,          \* units the device has written to the serial port
  produced          \* units the device has read from it

ghosts == <<executed, written, produced>>
history == <<submitted, ghosts>>
usbVars == <<state, active, queue, label, hand, offset, buffered, client, device,
             running, history>>

Workers == {"control", "dap", "write"}
Tasks == Workers \cup {"reader", "beat"}
Clients == {"dap", "uart"}

NoUrb == [seq |-> 0, ep |-> 0, in |-> FALSE, size |-> 0, op |-> "none"]
Idle == [holder |-> "none", sequence |-> 2, wire |-> "none"]

\* The session after Backend::connect: HELLO and AUTH were the first requests.
UsbInit ==
  /\ state = [pending |-> <<>>, responses |-> <<>>, notification |-> 0,
              dtr |-> FALSE, configured |-> FALSE, space |-> FALSE,
              log |-> <<>>, failed |-> FALSE]
  /\ active = {}
  /\ queue = [w \in Workers |-> <<>>]
  /\ label = [t \in Tasks |-> "idle"]
  /\ hand = [t \in Tasks |-> NoUrb]
  /\ offset = 0
  /\ buffered = <<>>
  /\ client = [c \in Clients |-> Idle]
  /\ device = [c \in Clients |-> AcceptSequence(AcceptSequence(FirstRequest, 1), 2)]
  /\ running = TRUE
  /\ submitted = <<>>
  /\ executed = <<>>
  /\ written = <<>>
  /\ produced = 0

-----------------------------------------------------------------------------
(* impl State *)

Present(s, u) == \E i \in DOMAIN s.pending : s.pending[i] = u

\* first_input, as the input URBs of an endpoint in order.
Inputs(s, ep) == SelectSeq(s.pending, LAMBDA u : u.ep = ep /\ u.in)

\* Into the channel of the writer.  When it is full the session ends, which
\* SessionBreaks may do at any time.
Send(s, packet) == [s EXCEPT !.log = Append(@, packet)]

Withdraw(s, u) == [s EXCEPT !.pending = SelectSeq(@, LAMBDA v : v # u)]

\* Variant: an answered URB stays pending.
CompleteKeeps(s, u, status, data) ==
  IF Present(s, u)
    THEN Send(s, [kind |-> "RET", urb |-> u, status |-> status, data |-> data])
    ELSE s

\* A URB that is no longer pending has been answered by UNLINK.
Complete(s, u, status, data) ==
  IF Present(s, u)
    THEN Send(Withdraw(s, u), [kind |-> "RET", urb |-> u, status |-> status, data |-> data])
    ELSE s

\* The part of a response that waits for the next input URB.
Rest(response, n) ==
  IF n < Len(response) THEN <<SubSeq(response, n + 1, Len(response))>> ELSE <<>>

RECURSIVE FlushResponses(_)
FlushResponses(s) ==
  IF s.responses = <<>> \/ Inputs(s, 1) = <<>>
    THEN s
    ELSE LET u == Head(Inputs(s, 1))
             response == Head(s.responses)
             n == Min({u.size, Len(response)})
         IN FlushResponses(Complete(
              [s EXCEPT !.responses = Rest(response, n) \o Tail(@)],
              u, "OK", SubSeq(response, 1, n)))

FlushNotification(s) ==
  IF s.notification = 0 \/ Inputs(s, 2) = <<>>
    THEN s
    ELSE LET u == Head(Inputs(s, 2))
             n == Min({u.size, s.notification})
         IN Complete([s EXCEPT !.notification = @ - n], u, "OK", <<>>)

\* Variant: the worker is woken only when every response is gone.
SignalSpaceWhenEmpty(s) == [s EXCEPT !.space = @ \/ s.responses = <<>>]

\* notify_one leaves a permit when nobody waits yet.
SignalSpace(s) == [s EXCEPT !.space = @ \/ Len(s.responses) < ResponseDepth]

Flush(s) == FlushNotification(SignalSpace(FlushResponses(s)))

\* The state a task leaves behind; its error ends the session.
Leave(s) == state' = s /\ running' = ~s.failed

End == running' = FALSE /\ UNCHANGED state

-----------------------------------------------------------------------------
(* receive *)

WorkerOf(u) == CASE u.ep = 0 -> "control" [] u.ep = 1 -> "dap" [] u.ep = 3 -> "write"
ForWorker(u) == u.ep = 0 \/ (u.ep \in {1, 3} /\ ~u.in)

Submit(u) ==
  LET s == [state EXCEPT !.pending = Append(@, u)]
      full == Len(queue[WorkerOf(u)]) >= QueueDepth[WorkerOf(u)]
  IN
  /\ running
  /\ submitted' = Append(submitted, u)
  /\ IF Len(state.pending) >= PendingLimit
       THEN End /\ UNCHANGED queue
       ELSE IF ForWorker(u)
         THEN IF full
           THEN Leave(Complete(s, u, "NOMEM", <<>>)) /\ UNCHANGED queue
           ELSE /\ Leave(s)
                /\ queue' = [queue EXCEPT ![WorkerOf(u)] = Append(@, u)]
         ELSE /\ Leave(CASE ~u.in -> Complete(s, u, "STALL", <<>>)
                         [] u.in /\ u.size = 0 -> Complete(s, u, "OK", <<>>)
                         [] OTHER -> Flush(s))
              /\ UNCHANGED queue
  /\ UNCHANGED <<active, label, hand, offset, buffered, client, device, ghosts>>

\* Variant: a URB that is being executed is unlinked like any other.
UnlinkQuietly(u) ==
  LET found == Present(state, u) IN
  /\ running
  /\ Leave(Send(Withdraw(state, u),
                [kind |-> "UNLINK", urb |-> u, status |-> IF found THEN "RESET" ELSE "OK",
                 data |-> <<>>]))
  /\ UNCHANGED <<active, queue, label, hand, offset, buffered, client, device, history>>

\* UNLINK of u: the fate of a transfer that a worker has taken on is unknown,
\* so the session ends.
Unlink(u) ==
  LET found == Present(state, u)
      s == Send(Withdraw(state, u),
                [kind |-> "UNLINK", urb |-> u, status |-> IF found THEN "RESET" ELSE "OK",
                 data |-> <<>>])
  IN
  /\ running
  /\ Leave([s EXCEPT !.failed = @ \/ (found /\ u.seq \in active)])
  /\ UNCHANGED <<active, queue, label, hand, offset, buffered, client, device, history>>

-----------------------------------------------------------------------------
(* Client: one exchange at a time, under the client's lock *)

At(t, l) == running /\ label[t] = l

Goto(t, l) == label' = [label EXCEPT ![t] = l]

\* request_timeout up to the write, and past the lock unless t has it.
Ask(t, c) ==
  /\ client[c].holder \in {"none", t}
  /\ client[c].wire = "none"
  /\ client' = [client EXCEPT ![c] =
       [holder |-> t, sequence |-> ClientNext(@.sequence), wire |-> "request"]]

\* run_connection on the device.  A sequence error would be answered with ERROR,
\* and the session would break.  executes says what the request does there.
Serve(c, executes) ==
  /\ running
  /\ client[c].wire = "request"
  /\ SequenceError(device[c], client[c].sequence) = "NONE"
  /\ device' = [device EXCEPT ![c] = AcceptSequence(@, client[c].sequence)]
  /\ client' = [client EXCEPT ![c].wire = "reply"]
  /\ executes
  /\ UNCHANGED <<state, active, queue, label, hand, running, submitted>>

\* The reply is there; the lock goes with the function that took it.
Answered(c) == client[c].wire = "reply"
Release(c) == client' = [client EXCEPT ![c].holder = "none", ![c].wire = "none"]
KeepLock(c) == client' = [client EXCEPT ![c].wire = "none"]

\* A task fails: an exchange times out or is answered with an error, a socket
\* closes, the peer does not read its packets; or the bridge is stopped.
SessionBreaks ==
  /\ running
  /\ End
  /\ UNCHANGED <<active, queue, label, hand, offset, buffered, client, device, history>>

-----------------------------------------------------------------------------
(* worker *)

\* A URB that was unlinked while it waited is skipped.
Take(w) ==
  LET u == Head(queue[w]) IN
  /\ At(w, "idle")
  /\ queue[w] # <<>>
  /\ queue' = [queue EXCEPT ![w] = Tail(@)]
  /\ IF Present(state, u)
       THEN /\ active' = active \cup {u.seq}
            /\ hand' = [hand EXCEPT ![w] = u]
            /\ Goto(w, "taken")
       ELSE UNCHANGED <<active, hand, label>>
  /\ UNCHANGED <<state, offset, buffered, client, device, running, history>>

\* The end of a URB: w is idle again.
Finish(w, s) ==
  /\ Leave(s)
  /\ Goto(w, "idle")
  /\ hand' = [hand EXCEPT ![w] = NoUrb]

\* control: which requests reach the device before they are answered.
Configures(u) == (u.op = "dtr" /\ ~state.dtr) \/ (u.op = "coding" /\ state.dtr)

\* What a control request leaves in the state.  Deconfiguring ends the session.
Controlled(s, u) ==
  CASE u.op = "configure" -> [s EXCEPT !.configured = TRUE]
    [] u.op = "deconfigure" -> [s EXCEPT !.failed = s.configured]
    [] u.op \in {"dtr", "drop-dtr"} ->
         Flush([s EXCEPT !.dtr = (u.op = "dtr"), !.notification = NoticeSize])
    [] OTHER -> s

AnswerControl(s, u) ==
  LET t == Controlled(s, u) IN
  IF t.failed THEN t
    ELSE Complete(t, u, IF u.op = "unsupported" THEN "STALL" ELSE "OK", <<>>)

\* Backend::configure is two exchanges under one lock: ACQUIRE, CONFIGURE.
ControlAsks ==
  /\ \/ At("control", "taken") /\ Configures(hand["control"]) /\ Goto("control", "acquire")
     \/ At("control", "acquired") /\ Goto("control", "configure")
  /\ Ask("control", "uart")
  /\ UNCHANGED <<state, active, queue, hand, offset, buffered, device, running, history>>

ControlAcquired ==
  /\ At("control", "acquire") /\ Answered("uart")
  /\ KeepLock("uart")
  /\ Goto("control", "acquired")
  /\ UNCHANGED <<state, active, queue, hand, offset, buffered, device, running, history>>

ControlAnswers ==
  LET u == hand["control"] IN
  /\ \/ At("control", "taken") /\ ~Configures(u) /\ UNCHANGED client
     \/ At("control", "configure") /\ Answered("uart") /\ Release("uart")
  /\ Finish("control", AnswerControl(state, u))
  /\ UNCHANGED <<active, queue, offset, buffered, device, history>>

\* Endpoint 1: a request waits for room among the responses.
DapChecks ==
  LET u == hand["dap"] IN
  /\ At("dap", "taken")
  /\ IF u.size \notin 1 .. MaxRequest
       THEN Finish("dap", Complete(state, u, "STALL", <<>>))
       ELSE /\ Goto("dap", IF Len(state.responses) < ResponseDepth THEN "room" ELSE "wait")
            /\ UNCHANGED <<state, hand, running>>
  /\ UNCHANGED <<active, queue, offset, buffered, client, device, history>>

\* space.notified(): takes the permit and looks again.
DapWakes ==
  /\ At("dap", "wait")
  /\ state.space
  /\ state' = [state EXCEPT !.space = FALSE]
  /\ Goto("dap", "taken")
  /\ UNCHANGED <<active, queue, hand, offset, buffered, client, device, running, history>>

\* The second look at present() always succeeds: the UNLINK of a URB that is
\* active ended the session.
DapAsks ==
  /\ At("dap", "room")
  /\ Present(state, hand["dap"])
  /\ Ask("dap", "dap")
  /\ Goto("dap", "asked")
  /\ UNCHANGED <<state, active, queue, hand, offset, buffered, device, running, history>>

\* The units of a transfer of n units on behalf of u.
Units(u, n) == [k \in 1 .. n |-> <<u.seq, k>>]

DapAnswers ==
  LET u == hand["dap"]
      s == [state EXCEPT !.responses = Append(@, Units(u, ResponseSize))]
  IN
  /\ At("dap", "asked") /\ Answered("dap")
  /\ Release("dap")
  /\ Finish("dap", Flush(Complete(s, u, "OK", <<>>)))
  /\ UNCHANGED <<active, queue, offset, buffered, device, history>>

\* Endpoint 3: chunk after chunk under one lock until everything is accepted.
WriteAsks ==
  LET u == hand["write"] IN
  /\ At("write", "taken")
  /\ IF ~state.dtr \/ u.size = 0
       THEN /\ Finish("write", Complete(state, u, IF state.dtr THEN "OK" ELSE "STALL", <<>>))
            /\ UNCHANGED client
       ELSE /\ Ask("write", "uart")
            /\ Goto("write", "asked")
            /\ UNCHANGED <<state, hand, running>>
  /\ UNCHANGED <<active, queue, offset, buffered, device, history>>

WriteGoesOn ==
  LET u == hand["write"] IN
  /\ At("write", "asked") /\ Answered("uart")
  /\ IF offset < u.size
       THEN KeepLock("uart") /\ Goto("write", "more") /\ UNCHANGED <<state, hand, running, offset>>
       ELSE /\ Release("uart")
            /\ Finish("write", Complete(state, u, "OK", <<>>))
            /\ offset' = 0
  /\ UNCHANGED <<active, queue, buffered, device, history>>

WriteMore ==
  /\ At("write", "more")
  /\ Ask("write", "uart")
  /\ Goto("write", "asked")
  /\ UNCHANGED <<state, active, queue, hand, offset, buffered, device, running, history>>

-----------------------------------------------------------------------------
(* uart_reader and heartbeat *)

ReaderAsks ==
  /\ At("reader", "idle")
  /\ Inputs(state, 3) # <<>>
  /\ buffered = <<>>
  /\ Ask("reader", "uart")
  /\ Goto("reader", "asked")
  /\ hand' = [hand EXCEPT !["reader"] = Head(Inputs(state, 3))]
  /\ UNCHANGED <<state, active, queue, offset, buffered, device, running, history>>

ReaderGets ==
  /\ At("reader", "asked") /\ Answered("uart")
  /\ Release("uart")
  /\ Goto("reader", "got")
  /\ UNCHANGED <<state, active, queue, hand, offset, buffered, device, running, history>>

\* Variant: the data goes to the URB that was first before the read.
ReaderTargetStale == hand["reader"]

\* The first input URB, looked up again after the read; NoUrb when it is gone.
ReaderTarget == Head(Inputs(state, 3) \o <<NoUrb>>)

\* Units that no URB takes stay buffered for the next round.
ReaderDelivers ==
  LET u == ReaderTarget
      n == Min({u.size, Len(buffered)})
  IN
  /\ At("reader", "got") \/ (At("reader", "idle") /\ buffered # <<>> /\ Inputs(state, 3) # <<>>)
  /\ IF u # NoUrb /\ buffered # <<>>
       THEN /\ Leave(Complete(state, u, "OK", SubSeq(buffered, 1, n)))
            /\ buffered' = SubSeq(buffered, n + 1, Len(buffered))
       ELSE UNCHANGED <<state, running, buffered>>
  /\ Goto("reader", "idle")
  /\ hand' = [hand EXCEPT !["reader"] = NoUrb]
  /\ UNCHANGED <<active, queue, offset, client, device, history>>

\* A client whose lock is taken is passed over.
Heartbeat(c) ==
  \/ /\ At("beat", "idle")
     /\ client[c].holder = "none"
     /\ Ask("beat", c)
     /\ Goto("beat", "asked")
     /\ UNCHANGED <<state, active, queue, hand, offset, buffered, device, running, history>>
  \/ /\ At("beat", "asked") /\ Answered(c) /\ client[c].holder = "beat"
     /\ Release(c)
     /\ Goto("beat", "idle")
     /\ UNCHANGED <<state, active, queue, hand, offset, buffered, device, running, history>>

-----------------------------------------------------------------------------
(* The device behind the clients: what its services do with a request *)

ServeDap ==
  Serve("dap",
    /\ executed' = IF client["dap"].holder = "dap"
                     THEN Append(executed, hand["dap"].seq) ELSE executed
    /\ UNCHANGED <<offset, buffered, written, produced>>)

\* The serial port accepts part of a write, and has some units for a read.
ServeUart(n) ==
  LET t == client["uart"].holder
      u == hand[t]
  IN
  /\ t \notin {"write", "reader"} => n = 0
  /\ t \in {"write", "reader"} => n <= u.size - offset * (IF t = "write" THEN 1 ELSE 0)
  /\ Serve("uart",
       /\ IF t = "write"
            THEN /\ written' = written \o SubSeq(Units(u, u.size), offset + 1, offset + n)
                 /\ offset' = offset + n
            ELSE UNCHANGED <<written, offset>>
       /\ IF t = "reader"
            THEN /\ produced' = produced + n
                 /\ buffered' = [k \in 1 .. n |-> produced + k]
            ELSE UNCHANGED <<produced, buffered>>
       /\ UNCHANGED executed)

-----------------------------------------------------------------------------
(* Properties *)

\* The packets that settle u: a RET, or an UNLINK that found it.
Settling(u) ==
  {i \in DOMAIN state.log : /\ state.log[i].urb = u
                            /\ state.log[i].kind = "RET" \/ state.log[i].status = "RESET"}

Status(u) == {state.log[i].status : i \in Settling(u)}

\* Every URB is pending or settled by exactly one packet, whatever the order in
\* which workers, input data and UNLINK get to it, and a pending URB that a worker
\* answers waits in its queue or is in its hands (State::complete, receive).
EveryUrbSettledOnce ==
  running => \A u \in ToSet(submitted) :
    /\ Cardinality(Settling(u)) = IF Present(state, u) THEN 0 ELSE 1
    /\ Present(state, u) /\ ForWorker(u) =>
         hand[WorkerOf(u)] = u \/ u \in ToSet(queue[WorkerOf(u)])

\* The units of URB u among those written to the serial port.
WrittenOf(u) == SelectSeq(written, LAMBDA unit : unit[1] = u.seq)

\* What the peer is told about an output URB is what happened at the device: a
\* transfer that succeeded was executed once, whole and in order, and one that
\* was refused or cancelled was not executed, or the session is over (receive:
\* "in-flight write cancelled; discard uncertain result").
OutputAsReported ==
  /\ \A i, j \in DOMAIN executed : i < j => executed[i] < executed[j]
  /\ \A i, j \in DOMAIN written : i < j => written[i][1] < written[j][1]
                                         \/ (written[i][1] = written[j][1]
                                             /\ written[i][2] < written[j][2])
  /\ \A u \in ToSet(submitted) :
       /\ u.ep = 1 /\ ~u.in =>
            /\ Status(u) = {"OK"} => u.seq \in ToSet(executed)
            /\ Status(u) \notin {{}, {"OK"}} /\ running => u.seq \notin ToSet(executed)
       /\ u.ep = 3 /\ ~u.in =>
            /\ Status(u) = {"OK"} => WrittenOf(u) = Units(u, u.size)
            /\ Status(u) \notin {{}, {"OK"}} /\ running => WrittenOf(u) = <<>>

\* The data of the packets that settled input URBs of an endpoint.
Delivered(ep) ==
  FlattenSeq([i \in DOMAIN state.log |->
    IF state.log[i].urb.ep = ep /\ state.log[i].urb.in THEN state.log[i].data ELSE <<>>])

\* The input of endpoint 1 is the responses to the executed requests, each whole
\* and in order, cut to the input URBs as they come; only the response to the
\* request under way may be missing (State::flush).  What was read from the serial
\* port reaches the peer or stays buffered, in order, also when the URB it was read
\* for is unlinked during the read (uart_reader).
InputInOrder ==
  LET owed == IF label["dap"] = "asked" /\ client["dap"].wire = "reply" THEN 1 ELSE 0
      due == [i \in 1 .. Len(executed) - owed |-> [k \in 1 .. ResponseSize |-> <<executed[i], k>>]]
  IN
  running =>
    /\ Delivered(1) \o FlattenSeq(state.responses) = FlattenSeq(due)
    /\ Delivered(3) \o buffered = [k \in 1 .. produced |-> k]

\* The worker of endpoint 1 never sleeps without a wake-up when there is room
\* for a response (Notify: the room may appear between its look and its wait).
NoLostWakeUp ==
  /\ running
  /\ label["dap"] = "wait"
  /\ Len(state.responses) < ResponseDepth
  => state.space

\* Numbers reached from the expected one in at most half a turn.
Ahead(v) ==
  LET walk[k \in 0 .. MaxSequence] == IF k = 0 THEN v.expected ELSE NextSequence(walk[k - 1])
  IN {walk[k] : k \in 1 .. MaxSequence \div 2}

\* The host's counter and the device's validator agree on every request, over the
\* wrap too, and the device would call a request out of order exactly when it is
\* ahead of the expected one by at most half of the numbers.
SequencesAgree ==
  \A c \in Clients :
    LET v == device[c] IN
    /\ client[c].wire = "request" => SequenceError(v, client[c].sequence) = "NONE"
    /\ \A n \in 1 .. MaxSequence \ {v.expected, v.last} :
         SequenceError(v, n) = IF n \in Ahead(v) THEN "OUT_OF_ORDER" ELSE "STALE"
=============================================================================
