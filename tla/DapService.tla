------------------------------ MODULE DapService ------------------------------
(***************************************************************************)
(* The DAP request service (firmware/components/dap_service/dap_service.c):*)
(* one worker task runs the requests of every transport from one queue,    *)
(* while the transports' tasks open, reset and close their sessions.       *)
(*                                                                         *)
(* live_sessions is written under the transport's mutex, but the worker    *)
(* reads it without; pending_disconnects is exchanged without any lock.    *)
(* proc stands for what airdap_dap_process leaves in a transport's         *)
(* processor: the session whose DAP_Connect is in force.                   *)
(***************************************************************************)
EXTENDS Naturals, Sequences, FiniteSets

CONSTANTS
  Transports,
  QueueDepth,     \* DAP_QUEUE_DEPTH
  MaxSession      \* bound on next_session, 2^32 - 1 in the code

ASSUME ServiceAssumption == QueueDepth \in Nat \ {0} /\ MaxSession \in Nat

VARIABLES
  live,           \* live_sessions
  next,           \* next_session
  pending,        \* pending_disconnects, as a set of transports
  queue,          \* dap_queue
  lock,           \* who holds each session mutex
  wpc, item,      \* the worker: where it is, and the item it took
  batch,          \* the disconnects it took and has not run yet
  proc,           \* the processor of each transport
  asked           \* history: sessions whose close or reset was requested

vars == <<live, next, pending, queue, lock, wpc, item, batch, proc, asked>>

Sessions == 1 .. MaxSession
Kinds == {"CONNECT", "DISCONNECT", "OTHER"}
Items == [transport : Transports, session : Sessions, kind : Kinds]
NoItem == [transport |-> "NONE", session |-> 0, kind |-> "OTHER"]

WorkerLabels == {"drain", "run_disconnects", "receive", "drain_again",
                 "run_disconnects_again", "check", "process", "respond", "deliver"}

Init ==
  /\ live = [tr \in Transports |-> 0]
  /\ next = 1
  /\ pending = {}
  /\ queue = <<>>
  /\ lock = [tr \in Transports |-> "FREE"]
  /\ wpc = "drain"
  /\ item = NoItem
  /\ batch = {}
  /\ proc = [tr \in Transports |-> 0]
  /\ asked = {}

workerVars == <<wpc, item, batch, proc>>

-----------------------------------------------------------------------------
(* The transports' tasks *)

\* airdap_dap_service_session_open, inside the mutex.
SessionOpen(tr) ==
  /\ lock[tr] = "FREE"
  /\ live[tr] = 0
  /\ next <= MaxSession
  /\ live' = [live EXCEPT ![tr] = next]
  /\ next' = next + 1
  /\ UNCHANGED <<pending, queue, lock, asked, workerVars>>

\* airdap_dap_service_session_close: the worker may run between its two
\* stores, the other transport tasks may not.
SessionClose(tr) ==
  /\ lock[tr] = "FREE"
  /\ live[tr] # 0
  /\ live' = [live EXCEPT ![tr] = 0]
  /\ lock' = [lock EXCEPT ![tr] = "CLOSE"]
  /\ asked' = asked \cup {live[tr]}
  /\ UNCHANGED <<next, pending, queue, workerVars>>

\* Variants: the request reaches every transport; it is lost.
RequestDisconnectAll(tr) == pending' = Transports
RequestDisconnectLost(tr) == UNCHANGED pending

RequestDisconnect(tr) == pending' = pending \cup {tr}

SessionClosed(tr) ==
  /\ lock[tr] = "CLOSE"
  /\ RequestDisconnect(tr)
  /\ lock' = [lock EXCEPT ![tr] = "FREE"]
  /\ UNCHANGED <<live, next, queue, asked, workerVars>>

\* airdap_dap_service_session_reset.
SessionReset(tr) ==
  /\ lock[tr] = "FREE"
  /\ live[tr] # 0
  /\ RequestDisconnect(tr)
  /\ asked' = asked \cup {live[tr]}
  /\ UNCHANGED <<live, next, queue, lock, workerVars>>

\* airdap_dap_service_submit: a full queue refuses the request.
Submit(tr, kind) ==
  /\ lock[tr] = "FREE"
  /\ live[tr] # 0
  /\ Len(queue) < QueueDepth
  /\ queue' = Append(queue, [transport |-> tr, session |-> live[tr], kind |-> kind])
  /\ UNCHANGED <<live, next, pending, lock, asked, workerVars>>

-----------------------------------------------------------------------------
(* airdap_dap_service_process_next *)

clientVars == <<live, next, asked>>

\* atomic_exchange in process_pending_disconnects.
Exchange(from, to) ==
  /\ wpc = from
  /\ batch' = pending
  /\ pending' = {}
  /\ wpc' = to
  /\ UNCHANGED <<queue, lock, item, proc, clientVars>>

Drain == Exchange("drain", "run_disconnects")

\* Variant: the item is checked without a second drain.
DrainAgainSkipped ==
  /\ wpc = "drain_again"
  /\ wpc' = "check"
  /\ UNCHANGED <<pending, batch, queue, lock, item, proc, clientVars>>

DrainAgain == Exchange("drain_again", "run_disconnects_again")

\* airdap_dap_session_closed for one transport of the batch.
RunDisconnect(tr) ==
  /\ wpc \in {"run_disconnects", "run_disconnects_again"}
  /\ tr \in batch
  /\ batch' = batch \ {tr}
  /\ proc' = [proc EXCEPT ![tr] = 0]
  /\ UNCHANGED <<wpc, item, pending, queue, lock, clientVars>>

DisconnectsDone ==
  /\ wpc \in {"run_disconnects", "run_disconnects_again"}
  /\ batch = {}
  /\ wpc' = IF wpc = "run_disconnects" THEN "receive" ELSE "check"
  /\ UNCHANGED <<item, batch, proc, pending, queue, lock, clientVars>>

\* xQueueReceive: an item, or the poll timeout.
Receive ==
  /\ wpc = "receive"
  /\ \/ /\ queue # <<>>
        /\ item' = Head(queue)
        /\ queue' = Tail(queue)
        /\ wpc' = "drain_again"
     \/ /\ queue = <<>>
        /\ wpc' = "drain"
        /\ UNCHANGED <<item, queue>>
  /\ UNCHANGED <<batch, proc, pending, lock, clientVars>>

\* process_next returns and the task calls it again.
Again == wpc' = "drain" /\ item' = NoItem

IsLive == live[item.transport] = item.session

\* Stale items and items that waited too long are dropped.
Check ==
  /\ wpc = "check"
  /\ \/ IsLive /\ wpc' = "process" /\ UNCHANGED item
     \/ Again
  /\ UNCHANGED <<batch, proc, pending, queue, lock, clientVars>>

\* airdap_dap_process on the transport's processor.  A connect may be refused.
Process ==
  LET tr == item.transport IN
  /\ wpc = "process"
  /\ proc' \in
       CASE item.kind = "CONNECT" ->
              {[proc EXCEPT ![tr] = s] : s \in {0, item.session}}
         [] item.kind = "DISCONNECT" -> {[proc EXCEPT ![tr] = 0]}
         [] OTHER -> {proc}
  /\ wpc' = "respond"
  /\ UNCHANGED <<item, batch, pending, queue, lock, clientVars>>

\* No answer, a late one, or one whose session is gone is dropped; otherwise
\* the mutex is kept for the delivery.
Respond ==
  LET tr == item.transport IN
  /\ wpc = "respond"
  /\ \/ Again /\ UNCHANGED lock
     \/ /\ lock[tr] = "FREE" /\ IsLive
        /\ wpc' = "deliver"
        /\ lock' = [lock EXCEPT ![tr] = "WORKER"]
        /\ UNCHANGED item
  /\ UNCHANGED <<batch, proc, pending, queue, clientVars>>

\* response_callback, then the mutex is given back.
Deliver ==
  /\ wpc = "deliver"
  /\ lock' = [lock EXCEPT ![item.transport] = "FREE"]
  /\ Again
  /\ UNCHANGED <<batch, proc, pending, queue, clientVars>>

Worker ==
  \/ Drain \/ DrainAgain \/ DisconnectsDone \/ Receive \/ Check \/ Process
  \/ Respond \/ Deliver
  \/ \E tr \in Transports : RunDisconnect(tr)

Next ==
  \/ \E tr \in Transports :
       \/ SessionOpen(tr) \/ SessionClose(tr) \/ SessionClosed(tr)
       \/ SessionReset(tr)
       \/ \E kind \in Kinds : Submit(tr, kind)
  \/ Worker

Spec == Init /\ [][Next]_vars

\* The worker runs forever; a task inside session_close finishes it.
FairSpec ==
  /\ Spec
  /\ WF_vars(Worker)
  /\ \A tr \in Transports : WF_vars(SessionClosed(tr))

-----------------------------------------------------------------------------
(* Properties *)

\* Type invariant of the service and of its worker.
TypeOK ==
  /\ live \in [Transports -> 0 .. MaxSession]
  /\ next \in 1 .. MaxSession + 1
  /\ pending \subseteq Transports
  /\ queue \in Seq(Items) /\ Len(queue) <= QueueDepth
  /\ lock \in [Transports -> {"FREE", "CLOSE", "WORKER"}]
  /\ wpc \in WorkerLabels
  /\ item \in Items \cup {NoItem}
  /\ batch \subseteq Transports
  /\ proc \in [Transports -> 0 .. MaxSession]
  /\ asked \subseteq Sessions

\* "A replacement session never runs against the previous processor state":
\* when a request is processed the processor is disconnected or belongs to
\* the request's own session.
FreshProcessor ==
  wpc = "process" => proc[item.transport] \in {0, item.session}

\* A session loses its connection to process_pending_disconnects only if that
\* very session was closed or reset: neither the other transport's close nor
\* an earlier session's leftover request takes it away.
DisconnectsOnlyAsked ==
  [][\A tr \in Transports :
       /\ proc[tr] # 0 /\ proc'[tr] = 0
       /\ wpc \in {"run_disconnects", "run_disconnects_again"}
       => proc[tr] \in asked]_vars

\* The connection of a closed session is eventually taken down, even if its
\* last requests were running when it was closed.
ClosedIsDisconnected ==
  \A tr \in Transports :
    proc[tr] \notin {0, live[tr]} ~> proc[tr] \in {0, live[tr]}
=============================================================================
