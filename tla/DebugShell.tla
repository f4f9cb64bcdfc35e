----------------------------- MODULE DebugShell -----------------------------
(***************************************************************************)
(* The task of the debug shell (usb_device/debug_shell.c): it reads keys   *)
(* from its interface, starts and ends sessions, and writes in units of    *)
(* which the interface takes as many as fit.  A session ends from outside  *)
(* when the TinyUSB task sees the cable go.  The restart command restarts  *)
(* the device only after its acknowledgement has left it.                  *)
(*                                                                         *)
(* Mirrored log lines are written by this task like the text of a command, *)
(* and the other commands only write text here.                            *)
(***************************************************************************)
EXTENDS UsbDevice

CONSTANTS
  FifoSize,   \* units the interface buffers
  TextSize,   \* units of a text
  AckSize     \* units of the acknowledgement of restart

VARIABLE shell   \* the task: where it is, and the write it is in

shellVars == <<deviceVars, shell>>

Quiet == [at |-> "loop", ack |-> FALSE, left |-> 0, held |-> <<>>, wrote |-> 0, ticket |-> <<>>]

ShellInit == DeviceInit /\ shell = Quiet

ShellAt(p) == shell.at = p /\ UNCHANGED <<bus, dev, answer>>

Active == output.active /\ DebugMounted

\* Enters debug_write, or write_and_wait for an acknowledgement.
Writing(ack) == [Quiet EXCEPT !.at = "enter", !.ack = ack, !.left = IF ack THEN AckSize ELSE TextSize]

\* The command says that its acknowledgement failed; a text is just cut short.
GivenUp == IF shell.ack THEN Writing(FALSE) ELSE Quiet

\* shell_task without a mounted interface.
ShellUnmounted ==
  /\ ShellAt("loop")
  /\ ~DebugMounted
  /\ ShellEnds
  /\ UNCHANGED <<stack, past, shell>>

\* shell_task with a key: a session starts or ends, or a command line runs.
ShellReads ==
  /\ ShellAt("loop")
  /\ DebugMounted /\ stack.typed # <<>>
  /\ stack' = [stack EXCEPT !.typed = <<>>]
  /\ LET key == Head(stack.typed) IN
       \/ key = "start" /\ ShellEnds /\ shell' = [Quiet EXCEPT !.at = "start"] /\ UNCHANGED past
       \/ key = "end" /\ ShellEnds /\ UNCHANGED <<shell, past>>
       \/ /\ key \in {"line", "restart"}
          /\ shell' = IF output.active THEN Writing(key = "restart") ELSE Quiet
          /\ past' = IF key = "restart" THEN [past EXCEPT !.attempt = @ + 1, !.took = 0] ELSE past
          /\ UNCHANGED output

\* The rest of start_session, which greets.
StartSession ==
  /\ ShellAt("start")
  /\ output' = [active |-> TRUE, tx |-> TxConnected(output.tx)]
  /\ shell' = Writing(FALSE)
  /\ past' = [past EXCEPT !.early = FALSE]
  /\ UNCHANGED stack

EnterWrite ==
  /\ ShellAt("enter")
  /\ shell' = IF Active THEN [shell EXCEPT !.at = "reserve"] ELSE GivenUp
  /\ UNCHANGED <<stack, output, past>>

\* One round of the loop: tx_reserve, ...
ReserveUnits ==
  LET go == output.tx.connected /\ (shell.ack => Active) IN
  /\ ShellAt("reserve")
  /\ output' = IF go THEN [output EXCEPT !.tx = Reserve(@, shell.left)] ELSE output
  /\ shell' = IF go THEN [shell EXCEPT !.at = "write", !.held = Reservation(output.tx, shell.left)]
                    ELSE GivenUp
  /\ UNCHANGED <<stack, past>>

\* ... airdap_usb_debug_write, ...
WriteUnits ==
  LET n == IF dev.ready THEN Min({shell.left, FifoSize - Len(stack.fifo)}) ELSE 0
      unit == [of |-> shell.held.generation, ack |-> IF shell.ack THEN past.attempt ELSE 0]
  IN
  /\ ShellAt("write")
  /\ stack' = [stack EXCEPT !.fifo = @ \o [i \in 1 .. n |-> unit]]
  /\ shell' = [shell EXCEPT !.at = "commit", !.wrote = n]
  /\ past' = IF n > 0 THEN Landed("shell", DebugInstance) ELSE past
  /\ UNCHANGED output

\* ... tx_commit, and another round unless that was all or takes too long; too
\* late, write_and_wait gives up even with everything written.
CommitUnits ==
  LET ok == CommitOk(output.tx, shell.held)
      on == [shell EXCEPT !.at = "reserve", !.left = @ - shell.wrote, !.held = <<>>, !.wrote = 0,
               !.ticket = IF shell.wrote > 0 THEN Ticket(output.tx, shell.held, shell.wrote) ELSE @]
  IN
  /\ ShellAt("commit")
  /\ output' = IF ok THEN [output EXCEPT !.tx = Commit(@, shell.held, shell.wrote)] ELSE output
  /\ \/ ~ok /\ shell' = GivenUp
     \/ ok /\ on.left > 0 /\ shell' = on
     \/ ok /\ (shell.wrote = 0 \/ (shell.ack /\ on.left = 0)) /\ shell' = GivenUp
     \/ ok /\ on.left = 0 /\ shell' = IF shell.ack THEN [on EXCEPT !.at = "wait"] ELSE Quiet
  /\ UNCHANGED <<stack, past>>

\* wait_for_tx_ticket; a pending ticket may take too long.
AwaitTicket ==
  /\ ShellAt("wait")
  /\ shell' = IF TicketStatus(output.tx, shell.ticket) = "COMPLETE"
                THEN [shell EXCEPT !.at = "check"] ELSE GivenUp
  /\ UNCHANGED <<stack, output, past>>

\* write_and_wait has its ticket; a session lost by now is a failure too, ...
LookAgain ==
  /\ ShellAt("check")
  /\ shell' = IF Active THEN [shell EXCEPT !.at = "restart"] ELSE GivenUp
  /\ UNCHANGED <<stack, output, past>>

\* ... and the command looks once more before esp_restart.
RestartDevice ==
  /\ ShellAt("restart")
  /\ shell' = IF Active THEN [Quiet EXCEPT !.at = "restarted"] ELSE Quiet
  /\ UNCHANGED <<stack, output, past>>

-----------------------------------------------------------------------------
(* Properties *)

\* The device restarts only after the host took the whole acknowledgement, also
\* when sessions end and start around the command and output is accepted in
\* pieces, unless completions of an earlier session's output on the same
\* connection were counted for this one (airdap_debug_shell_restart_command,
\* airdap_debug_shell_tx_state_completed).
RestartIsAcknowledged ==
  shell.at = "restarted" => past.took = AckSize \/ past.early
=============================================================================
