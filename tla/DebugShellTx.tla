---------------------------- MODULE DebugShellTx ----------------------------
(***************************************************************************)
(* How the debug shell knows that its output has left the device           *)
(* (usb_device/debug_shell_tx_state.c): bytes are counted as accepted      *)
(* before they are written, because their completion may be reported       *)
(* before the write returns, and a ticket waits for a count of completed   *)
(* bytes of one connection.                                                *)
(***************************************************************************)
EXTENDS Naturals, FiniteSetsExt

TxInit == [generation |-> 0, accepted |-> 0, completed |-> 0, connected |-> FALSE]

TxConnected(tx) ==
  IF tx.connected
    THEN tx
    ELSE [generation |-> tx.generation + 1, accepted |-> 0, completed |-> 0, connected |-> TRUE]

TxDisconnected(tx) ==
  IF tx.connected THEN [tx EXCEPT !.connected = FALSE, !.generation = @ + 1] ELSE tx

\* airdap_debug_shell_tx_state_reserve of a connected state.
Reserve(tx, n) == [tx EXCEPT !.accepted = @ + n]

Reservation(tx, n) == [generation |-> tx.generation, reserved |-> n]

\* airdap_debug_shell_tx_state_commit: what was reserved and not written is
\* given back.
CommitOk(tx, r) == tx.connected /\ r.generation = tx.generation

Commit(tx, r, n) == [tx EXCEPT !.accepted = @ - (r.reserved - n)]

\* Variant: the ticket waits for as many bytes as this write accepted.
TicketOfWrite(tx, r, n) == [generation |-> r.generation, target |-> n]

Ticket(tx, r, n) == [generation |-> r.generation, target |-> Commit(tx, r, n).accepted]

Outstanding(tx) == IF tx.accepted > tx.completed THEN tx.accepted - tx.completed ELSE 0

Completed(tx, n) ==
  IF tx.connected THEN [tx EXCEPT !.completed = @ + Min({n, Outstanding(tx)})] ELSE tx

\* airdap_debug_shell_tx_state_status
TicketStatus(tx, ticket) ==
  CASE ~tx.connected \/ ticket.generation # tx.generation -> "CANCELLED"
    [] tx.connected /\ ticket.generation = tx.generation /\ tx.completed >= ticket.target -> "COMPLETE"
    [] OTHER -> "PENDING"
=============================================================================
