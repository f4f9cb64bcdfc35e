---------------------------- MODULE MCDapService ----------------------------
(* TLC instance of DapService: two transports. *)
EXTENDS DapService

CONSTANTS usb, network
=============================================================================
