---------------------------- MODULE AirdapFrame ----------------------------
(***************************************************************************)
(* Sequence numbers of the AirDAP frames: the device's validator           *)
(* (firmware/components/airdap_frame) and the host's counter               *)
(* (host/src/network.rs).  0 is reserved; MaxSequence is 2^32 - 1 in the   *)
(* code.                                                                   *)
(***************************************************************************)
EXTENDS Naturals, FiniteSetsExt

CONSTANT MaxSequence

ASSUME SequenceAssumption == MaxSequence \in Nat \ {0}

\* airdap_frame_next_sequence.
NextSequence(n) == IF (n + 1) % (MaxSequence + 1) = 0 THEN 1 ELSE n + 1

\* Client::request_timeout: wrapping_add(1).max(1).
ClientNext(n) == Max({(n + 1) % (MaxSequence + 1), 1})

\* Variant: the distance is taken over zero too, which is not in use.
ForwardDistanceOverZero(v, n) == (n + MaxSequence + 1 - v.expected) % (MaxSequence + 1)

\* How far ahead of the expected sequence n is, over the numbers in use.
ForwardDistance(v, n) ==
  (n - 1 + MaxSequence - (v.expected - 1)) % MaxSequence

\* airdap_frame_validate_request_sequence; last = 0 before the first request.
SequenceError(v, n) ==
  CASE n = 0 -> "OUT_OF_ORDER"   \* validate_header
    [] n = v.expected -> "NONE"
    [] n # v.expected /\ v.last # 0 /\ n = v.last -> "DUPLICATE"
    [] OTHER -> IF v.last = 0 \/ ForwardDistance(v, n) <= MaxSequence \div 2
                  THEN "OUT_OF_ORDER"
                  ELSE "STALE"

FirstRequest == [expected |-> 1, last |-> 0]

AcceptSequence(v, n) == [expected |-> NextSequence(n), last |-> n]
=============================================================================
