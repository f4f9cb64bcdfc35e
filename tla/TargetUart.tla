----------------------------- MODULE TargetUart -----------------------------
(***************************************************************************)
(* The target's serial port (firmware/components/target_uart).  Each       *)
(* transport has one session slot with a ring of received bytes; one       *)
(* session at a time owns the sending side.  tx_operation_mutex is held    *)
(* over a whole write, configuration or suspension and is txLock here; a   *)
(* section under state_mutex alone is one step.                            *)
(***************************************************************************)
EXTENDS Naturals, Sequences

CONSTANTS
  Tasks,       \* the tasks that call the module
  RxSize,      \* AIRDAP_TARGET_UART_SUBSCRIBER_BUFFER_SIZE
  TxSize,      \* what the driver's send ring takes
  DroppedMax,  \* UINT32_MAX, where the drop counter saturates
  Settings,    \* the line settings a caller may ask for
  Default,     \* the setting of airdap_target_uart_init
  MaxSession,  \* bound: sessions opened
  MaxRx,       \* bound: bytes received
  MaxConfigs   \* bound: configurations published

ASSUME SizesAssumption ==
  /\ RxSize \in Nat \ {0}
  /\ TxSize \in Nat \ {0}
  /\ DroppedMax \in Nat
  /\ Default \in Settings

VARIABLES
  slots,        \* session_slots
  txOwner,      \* tx_owner
  suspended,
  nextSession,  \* next_session
  txLock,       \* the holder of tx_operation_mutex
  tx,           \* bytes in the driver's send ring
  rxTotal,      \* bytes received so far: byte k is the number k
  config,       \* the configuration part of diagnostic_state
  uat,          \* uat[t]: where t is inside a call
  uarg,         \* uarg[t]: for whom t sends, how much is left, its setting
  ures,         \* ures[t]: the result of t's last call
  seen,         \* seen[t]: what get_status has read so far
  opened,       \* history: rxTotal when the session of a slot was opened
  got           \* history: the bytes read by the session of a slot

uartVars == <<slots, txOwner, suspended, nextSession, txLock, tx, rxTotal,
              config, uat, uarg, ures, seen, opened, got>>

Transports == {"USB", "NETWORK"}

NoOwner == [transport |-> "NONE", session |-> 0]

Owner(tr, s) == [transport |-> tr, session |-> s]

EmptySlot ==
  [session |-> 0, head |-> 0, count |-> 0, dropped |-> 0,
   buffer |-> [i \in 0..(RxSize - 1) |-> 0]]

\* A baud rate of zero stands for every setting configure_driver refuses.
Valid(c) == c.baud # 0

NoArg == [owner |-> NoOwner, left |-> 0, setting |-> [baud |-> 0, bits |-> 0]]

NoReading == [before |-> 0, baud |-> 0, bits |-> 0]

\* airdap_target_uart_init, with the configuration it publishes.
UartInit ==
  /\ slots = [tr \in Transports |-> EmptySlot]
  /\ txOwner = NoOwner
  /\ suspended = FALSE
  /\ nextSession = 1
  /\ txLock = "FREE"
  /\ tx = 0
  /\ rxTotal = 0
  /\ config = [sequence |-> 2, baud |-> Default.baud, bits |-> Default.bits]
  /\ uat = [t \in Tasks |-> "idle"]
  /\ uarg = [t \in Tasks |-> NoArg]
  /\ ures = [t \in Tasks |-> "NONE"]
  /\ seen = [t \in Tasks |-> NoReading]
  /\ opened = [tr \in Transports |-> 0]
  /\ got = [tr \in Transports |-> << >>]

Idle(t) == uat[t] = "idle"

Return(t, code) ==
  /\ uat' = [uat EXCEPT ![t] = "idle"]
  /\ ures' = [ures EXCEPT ![t] = code]

Unlock == txLock' = "FREE"

Lesser(a, b) == IF a < b THEN a ELSE b

-----------------------------------------------------------------------------
(* Sessions. *)

SessionLive(tr, s) == slots[tr].session = s

SessionOpenBusy(t, tr) ==
  /\ slots[tr].session # 0
  /\ Return(t, "BUSY")
  /\ UNCHANGED <<slots, nextSession, opened, got>>

SessionOpenOk(t, tr) ==
  /\ slots[tr].session = 0
  /\ nextSession <= MaxSession
  /\ slots' = [slots EXCEPT ![tr] = [EmptySlot EXCEPT !.session = nextSession]]
  /\ nextSession' = nextSession + 1
  /\ opened' = [opened EXCEPT ![tr] = rxTotal]
  /\ got' = [got EXCEPT ![tr] = << >>]
  /\ Return(t, "OK")

SessionOpen(t, tr) ==
  /\ Idle(t)
  /\ SessionOpenBusy(t, tr) \/ SessionOpenOk(t, tr)
  /\ UNCHANGED <<txOwner, suspended, txLock, tx, rxTotal, config, uarg, seen>>

SessionClosed(tr, s) ==
  /\ txOwner' = IF txOwner = Owner(tr, s) THEN NoOwner ELSE txOwner
  /\ slots' = [slots EXCEPT ![tr] = EmptySlot]
  /\ got' = [got EXCEPT ![tr] = << >>]
  /\ opened' = [opened EXCEPT ![tr] = 0]

SessionClose(t, tr, s) ==
  /\ Idle(t)
  /\ txLock = "FREE"
  /\ \/ /\ ~SessionLive(tr, s)
        /\ Return(t, "STALE_SESSION")
        /\ UNCHANGED <<slots, txOwner, opened, got>>
     \/ /\ SessionLive(tr, s)
        /\ SessionClosed(tr, s)
        /\ Return(t, "OK")
  /\ UNCHANGED <<suspended, nextSession, txLock, tx, rxTotal, config, uarg,
                 seen>>

\* session_get_status: reads the slot under the lock.
SessionGetStatus(t, tr, s) ==
  /\ Idle(t)
  /\ Return(t, IF SessionLive(tr, s) THEN "OK" ELSE "STALE_SESSION")
  /\ UNCHANGED <<slots, txOwner, suspended, nextSession, txLock, tx, rxTotal,
                 config, uarg, seen, opened, got>>

-----------------------------------------------------------------------------
(* The sending side. *)

\* Variant: an acquire that forgets an update in progress.
AcquireResultDuringUpdate(tr, s) ==
  CASE ~SessionLive(tr, s)       -> "STALE_SESSION"
    [] SessionLive(tr, s) /\ txOwner = NoOwner -> "OK"
    [] SessionLive(tr, s) /\ txOwner = Owner(tr, s) -> "ALREADY_OWNER"
    [] OTHER -> "BUSY"

AcquireResult(tr, s) ==
  CASE ~SessionLive(tr, s)       -> "STALE_SESSION"
    [] SessionLive(tr, s) /\ suspended -> "BUSY"
    [] SessionLive(tr, s) /\ ~suspended /\ txOwner = NoOwner -> "OK"
    [] SessionLive(tr, s) /\ ~suspended /\ txOwner = Owner(tr, s) ->
         "ALREADY_OWNER"
    [] OTHER -> "BUSY"

TxAcquire(t, tr, s) ==
  /\ Idle(t)
  /\ txLock = "FREE"
  /\ Return(t, AcquireResult(tr, s))
  /\ txOwner' = IF AcquireResult(tr, s) = "OK" THEN Owner(tr, s) ELSE txOwner
  /\ UNCHANGED <<slots, suspended, nextSession, txLock, tx, rxTotal, config,
                 uarg, seen, opened, got>>

\* Variant: a test that trusts the session alone.
OwnerResultOfSession(tr, s) ==
  IF SessionLive(tr, s) THEN "OK" ELSE "STALE_SESSION"

\* validate_tx_owner_locked
OwnerResult(tr, s) ==
  CASE suspended -> "BUSY"
    [] ~suspended /\ ~SessionLive(tr, s) -> "STALE_SESSION"
    [] ~suspended /\ SessionLive(tr, s) /\ txOwner # Owner(tr, s) -> "NOT_OWNER"
    [] OTHER -> "OK"

Room == TxSize - tx

\* A network write takes what fits; a USB write takes all and may wait.
Accepted(tr, n) == IF tr = "NETWORK" /\ n > Room THEN Room ELSE n

WriteRefused(t, tr, s) ==
  /\ OwnerResult(tr, s) # "OK"
  /\ Return(t, OwnerResult(tr, s))
  /\ UNCHANGED <<txLock, uarg>>

\* The driver reports an error for the free size or for the write.
WriteFails(t, tr, s) ==
  /\ OwnerResult(tr, s) = "OK"
  /\ Return(t, "IO_ERROR")
  /\ UNCHANGED <<txLock, uarg>>

\* Nothing fits: an accepted count of zero.
WriteNothing(t, tr, s, n) ==
  /\ OwnerResult(tr, s) = "OK"
  /\ Accepted(tr, n) = 0
  /\ Return(t, "OK")
  /\ UNCHANGED <<txLock, uarg>>

WriteStarts(t, tr, s, n) ==
  /\ OwnerResult(tr, s) = "OK"
  /\ Accepted(tr, n) # 0
  /\ txLock' = t
  /\ uat' = [uat EXCEPT ![t] = "write"]
  /\ uarg' = [uarg EXCEPT ![t].owner = Owner(tr, s), ![t].left = Accepted(tr, n)]
  /\ UNCHANGED ures

SessionWrite(t, tr, s, n) ==
  /\ Idle(t)
  /\ txLock = "FREE"
  /\ \/ WriteRefused(t, tr, s)
     \/ WriteFails(t, tr, s)
     \/ WriteNothing(t, tr, s, n)
     \/ WriteStarts(t, tr, s, n)
  /\ UNCHANGED <<slots, txOwner, suspended, nextSession, tx, rxTotal, config,
                 seen, opened, got>>

\* uart_write_bytes: fills the ring, and waits while the ring is full.
WriteBytes(t) ==
  /\ uat[t] = "write"
  /\ Room > 0
  /\ LET n == Lesser(uarg[t].left, Room) IN
       /\ tx' = tx + n
       /\ \/ /\ n = uarg[t].left
             /\ uarg' = [uarg EXCEPT ![t] = NoArg]
             /\ Return(t, "OK")
             /\ Unlock
          \/ /\ n < uarg[t].left
             /\ uarg' = [uarg EXCEPT ![t].left = @ - n]
             /\ UNCHANGED <<uat, ures, txLock>>
  /\ UNCHANGED <<slots, txOwner, suspended, nextSession, rxTotal, config, seen,
                 opened, got>>

\* The hardware sends a byte.
TxDrain ==
  /\ tx > 0
  /\ tx' = tx - 1
  /\ UNCHANGED <<slots, txOwner, suspended, nextSession, txLock, rxTotal,
                 config, uat, uarg, ures, seen, opened, got>>

-----------------------------------------------------------------------------
(* The line settings, published under a sequence number. *)

SessionConfigure(t, tr, s, c) ==
  /\ Idle(t)
  /\ txLock = "FREE"
  /\ \/ /\ OwnerResult(tr, s) # "OK"
        /\ Return(t, OwnerResult(tr, s))
        /\ UNCHANGED <<txLock, uarg>>
     \/ /\ OwnerResult(tr, s) = "OK"
        /\ ~Valid(c)
        /\ Return(t, "INVALID_ARGUMENT")
        /\ UNCHANGED <<txLock, uarg>>
     \/ /\ OwnerResult(tr, s) = "OK"          \* uart_param_config fails
        /\ Valid(c)
        /\ Return(t, "IO_ERROR")
        /\ UNCHANGED <<txLock, uarg>>
     \/ /\ OwnerResult(tr, s) = "OK"
        /\ Valid(c)
        /\ config.sequence < 2 * (MaxConfigs + 1)
        /\ txLock' = t
        /\ uat' = [uat EXCEPT ![t] = "publish_begin"]
        /\ uarg' = [uarg EXCEPT ![t].owner = Owner(tr, s), ![t].setting = c]
        /\ UNCHANGED ures
  /\ UNCHANGED <<slots, txOwner, suspended, nextSession, tx, rxTotal, config,
                 seen, opened, got>>

\* publish_configuration, one store at a time.
PublishStep(t, from, to, next) ==
  /\ uat[t] = from
  /\ uat' = [uat EXCEPT ![t] = to]
  /\ config' = next
  /\ UNCHANGED <<slots, txOwner, suspended, nextSession, txLock, tx, rxTotal,
                 uarg, ures, seen, opened, got>>

\* Variant: a publication without its opening increment.
PublishBeginSilent(t) ==
  PublishStep(t, "publish_begin", "publish_baud", config)

PublishBegin(t) ==
  PublishStep(t, "publish_begin", "publish_baud",
              [config EXCEPT !.sequence = @ + 1])

PublishBaud(t) ==
  PublishStep(t, "publish_baud", "publish_bits",
              [config EXCEPT !.baud = uarg[t].setting.baud])

PublishBits(t) ==
  PublishStep(t, "publish_bits", "publish_end",
              [config EXCEPT !.bits = uarg[t].setting.bits])

PublishEnd(t) ==
  /\ uat[t] = "publish_end"
  /\ config' = [config EXCEPT !.sequence = @ + 1]
  /\ uarg' = [uarg EXCEPT ![t] = NoArg]
  /\ Unlock
  /\ Return(t, "OK")
  /\ UNCHANGED <<slots, txOwner, suspended, nextSession, tx, rxTotal, seen,
                 opened, got>>

\* get_status: an odd number sends the reader back to the start.
Reads(t, from, to, reading) ==
  /\ uat[t] = from
  /\ uat' = [uat EXCEPT ![t] = to]
  /\ seen' = [seen EXCEPT ![t] = reading]
  /\ UNCHANGED <<slots, txOwner, suspended, nextSession, txLock, tx, rxTotal,
                 config, uarg, ures, opened, got>>

GetStatus(t) ==
  /\ config.sequence % 2 = 0
  /\ Reads(t, "idle", "status_baud", [NoReading EXCEPT !.before = config.sequence])

StatusBaud(t) ==
  Reads(t, "status_baud", "status_bits", [seen[t] EXCEPT !.baud = config.baud])

StatusBits(t) ==
  Reads(t, "status_bits", "status_check", [seen[t] EXCEPT !.bits = config.bits])

StatusRetry(t) ==
  /\ config.sequence # seen[t].before
  /\ Reads(t, "status_check", "status_again", NoReading)

StatusAgain(t) ==
  /\ config.sequence % 2 = 0
  /\ Reads(t, "status_again", "status_baud",
           [NoReading EXCEPT !.before = config.sequence])

StatusDone(t) ==
  /\ config.sequence = seen[t].before
  /\ Reads(t, "status_check", "idle", NoReading)

-----------------------------------------------------------------------------
(* The quiet period of a firmware update. *)

SuspendTimeout(t) ==
  /\ Idle(t)
  /\ txLock # "FREE"
  /\ Return(t, "TIMEOUT")
  /\ UNCHANGED <<slots, txOwner, suspended, nextSession, txLock, tx, rxTotal,
                 config, uarg, seen, opened, got>>

Suspend(t) ==
  /\ Idle(t)
  /\ txLock = "FREE"
  /\ suspended' = TRUE
  /\ txOwner' = NoOwner
  /\ txLock' = t
  /\ uat' = [uat EXCEPT ![t] = "drain"]
  /\ UNCHANGED <<slots, nextSession, tx, rxTotal, config, uarg, ures, seen,
                 opened, got>>

\* uart_wait_tx_done: the ring is empty, or 100 ms have passed.
SuspendDrained(t) ==
  /\ uat[t] = "drain"
  /\ Return(t, IF tx = 0 THEN "OK" ELSE "TIMEOUT")
  /\ Unlock
  /\ UNCHANGED <<slots, txOwner, suspended, nextSession, tx, rxTotal, config,
                 uarg, seen, opened, got>>

Resume(t) ==
  /\ Idle(t)
  /\ suspended' = FALSE
  /\ Return(t, "OK")
  /\ UNCHANGED <<slots, txOwner, nextSession, txLock, tx, rxTotal, config,
                 uarg, seen, opened, got>>

-----------------------------------------------------------------------------
(* Received bytes: every live session gets a copy in its ring. *)

\* Variant: a tail that forgets the head.
RingTailOfCount(slot) == slot.count % RxSize

RingTail(slot) == (slot.head + slot.count) % RxSize

\* The bytes data go into the ring, wrapping at its end.
RingPut(slot, data) ==
  [slot EXCEPT
    !.buffer = [i \in 0..(RxSize - 1) |->
      LET k == ((i + RxSize) - RingTail(slot)) % RxSize IN
        IF k < Len(data) THEN data[k + 1] ELSE slot.buffer[i]],
    !.count = @ + Len(data)]

RingBytes(slot) ==
  [k \in 1..slot.count |-> slot.buffer[(slot.head + k - 1) % RxSize]]

\* add_dropped_bytes
AddDropped(slot, n) ==
  [slot EXCEPT !.dropped =
     IF n >= DroppedMax - @ THEN DroppedMax ELSE @ + n]

Received(slot, n) ==
  LET accepted == Lesser(n, RxSize - slot.count) IN
    AddDropped(RingPut(slot, [k \in 1..accepted |-> rxTotal + k]),
               n - accepted)

\* process_rx_once with publish_rx, for n bytes from the driver.
PublishRx(n) ==
  /\ rxTotal + n <= MaxRx
  /\ rxTotal' = rxTotal + n
  /\ slots' = [tr \in Transports |->
                 IF slots[tr].session = 0 THEN slots[tr]
                                          ELSE Received(slots[tr], n)]
  /\ UNCHANGED <<txOwner, suspended, nextSession, txLock, tx, config, uat,
                 uarg, ures, seen, opened, got>>

SessionReadOk(t, tr, capacity) ==
  LET n == Lesser(capacity, slots[tr].count) IN
    /\ got' = [got EXCEPT ![tr] = @ \o SubSeq(RingBytes(slots[tr]), 1, n)]
    /\ slots' = [slots EXCEPT ![tr].head = (@ + n) % RxSize,
                              ![tr].count = @ - n]
    /\ Return(t, "OK")

SessionRead(t, tr, s, capacity) ==
  /\ Idle(t)
  /\ \/ /\ ~SessionLive(tr, s)
        /\ Return(t, "STALE_SESSION")
        /\ UNCHANGED <<slots, got>>
     \/ /\ SessionLive(tr, s)
        /\ SessionReadOk(t, tr, capacity)
  /\ UNCHANGED <<txOwner, suspended, nextSession, txLock, tx, rxTotal, config,
                 uarg, seen, opened>>

-----------------------------------------------------------------------------
\* The steps a task takes inside a call.
UartCallStep(t) ==
  \/ WriteBytes(t)
  \/ PublishBegin(t) \/ PublishBaud(t) \/ PublishBits(t) \/ PublishEnd(t)
  \/ StatusBaud(t) \/ StatusBits(t) \/ StatusRetry(t) \/ StatusAgain(t)
  \/ StatusDone(t)
  \/ SuspendDrained(t)

-----------------------------------------------------------------------------
(* Properties. *)

\* The type of the module's state.
UartTypeOK ==
  /\ slots \in [Transports ->
       [session : 0..MaxSession, head : 0..(RxSize - 1), count : 0..RxSize,
        dropped : 0..DroppedMax, buffer : [0..(RxSize - 1) -> 0..MaxRx]]]
  /\ txOwner \in {NoOwner} \cup
       {Owner(tr, s) : tr \in Transports, s \in 1..MaxSession}
  /\ suspended \in BOOLEAN
  /\ nextSession \in 1..(MaxSession + 1)
  /\ txLock \in Tasks \cup {"FREE"}
  /\ tx \in 0..TxSize
  /\ rxTotal \in 0..MaxRx
  /\ config.sequence \in 2..(2 * (MaxConfigs + 1))

\* The owner of the sending side is always an open session, and it cannot
\* change under a call: bytes enter the send ring, and the line settings
\* change, only for the session that passed validate_tx_owner_locked and still
\* owns the sending side, whatever closes, acquires or suspends meanwhile.
TxOwnerIsStable ==
  /\ txOwner # NoOwner => slots[txOwner.transport].session = txOwner.session
  /\ \A t \in Tasks :
       uat[t] \in {"write", "publish_begin", "publish_baud", "publish_bits",
                   "publish_end"}
         => txLock = t /\ txOwner = uarg[t].owner

\* What a session has read and what its ring holds are bytes of the line
\* received since it was opened, in the order they were received and none
\* twice; every other byte received since then is counted as dropped, up to
\* the counter's limit (publish_rx and session_read over the wrapping ring,
\* add_dropped_bytes).
RxFaithful ==
  \A tr \in Transports :
    LET s == got[tr] \o RingBytes(slots[tr])
        lost == (rxTotal - opened[tr]) - Len(s)
    IN /\ \A i \in 1..(Len(s) - 1) : s[i] < s[i + 1]
       /\ \A i \in 1..Len(s) : s[i] \in (opened[tr] + 1)..rxTotal
       /\ slots[tr].session # 0 => slots[tr].dropped = Lesser(lost, DroppedMax)

\* get_status never returns the baud rate of one configuration with the data
\* bits of another, whatever publish_configuration does meanwhile.
StatusIsOneConfiguration ==
  \A t \in Tasks :
    uat[t] = "status_check" /\ config.sequence = seen[t].before =>
      \E c \in Settings : c.baud = seen[t].baud /\ c.bits = seen[t].bits
=============================================================================
