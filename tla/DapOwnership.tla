---------------------------- MODULE DapOwnership ----------------------------
(***************************************************************************)
(* The lock-free arbiter of the physical debug port                        *)
(* (firmware/components/dap_ownership/dap_ownership.c).                    *)
(*                                                                         *)
(* One atomic word, ownership_control, packs a state, an ACTIVE bit and a  *)
(* generation.  Any FreeRTOS task may call any entry point at any time;    *)
(* there is no lock.  Every atomic access of the C code is one step here:  *)
(* a load, a compare-exchange, or the final blind store of a transition.   *)
(* Between two steps of a task any number of steps of the others happen.   *)
(*                                                                         *)
(* Tasks          calling tasks; each owns one claim and one operation     *)
(*                structure, as the transport contexts of the firmware do  *)
(* MaxGeneration  OWNERSHIP_CONTROL_GENERATION_MAX, 2^28 - 1 in the build  *)
(***************************************************************************)
EXTENDS Naturals

CONSTANTS Tasks, MaxGeneration

ASSUME GenerationAssumption == MaxGeneration \in Nat \ {0}

VARIABLES
  control,      \* ownership_control
  pc,           \* where each task is inside an arbiter call ("idle": outside)
  expected,     \* the word the task loaded (expected / current)
  arg,          \* the requested owner, or the state release_pins will store
  claim,        \* the task's airdap_dap_ownership_claim_t
  operation,    \* the task's airdap_dap_ownership_operation_t
  result,       \* what the task's last call returned
  regranted     \* history: tasks whose loaded word is older than a grant

vars == <<control, pc, expected, arg, claim, operation, result, regranted>>

-----------------------------------------------------------------------------
(* The control word *)

Owners == {"USB", "NETWORK", "DIAGNOSTIC"}

States == Owners \cup
  {"NONE", "TRANSITION", "OFFLINE", "SUSPENDED", "UNINITIALIZED"}

Generations == 0 .. MaxGeneration

Words == [state : States, active : BOOLEAN, generation : Generations]

MakeControl(generation, state) ==
  [state |-> state, active |-> FALSE, generation |-> generation]

WithActive(word) ==
  [state |-> word.state, active |-> TRUE, generation |-> word.generation]

IsOwner(state) == state \in Owners

\* airdap_dap_ownership_current: the owner an observer sees
CurrentOwner == IF IsOwner(control.state) THEN control.state ELSE "NONE"

NoClaim == [owner |-> "NONE", generation |-> 0]

NoOperation == [owner |-> "NONE", generation |-> 0, active |-> FALSE]

ValidClaim(c) == IsOwner(c.owner) /\ c.generation > 0

ClaimWord(c) == MakeControl(c.generation, c.owner)

ClaimFailureResult(word, c) ==
  CASE word.state = "OFFLINE"       -> "OFFLINE"
    [] word.state = "UNINITIALIZED" -> "INVALID_STATE"
    [] word.state = "SUSPENDED"     -> "BUSY"
    [] word.state = "TRANSITION"    -> "BUSY"
    [] word = WithActive(ClaimWord(c)) -> "BUSY"
    [] OTHER                        -> "NOT_OWNER"

\* The refusals every entry point shares; OTHER is the entry point's own.
Refusal(word, other) ==
  CASE word.state = "OFFLINE"       -> "OFFLINE"
    [] word.state = "UNINITIALIZED" -> "INVALID_STATE"
    [] OTHER                        -> other

Results == {"OK", "ALREADY_OWNER", "BUSY", "NOT_OWNER", "OFFLINE",
            "INVALID_ARGUMENT", "INVALID_STATE"}

-----------------------------------------------------------------------------
(* Control flow of one task *)

CasLabels == {"acquire_cas", "control_cas", "revoke_cas", "revoke_owner_cas",
              "suspend_cas", "resume_cas"}

TransitionLabels == {"init_store", "line_reset", "release_pins"}

Labels == {"idle"} \cup CasLabels \cup TransitionLabels

Blank == MakeControl(0, "UNINITIALIZED")

Init ==
  /\ control = Blank
  /\ pc = [t \in Tasks |-> "idle"]
  /\ expected = [t \in Tasks |-> Blank]
  /\ arg = [t \in Tasks |-> "NONE"]
  /\ claim = [t \in Tasks |-> NoClaim]
  /\ operation = [t \in Tasks |-> NoOperation]
  /\ result = [t \in Tasks |-> "OK"]
  /\ regranted = {}

\* The call goes on at label, remembering a word and an argument.
Continue(t, label, word, value) ==
  /\ pc' = [pc EXCEPT ![t] = label]
  /\ expected' = [expected EXCEPT ![t] = word]
  /\ arg' = [arg EXCEPT ![t] = value]
  /\ UNCHANGED result

\* The call returns r; its locals die.
Return(t, r) ==
  /\ pc' = [pc EXCEPT ![t] = "idle"]
  /\ expected' = [expected EXCEPT ![t] = Blank]
  /\ arg' = [arg EXCEPT ![t] = "NONE"]
  /\ result' = [result EXCEPT ![t] = r]

\* The word just loaded by t is up to date.
Fresh(t) == regranted' = regranted \ {t}

-----------------------------------------------------------------------------
(* airdap_dap_ownership_initialize *)

Initialize(t) ==
  /\ pc[t] = "idle"
  /\ \/ /\ control = Blank
        /\ control' = MakeControl(0, "TRANSITION")
        /\ Continue(t, "init_store", MakeControl(0, "TRANSITION"), "NONE")
     \/ /\ control # Blank
        /\ Return(t, "INVALID_STATE")
        /\ UNCHANGED control
  /\ UNCHANGED <<claim, operation, regranted>>

InitStore(t) ==
  /\ pc[t] = "init_store"
  /\ control' = MakeControl(0, "NONE")
  /\ Return(t, "OK")
  /\ UNCHANGED <<claim, operation, regranted>>

-----------------------------------------------------------------------------
(* airdap_dap_ownership_acquire *)

AcquireLoad(t, owner) ==
  /\ pc[t] = "idle"
  /\ \/ /\ control.state = owner
        /\ claim' = [claim EXCEPT ![t] =
                       [owner |-> owner, generation |-> control.generation]]
        /\ Return(t, "ALREADY_OWNER")
     \/ /\ control.state = "NONE"
        /\ ~control.active
        /\ claim' = [claim EXCEPT ![t] = NoClaim]
        /\ Continue(t, "acquire_cas", control, owner)
     \/ /\ control.state # owner
        /\ control.state = "NONE" => control.active
        /\ claim' = [claim EXCEPT ![t] = NoClaim]
        /\ Return(t, Refusal(control, "BUSY"))
  /\ Fresh(t)
  /\ UNCHANGED <<control, operation>>

AcquireCas(t) ==
  /\ pc[t] = "acquire_cas"
  /\ \/ /\ control = expected[t]
        /\ control' = MakeControl(expected[t].generation, "TRANSITION")
        /\ Continue(t, "line_reset", expected[t], arg[t])
        /\ UNCHANGED claim
     \/ /\ control # expected[t]
        /\ control.state = arg[t]
        /\ claim' = [claim EXCEPT ![t] =
                       [owner |-> arg[t], generation |-> control.generation]]
        /\ Return(t, "ALREADY_OWNER")
        /\ UNCHANGED control
     \/ /\ control # expected[t]
        /\ control.state # arg[t]
        /\ Return(t, Refusal(control, "BUSY"))
        /\ UNCHANGED <<control, claim>>
  /\ UNCHANGED <<operation, regranted>>

\* The transition is exclusive: the last generation turns the port off, a
\* failed line reset gives the pins back, a good one grants a new generation.
LineReset(t) ==
  LET generation == expected[t].generation IN
  /\ pc[t] = "line_reset"
  /\ \/ /\ generation = MaxGeneration
        /\ control' = MakeControl(generation, "OFFLINE")
        /\ Return(t, "OFFLINE")
        /\ UNCHANGED <<claim, regranted>>
     \/ /\ generation # MaxGeneration
        /\ Continue(t, "release_pins", expected[t], "NONE")
        /\ UNCHANGED <<control, claim, regranted>>
     \/ /\ generation # MaxGeneration
        /\ control' = MakeControl(generation + 1, arg[t])
        /\ claim' = [claim EXCEPT ![t] =
                       [owner |-> arg[t], generation |-> generation + 1]]
        /\ regranted' = {u \in Tasks : pc[u] \in CasLabels}
        /\ Return(t, "OK")
  /\ UNCHANGED operation

\* release_pins: both outcomes of the board call, and the blind store.  After
\* a failed line reset acquire returns OFFLINE whatever this call returned.
ReleasePins(t) ==
  LET generation == expected[t].generation
      resetFailed == expected[t].state = "NONE" IN
  /\ pc[t] = "release_pins"
  /\ \/ /\ control' = MakeControl(generation, arg[t])
        /\ Return(t, IF resetFailed THEN "OFFLINE" ELSE "OK")
     \/ /\ control' = MakeControl(generation, "OFFLINE")
        /\ Return(t, "OFFLINE")
  /\ UNCHANGED <<claim, operation, regranted>>

-----------------------------------------------------------------------------
(* airdap_dap_ownership_release *)

Release(t) ==
  /\ pc[t] = "idle"
  /\ \/ /\ ~ValidClaim(claim[t])
        /\ Return(t, "INVALID_ARGUMENT")
        /\ UNCHANGED control
     \/ /\ ValidClaim(claim[t])
        /\ control = ClaimWord(claim[t])
        /\ control' = MakeControl(claim[t].generation, "TRANSITION")
        /\ Continue(t, "release_pins", ClaimWord(claim[t]), "NONE")
     \/ /\ ValidClaim(claim[t])
        /\ control # ClaimWord(claim[t])
        /\ Return(t, ClaimFailureResult(control, claim[t]))
        /\ UNCHANGED control
  /\ UNCHANGED <<claim, operation, regranted>>

-----------------------------------------------------------------------------
(* airdap_dap_ownership_operation_begin, _control_begin, _operation_end *)

OperationBegin(t) ==
  /\ pc[t] = "idle"
  /\ \/ /\ ~ValidClaim(claim[t])
        /\ Return(t, "INVALID_ARGUMENT")
        /\ UNCHANGED <<control, operation>>
     \/ /\ ValidClaim(claim[t])
        /\ operation[t].active
        /\ Return(t, "INVALID_STATE")
        /\ UNCHANGED <<control, operation>>
     \/ /\ ValidClaim(claim[t])
        /\ ~operation[t].active
        /\ control = ClaimWord(claim[t])
        /\ control' = WithActive(control)
        /\ operation' = [operation EXCEPT ![t] =
             [owner |-> claim[t].owner, generation |-> claim[t].generation,
              active |-> TRUE]]
        /\ Return(t, "OK")
     \/ /\ ValidClaim(claim[t])
        /\ ~operation[t].active
        /\ control # ClaimWord(claim[t])
        /\ Return(t, ClaimFailureResult(control, claim[t]))
        /\ UNCHANGED <<control, operation>>
  /\ UNCHANGED <<claim, regranted>>

ControlLoad(t, owner) ==
  /\ pc[t] = "idle"
  /\ \/ /\ operation[t].active
        /\ Return(t, "INVALID_STATE")
        /\ UNCHANGED regranted
     \/ /\ ~operation[t].active
        /\ control.state \in {"NONE", owner}
        /\ ~control.active
        /\ Continue(t, "control_cas", control, owner)
        /\ Fresh(t)
     \/ /\ ~operation[t].active
        /\ control.state \in {"NONE", owner} => control.active
        /\ Return(t, Refusal(control, "BUSY"))
        /\ Fresh(t)
  /\ UNCHANGED <<control, claim, operation>>

\* Variant: the reservation is a plain store.
ControlCasBlind(t) ==
  /\ pc[t] = "control_cas"
  /\ control' = WithActive(expected[t])
  /\ operation' = [operation EXCEPT ![t] =
       [owner |-> expected[t].state,
        generation |-> expected[t].generation, active |-> TRUE]]
  /\ Return(t, "OK")
  /\ UNCHANGED <<claim, regranted>>

ControlCas(t) ==
  /\ pc[t] = "control_cas"
  /\ \/ /\ control = expected[t]
        /\ control' = WithActive(control)
        /\ operation' = [operation EXCEPT ![t] =
             [owner |-> expected[t].state,
              generation |-> expected[t].generation, active |-> TRUE]]
        /\ Return(t, "OK")
     \/ /\ control # expected[t]
        /\ Return(t, "BUSY")
        /\ UNCHANGED <<control, operation>>
  /\ UNCHANGED <<claim, regranted>>

OperationWord(op) == WithActive(MakeControl(op.generation, op.owner))

\* The compare-exchange is not checked: a mismatch leaves the word alone.
OperationEnd(t) ==
  /\ pc[t] = "idle"
  /\ operation[t].active
  /\ control' = IF control = OperationWord(operation[t])
                THEN MakeControl(control.generation, control.state)
                ELSE control
  /\ operation' = [operation EXCEPT ![t] = NoOperation]
  /\ UNCHANGED <<pc, expected, arg, claim, result, regranted>>

-----------------------------------------------------------------------------
(* airdap_dap_ownership_revoke, _revoke_owner *)

RevokeLoad(t) ==
  /\ pc[t] = "idle"
  /\ \/ /\ control.state = "NONE"
        /\ ~control.active
        /\ Return(t, "OK")
     \/ /\ IsOwner(control.state)
        /\ ~control.active
        /\ Continue(t, "revoke_cas", control, "NONE")
     \/ /\ control.active \/ control.state \notin Owners \cup {"NONE"}
        /\ Return(t, Refusal(control, "BUSY"))
  /\ Fresh(t)
  /\ UNCHANGED <<control, claim, operation>>

RevokeCas(t) ==
  /\ pc[t] = "revoke_cas"
  /\ \/ /\ control = expected[t]
        /\ control' = MakeControl(expected[t].generation, "TRANSITION")
        /\ Continue(t, "release_pins", expected[t], "NONE")
     \/ /\ control # expected[t]
        /\ Return(t, IF control.state = "NONE" THEN "OK"
                     ELSE Refusal(control, "BUSY"))
        /\ UNCHANGED control
  /\ UNCHANGED <<claim, operation, regranted>>

RevokeOwnerLoad(t, owner) ==
  /\ pc[t] = "idle"
  /\ \/ /\ control.state = owner
        /\ ~control.active
        /\ Continue(t, "revoke_owner_cas", control, owner)
     \/ /\ control.state = owner
        /\ control.active
        /\ Return(t, "BUSY")
     \/ /\ control.state # owner
        /\ Return(t, IF control.state \in {"TRANSITION", "SUSPENDED"}
                     THEN "BUSY" ELSE Refusal(control, "NOT_OWNER"))
  /\ Fresh(t)
  /\ UNCHANGED <<control, claim, operation>>

\* Variant: the owner is compared, its generation is not.
RevokeOwnerCasByOwner(t) ==
  /\ pc[t] = "revoke_owner_cas"
  /\ control.state = arg[t] /\ ~control.active
  /\ control' = MakeControl(control.generation, "TRANSITION")
  /\ Continue(t, "release_pins", control, "NONE")
  /\ UNCHANGED <<claim, operation, regranted>>

RevokeOwnerCas(t) ==
  /\ pc[t] = "revoke_owner_cas"
  /\ \/ /\ control = expected[t]
        /\ control' = MakeControl(expected[t].generation, "TRANSITION")
        /\ Continue(t, "release_pins", expected[t], "NONE")
     \/ /\ control # expected[t]
        /\ Return(t, IF control.state \in {arg[t], "TRANSITION", "SUSPENDED"}
                     THEN "BUSY" ELSE Refusal(control, "NOT_OWNER"))
        /\ UNCHANGED control
  /\ UNCHANGED <<claim, operation, regranted>>

-----------------------------------------------------------------------------
(* airdap_dap_ownership_suspend, _resume: retry loops around a weak        *)
(* compare-exchange.  A failed exchange reloads the word and decides again; *)
(* a spurious failure reloads the same word and is a stuttering step.      *)

SuspendDecide(t) ==
  /\ \/ /\ control.state \in Owners \cup {"NONE"}
        /\ ~control.active
        /\ Continue(t, "suspend_cas", control, "SUSPENDED")
     \/ /\ control.state = "SUSPENDED"
        /\ Return(t, "OK")
     \/ /\ control.state # "SUSPENDED"
        /\ control.state \in Owners \cup {"NONE"} => control.active
        /\ Return(t, Refusal(control, "BUSY"))
  /\ Fresh(t)
  /\ UNCHANGED <<control, claim, operation>>

SuspendLoad(t) == pc[t] = "idle" /\ SuspendDecide(t)

\* Variants: the owner is suspended without releasing its pins; a failed
\* exchange does not reload the word.
SuspendCasKeepsPins(t) ==
  /\ pc[t] = "suspend_cas" /\ control = expected[t]
  /\ control' = MakeControl(control.generation, "SUSPENDED")
  /\ Return(t, "OK")
  /\ UNCHANGED <<claim, operation, regranted>>

SuspendCasStale(t) ==
  /\ pc[t] = "suspend_cas" /\ control = expected[t]
  /\ control' = MakeControl(control.generation, "TRANSITION")
  /\ Continue(t, "release_pins", expected[t], "SUSPENDED")
  /\ UNCHANGED <<claim, operation, regranted>>

SuspendCas(t) ==
  /\ pc[t] = "suspend_cas"
  /\ \/ /\ control = expected[t]
        /\ control.state = "NONE"
        /\ control' = MakeControl(control.generation, "SUSPENDED")
        /\ Return(t, "OK")
        /\ UNCHANGED <<claim, operation, regranted>>
     \/ /\ control = expected[t]
        /\ IsOwner(control.state)
        /\ control' = MakeControl(control.generation, "TRANSITION")
        /\ Continue(t, "release_pins", expected[t], "SUSPENDED")
        /\ UNCHANGED <<claim, operation, regranted>>
     \/ /\ control # expected[t]
        /\ SuspendDecide(t)

ResumeDecide(t) ==
  /\ \/ /\ control.state = "SUSPENDED"
        /\ Continue(t, "resume_cas", control, "NONE")
     \/ /\ control.state = "NONE"
        /\ Return(t, "OK")
     \/ /\ control.state \notin {"SUSPENDED", "NONE"}
        /\ Return(t, Refusal(control, "BUSY"))
  /\ Fresh(t)
  /\ UNCHANGED <<control, claim, operation>>

ResumeLoad(t) == pc[t] = "idle" /\ ResumeDecide(t)

ResumeCas(t) ==
  /\ pc[t] = "resume_cas"
  /\ \/ /\ control = expected[t]
        /\ control' = MakeControl(control.generation, "NONE")
        /\ Return(t, "OK")
        /\ UNCHANGED <<claim, operation, regranted>>
     \/ /\ control # expected[t]
        /\ ResumeDecide(t)

-----------------------------------------------------------------------------
(* The steps a task takes once it is inside a call, and the specification *)

InCall(t) ==
  \/ InitStore(t)
  \/ AcquireCas(t)
  \/ LineReset(t)
  \/ ReleasePins(t)
  \/ ControlCas(t)
  \/ RevokeCas(t)
  \/ RevokeOwnerCas(t)
  \/ SuspendCas(t)
  \/ ResumeCas(t)

Call(t) ==
  \/ Initialize(t)
  \/ \E owner \in Owners :
       \/ AcquireLoad(t, owner)
       \/ ControlLoad(t, owner)
       \/ RevokeOwnerLoad(t, owner)
  \/ Release(t)
  \/ OperationBegin(t)
  \/ OperationEnd(t)
  \/ RevokeLoad(t)
  \/ SuspendLoad(t)
  \/ ResumeLoad(t)

Next == \E t \in Tasks : Call(t) \/ InCall(t)

Spec == Init /\ [][Next]_vars

-----------------------------------------------------------------------------
(* Properties *)

\* Type invariant of the arbiter word and of every caller's structures.
TypeOK ==
  /\ control \in Words
  /\ pc \in [Tasks -> Labels]
  /\ expected \in [Tasks -> Words]
  /\ arg \in [Tasks -> States]
  /\ claim \in [Tasks -> [owner : Owners \cup {"NONE"},
                          generation : Generations]]
  /\ operation \in [Tasks -> [owner : Owners \cup {"NONE"},
                              generation : Generations, active : BOOLEAN]]
  /\ result \in [Tasks -> Results]
  /\ regranted \subseteq Tasks

\* A task may touch SWCLK, SWDIO or nRESET: it runs line_reset or
\* release_pins inside a transition, or it is between operation_begin (or
\* control_begin) and operation_end.
Drives(t) == pc[t] \in {"line_reset", "release_pins"} \/ operation[t].active

\* The pins are never driven by two tasks at once: neither two transitions,
\* nor two operations, nor one of each.
PinsExclusive ==
  \A t, u \in Tasks : Drives(t) /\ Drives(u) => t = u

\* Nothing is left behind by a call: the word is in TRANSITION only while a
\* task is inside one, and ACTIVE only while a task holds that very
\* operation, so the arbiter cannot stay BUSY with nobody to clear it.
NoOrphanedReservation ==
  /\ control.state = "TRANSITION" =>
       \E t \in Tasks : pc[t] \in TransitionLabels
  /\ control.active =>
       \E t \in Tasks : operation[t].active /\ control = OperationWord(operation[t])

\* A generation names one grant: two callers holding claims of the same
\* generation were given the same owner, so no stale claim can pass for a
\* later owner's.
ClaimsAgree ==
  \A t, u \in Tasks :
    claim[t].generation = claim[u].generation => claim[t].owner = claim[u].owner

\* operation_begin and control_begin hold ownership stable: while a task keeps
\* its operation, no other call changes the owner, the generation or the bit.
OperationHoldsOwnership ==
  [][\A t \in Tasks :
       operation[t].active /\ operation'[t].active => control' = control]_vars

\* revoke and revoke_owner only ever release the grant they looked at: "A
\* concurrent owner change is never revoked."
RevokesOnlyWhatItSaw ==
  [][\A t \in Tasks :
       /\ pc[t] \in {"revoke_cas", "revoke_owner_cas"}
       /\ pc'[t] = "release_pins"
       => t \notin regranted]_vars

\* A suspended arbiter stays blocked until a resume: no late store of an
\* acquire, release or revoke that began earlier reopens it.
SuspendedUntilResume ==
  [][control.state = "SUSPENDED" /\ control'.state # "SUSPENDED" =>
       \E t \in Tasks : pc[t] = "resume_cas" /\ pc'[t] = "idle"]_vars

\* A port that failed to release its pins, or ran out of generations, is never
\* used again before a reboot.
OfflineIsFinal ==
  [][control.state = "OFFLINE" => control'.state = "OFFLINE"]_vars
-----------------------------------------------------------------------------
(* The arbiter implements the abstract one: the generation counts grants.  *)

Arbiter == INSTANCE PinArbiter WITH
  drivers <- {t \in Tasks : Drives(t)},
  owner   <- CurrentOwner,
  grants  <- control.generation

\* The lock-free code implements PinArbiter: ownership changes hands only
\* through an exclusive phase on the pins, and each grant has a new generation.
ImplementsPinArbiter == Arbiter!Spec

-----------------------------------------------------------------------------
(* The inductive invariant behind the safety properties *)

\* What a task inside a call knows about the word it loaded.
LocalsInv ==
  \A t \in Tasks :
    /\ pc[t] \in CasLabels =>
         /\ expected[t].generation <= control.generation
         /\ ~expected[t].active
         /\ t \in regranted => expected[t].generation < control.generation
    /\ pc[t] = "acquire_cas" => expected[t].state = "NONE"
    /\ pc[t] \in {"acquire_cas", "line_reset"} => arg[t] \in Owners
    /\ pc[t] \in {"revoke_cas", "revoke_owner_cas"} => expected[t].state \in Owners
    /\ pc[t] \in {"control_cas", "suspend_cas"} =>
         expected[t].state \in Owners \cup {"NONE"}
    /\ pc[t] = "resume_cas" => expected[t].state = "SUSPENDED"
    /\ pc[t] = "release_pins" => arg[t] \in {"NONE", "SUSPENDED"}
    /\ pc[t] = "init_store" => expected[t].generation = 0

\* The TRANSITION state is a lock, held by exactly one task.
TransitionInv ==
  /\ control.state = "TRANSITION" <=>
       \E t \in Tasks : pc[t] \in TransitionLabels
  /\ \A t \in Tasks : pc[t] \in TransitionLabels =>
       control = MakeControl(expected[t].generation, "TRANSITION")
  /\ \A t, u \in Tasks :
       pc[t] \in TransitionLabels /\ pc[u] \in TransitionLabels => t = u

\* The ACTIVE bit is a lock, held by exactly one task.
OperationInv ==
  /\ control.active <=> \E t \in Tasks : operation[t].active
  /\ \A t \in Tasks : operation[t].active =>
       control = OperationWord(operation[t])
  /\ \A t, u \in Tasks : operation[t].active /\ operation[u].active => t = u

\* Claims are never newer than the word, and a claim of its generation names
\* its owner.
ClaimInv ==
  /\ control.state \in Owners => control.generation > 0
  /\ control.state = "UNINITIALIZED" => control = Blank
  /\ \A t \in Tasks :
       /\ claim[t].generation <= control.generation
       /\ claim[t].owner = "NONE" <=> claim[t].generation = 0
       /\ /\ control.state \in Owners
          /\ claim[t].generation = control.generation
          => claim[t].owner = control.state
  /\ ClaimsAgree

\* Everything the proofs carry from step to step.
IInv == TypeOK /\ LocalsInv /\ TransitionInv /\ OperationInv /\ ClaimInv
=============================================================================
